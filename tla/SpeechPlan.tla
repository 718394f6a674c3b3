------------------------------ MODULE SpeechPlan ------------------------------
(***************************************************************************)
(* What is sent to the TTS provider for an analysed chapter: the voice of    *)
(* each speaker, the check of the voices, the expression under a strict      *)
(* policy, and the units to synthesize (backend/tts.py,                      *)
(* backend/services/expressive_tts.py, generation_pipeline.py).              *)
(*                                                                          *)
(* A book is [voices, english, narratorKey, profiles]: the voice of each     *)
(* name, Unset where it has none; whether it is an English book; the key     *)
(* under which the voice of its narrator is stored (label: the name that the *)
(* page shows); the expressive profiles, [speaker, emotion, usable].         *)
(***************************************************************************)
EXTENDS SourceSegmentation

CONSTANT Unset  \* no voice

EnglishVoice(book) == book.voices["_english"]

\* _narrator_voice.
NarratorVoice(book) ==
  IF book.voices["narrator"] # Unset THEN book.voices["narrator"]
  ELSE IF book.english THEN EnglishVoice(book) ELSE Unset

\* legacy_compatibility_view: a character is called what its first segment calls it.
Called(artifact, speaker) ==
  IF speaker \in {"narrator", "unresolved"} THEN speaker
  ELSE artifact[Min({k \in DOMAIN artifact : artifact[k].speaker = speaker})].name

\* _voice_for.
VoiceFor(book, speaker) ==
  CASE speaker \in {"narrator", "unresolved"} -> NarratorVoice(book)
    [] speaker \notin {"narrator", "unresolved"} /\ book.voices[speaker] # Unset -> book.voices[speaker]
    [] OTHER -> IF book.english THEN EnglishVoice(book) ELSE NarratorVoice(book)

\* required_voice_usage.
VoiceUsage(book, artifact) ==
  {VoiceFor(book, Called(artifact, artifact[k].speaker)) : k \in DOMAIN artifact}

\* format_missing_voice_error: what the provider offers, in the request and again in
\* the worker.
Offered(book, artifact, catalogue) == VoiceUsage(book, artifact) \subseteq catalogue

-----------------------------------------------------------------------------
(* Expression *)

\* build_expressive_snapshot: the voice the resolver sees, which is that of the last
\* of the speaker's names that has one; narration and unresolved dialogue have none.
ResolvedVoice(book, artifact, speaker) ==
  LET named == {k \in DOMAIN artifact :
                  artifact[k].speaker = speaker /\ book.voices[artifact[k].name] # Unset}
  IN CASE speaker = "narrator" ->
            IF book.narratorKey = "speaker:narrator" THEN book.voices["narrator"] ELSE Unset
       [] speaker = "unresolved" \/ (speaker # "narrator" /\ named = {}) -> Unset
       [] OTHER -> book.voices[artifact[Max(named)].name]

\* _profile_map: an active profile whose voice is available; its latest version counts.
HasProfile(book, speaker, emotion) ==
  \E p \in book.profiles : p.speaker = speaker /\ p.emotion = emotion /\ p.usable

\* _supports: of the voice where the provider says so for each of its voices, or of
\* the provider.
Supports(provider, voice) ==
  IF voice \in DOMAIN provider.expressive THEN provider.expressive[voice] ELSE provider.emotions

\* resolve_expression: the emotion that is applied.
Applied(book, provider, speaker, voice, emotion) ==
  IF emotion # "neutral" /\ HasProfile(book, speaker, emotion) /\ Supports(provider, voice)
  THEN emotion ELSE "neutral"

\* resolve_segments under the strict policy refuses the chapter otherwise.
StrictlyResolved(book, provider, artifact) ==
  \A k \in DOMAIN artifact :
    LET item == artifact[k]
        voice == ResolvedVoice(book, artifact, item.speaker) IN
    voice # Unset /\ Applied(book, provider, item.speaker, voice, item.emotion) = item.emotion

-----------------------------------------------------------------------------
(* Units *)

Has(text, piece, kinds) == \E i \in Places(piece[1], piece[2]) : text[i] \in kinds

\* _tts_text: in a book that is not English, a segment with an ellipsis and no Chinese letter
\* is replaced by a pause, whatever else it says.
IsReplaced(text, book, item) ==
  LET piece == <<item.from, item.to>> IN
  ~book.english /\ ~Has(text, piece, {"letter"}) /\ Has(text, piece, {"ellipsis"})

\* What is said where nothing of the text is: a pause, of no places.
Pause(from) == <<from, from>>
IsPause(unit) == unit.from = unit.to

\* The pieces of a segment that become units; one with nothing to say (_speakable) has none.
SpokenOf(text, book, item, max) ==
  CASE IsReplaced(text, book, item) -> <<Pause(item.from)>>
    [] ~IsReplaced(text, book, item) /\ Has(text, <<item.from, item.to>>, Letters) ->
         SpokenPieces(text, item.from, item.to, max)
    [] OTHER -> << >>

\* _build_jobs and _expand_synthesis_jobs: the units of the segment at a place of the
\* artifact.
UnitsOf(text, book, artifact, k, max) ==
  LET item == artifact[k]
      pieces == SpokenOf(text, book, item, max)
  IN [p \in DOMAIN pieces |->
       [place |-> k, segment |-> item.segment, part |-> p, from |-> pieces[p][1], to |-> pieces[p][2],
        voice |-> VoiceFor(book, Called(artifact, item.speaker)), emotion |-> item.emotion]]

SpeechUnits(text, book, artifact, max) ==
  FlattenSeq([k \in DOMAIN artifact |-> UnitsOf(text, book, artifact, k, max)])

\* The requests of one unit: the adapter cuts it again at the provider's own limit, which a
\* pause is within, and joins what comes back.
Calls(text, unit, max) ==
  IF IsPause(unit) THEN <<Pause(unit.from)>> ELSE SpokenPieces(text, unit.from, unit.to, max)
=============================================================================
