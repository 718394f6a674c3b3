--------------------------- MODULE ChapterReading ---------------------------
(***************************************************************************)
(* A chapter from the document it was imported in to the audio that reads    *)
(* it: import, text, annotation by the AI provider, artifact, voices, TTS    *)
(* units and their cache (backend/services/tts_partials.py), the file and    *)
(* its timing (backend/tts.py).  The functions it is made of are in          *)
(* ChapterSplitting, SegmentAnnotation and SpeechPlan.                       *)
(*                                                                          *)
(* What is said is [from, to, voice, emotion]: the places of the text that   *)
(* one request sent to the TTS provider.  A sound is a sequence of these.    *)
(***************************************************************************)
EXTENDS ChapterSplitting, SegmentAnnotation, SpeechPlan

CONSTANTS
  MaxLines, MaxLength,  \* of a document, of a text being typed
  CharLimit,            \* of a chapter split by characters
  Followed,             \* the texts that are analysed
  GroupLimits,          \* [chars, segments] of a chunk
  Policy, SampleLimit,  \* [low, percent] of an answer; the ids a diagnostic lists
  Sayings,              \* the [name, emotion] an annotation may give a segment
  Settings,             \* the [book, provider, strict] audio is asked for with
  Catalogue,            \* the voices of the provider
  UnitMax,              \* the characters of a synthesis unit
  Capacity,             \* TTS calls at a time
  MaxRounds, MaxFailures, MaxCrashes  \* bounds of the model

VARIABLES stage, document, text, chunk, answer, annotations, artifact, setting, units, cache, audio,
          timing, rounds, failures, crashes

written == <<stage, document, text>>
annotating == <<chunk, answer, annotations, artifact>>
speaking == <<setting, units, audio, timing>>
counters == <<rounds, failures, crashes>>
reading == <<written, annotating, speaking, cache, counters>>

\* A group of segments is small enough for every missing one to be asked for again.
ASSUME SampleCoversWhatMayBeMissing ==
  \A n \in 1 .. GroupLimits.segments, m \in 1 .. GroupLimits.segments :
    m <= n /\ (n < Policy.low \/ 100 * (n - m) >= Policy.percent * n) => m <= SampleLimit
ASSUME LimitsArePositive ==
  {CharLimit, UnitMax, Capacity, GroupLimits.segments} \cup {s.provider.limit : s \in Settings} \subseteq Nat \ {0}
ASSUME PolicyIsOfNumbers == SampleLimit \in Nat /\ Policy \in [low : Nat, percent : Nat]
ASSUME FollowedAreTexts == Followed \subseteq Seq(Kinds)
\* The identity of a provider holds its configuration and its capabilities.
ASSUME ProviderIsItsId == \A s, r \in Settings : s.provider.id = r.provider.id => s.provider = r.provider

\* What an annotation names a speaker is written in a way the registry knows.
ASSUME SayingsAreKnown == \A s \in Sayings : s.name = "nobody" \/ s.name \in DOMAIN Character
ASSUME BoundsAreNumbers == {MaxLines, MaxLength, MaxRounds, MaxFailures, MaxCrashes} \subseteq Nat

Emotions == {"neutral"} \cup {s.emotion : s \in Sayings}
Items == [segment : Nat, from : Nat, to : Nat, speaker : {"narrator", "unresolved"} \cup Range(Character),
          name : {s.name : s \in Sayings}, emotion : Emotions]
SynthesisUnits == [place : Nat, segment : Nat, part : Nat, from : Nat, to : Nat,
                   voice : Catalogue, emotion : Emotions]
Sounds == [from : Nat, to : Nat, voice : Catalogue, emotion : Emotions]
Keys == [provider : {s.provider.id : s \in Settings}, segment : Nat, part : Nat, from : Nat, to : Nat,
         emotion : Emotions, voice : Catalogue]

\* Nothing is asked of the TTS provider, cached or recorded in a voice it does not offer.
ReadingTypeOK ==
  /\ stage \in {"document", "text", "asking", "repairing", "completing", "annotated", "unread",
               "ready", "rendering", "spoken"}
  /\ document \in Seq(Lines) /\ text \in Seq(Kinds)
  /\ chunk \in Nat \ {0} /\ answer \in Seq(Int) /\ annotations \in Seq(Nat)
  /\ artifact \in Seq(Items) /\ setting \in Settings \cup {Unset}
  /\ units \in Seq([unit : SynthesisUnits, at : {"todo", "asked", "done"}, sound : Seq(Sounds), tries : Nat])
  /\ cache \subseteq [key : Keys, sound : Seq(Sounds), manifest : BOOLEAN]
  /\ audio \in Seq([sound : Seq(Sounds), start : Nat, place : Nat, measured : BOOLEAN]) /\ timing \in Seq(Nat)
  /\ rounds \in 0 .. MaxRounds /\ failures \in 0 .. MaxFailures /\ crashes \in 0 .. MaxCrashes

ReadingInit ==
  /\ stage = "document" /\ document = << >> /\ text = << >>
  /\ chunk = 1 /\ answer = << >> /\ annotations = << >> /\ artifact = << >>
  /\ setting = Unset /\ units = << >> /\ cache = {} /\ audio = << >> /\ timing = << >>
  /\ rounds = 0 /\ failures = 0 /\ crashes = 0

-----------------------------------------------------------------------------
(* The text *)

WriteLine(line) ==
  /\ stage = "document" /\ Len(document) < MaxLines
  /\ document' = Append(document, line)
  /\ UNCHANGED <<stage, text, annotating, speaking, cache, counters>>

\* The characters of a line are not those of the text: a chapter of the document may
\* have any.
Import ==
  /\ stage = "document" /\ SplitByTitle(document) # << >>
  /\ \E t \in Followed \cup {<< >>} : text' = t
  /\ stage' = "text" /\ document' = << >>
  /\ UNCHANGED <<annotating, speaking, cache, counters>>

Type(kind) ==
  /\ stage = "text" /\ Len(text) < MaxLength
  /\ text' = Append(text, kind)
  /\ UNCHANGED <<stage, document, annotating, speaking, cache, counters>>

-----------------------------------------------------------------------------
(* Annotation *)

Chunks == Groups(Segments(text), GroupLimits)
Ids(c) == Places(Chunks[c][1], Chunks[c][2])
Missing == Ids(chunk) \ Range(answer)

Answers == UNION {[1 .. n -> Ids(chunk) \cup {Unknown, Nameless}] : n \in 0 .. Cardinality(Ids(chunk)) + 1}

\* A text with nothing to annotate is annotated at once, one that segment_source refuses
\* fails.
Analyze ==
  /\ stage = "text" /\ text \in Followed
  /\ stage' = IF ~Readable(text) THEN "unread" ELSE IF Chunks = << >> THEN "annotated" ELSE "asking"
  /\ UNCHANGED <<document, text, annotating, speaking, cache, counters>>

\* What becomes of an answer that validate_annotation_payload has looked at.
Judged(given, verdict) ==
  CASE verdict = "accepted" ->
         /\ annotations' = annotations \o given /\ chunk' = chunk + 1 /\ answer' = << >>
         /\ stage' = IF chunk = Len(Chunks) THEN "annotated" ELSE "asking"
    [] verdict = "incomplete" ->
         stage' = "completing" /\ answer' = given /\ UNCHANGED <<annotations, chunk>>
    [] OTHER -> stage' = "unread" /\ answer' = << >> /\ UNCHANGED <<annotations, chunk>>

\* _call_structured_annotations: the provider's answer for the next chunk.
Answer ==
  /\ stage = "asking"
  /\ \E given \in Answers :
       IF Verdict(given, Ids(chunk), Policy) = "reference"
       THEN stage' = "repairing" /\ answer' = given /\ UNCHANGED <<annotations, chunk>>
       ELSE Judged(given, Verdict(given, Ids(chunk), Policy))
  /\ UNCHANGED <<document, text, artifact, speaking, cache, counters>>

\* repair_invalid_references: wrong references are bound again, each to a segment of
\* its own, and the whole is validated once more.
Repair ==
  /\ stage = "repairing"
  /\ LET kept == Kept(answer, Ids(chunk))
     IN \E again \in Repairs(Rebound(answer, Ids(chunk)), Ids(chunk) \ Range(kept)) :
          Judged(kept \o again, Verdict(kept \o again, Ids(chunk), Policy))
  /\ UNCHANGED <<document, text, artifact, speaking, cache, counters>>

\* The targeted completion: only the missing segments that the diagnostic lists are
\* asked for, and what it returns follows the rest of the chunk.
Complete ==
  /\ stage = "completing"
  /\ \E sample \in kSubset(Min({SampleLimit, Cardinality(Missing)}), Missing) :
       \E given \in Repairs(Cardinality(sample), sample) : Judged(answer \o given, "accepted")
  /\ UNCHANGED <<document, text, artifact, speaking, cache, counters>>

\* A second answer that does not pass fails the chapter.
GiveUp ==
  /\ stage \in {"repairing", "completing"}
  /\ stage' = "unread" /\ answer' = << >>
  /\ UNCHANGED <<document, text, chunk, annotations, artifact, speaking, cache, counters>>

\* apply_annotations and validate_v4_artifact.
Apply ==
  /\ stage = "annotated"
  /\ \E said \in [DOMAIN Segments(text) -> Sayings] :
       LET made == Artifact(Segments(text), annotations, said)
           accepted == Covers(annotations, Segments(text)) /\ Valid(text, made)
       IN /\ artifact' = IF accepted THEN made ELSE << >>
          /\ stage' = IF accepted THEN "ready" ELSE "unread"
  /\ chunk' = 1 /\ annotations' = << >>
  /\ UNCHANGED <<document, text, answer, speaking, cache, counters>>

-----------------------------------------------------------------------------
(* Speech *)

\* Mutant: the identity of a unit leaves out its voice.
VoicelessKey(unit, provider) ==
  [provider |-> provider.id, segment |-> unit.segment, part |-> unit.part,
   from |-> unit.from, to |-> unit.to, emotion |-> unit.emotion]

\* cache_key.
Key(unit, provider) ==
  [provider |-> provider.id, segment |-> unit.segment, part |-> unit.part,
   from |-> unit.from, to |-> unit.to, emotion |-> unit.emotion, voice |-> unit.voice]

\* copy_if_valid: the sound of a cached file, its manifest written or not.
Cached(unit, provider) ==
  LET found == {e \in cache : e.key = Key(unit, provider)}
  IN IF found = {} THEN << >> ELSE (CHOOSE e \in found : TRUE).sound

\* _preflight_voices and the snapshot of the request, and what the worker asks before
\* it begins.
Accepted(s) ==
  /\ Offered(s.book, artifact, Catalogue)
  /\ s.strict => StrictlyResolved(s.book, s.provider, artifact)
  /\ SpeechUnits(text, s.book, artifact, UnitMax) # << >>

\* Every unit looks into the cache before any is sent.
Begun(unit, provider) ==
  LET sound == Cached(unit, provider)
  IN [unit |-> unit, at |-> IF sound = << >> THEN "todo" ELSE "done", sound |-> sound, tries |-> 0]

Begin ==
  /\ stage \in {"ready", "spoken"} /\ rounds < MaxRounds
  /\ \E s \in Settings :
       /\ Accepted(s)
       /\ setting' = s
       /\ LET plan == SpeechUnits(text, s.book, artifact, UnitMax)
          IN units' = [u \in DOMAIN plan |-> Begun(plan[u], s.provider)]
  /\ stage' = "rendering" /\ rounds' = rounds + 1 /\ audio' = << >> /\ timing' = << >>
  /\ UNCHANGED <<document, text, annotating, cache, failures, crashes>>

Asked == {u \in DOMAIN units : units[u].at = "asked"}

\* The provider gets the text of a unit in as many requests as its adapter makes of it.
CallsOf(u) == Calls(text, units[u].unit, setting.provider.limit)
Said(u) ==
  LET place == CallsOf(u)[Len(units[u].sound) + 1]
  IN [from |-> place[1], to |-> place[2], voice |-> units[u].unit.voice,
      emotion |-> IF setting.provider.emotional THEN units[u].unit.emotion ELSE "neutral"]
Heard(u) == Append(units[u].sound, Said(u))
IsWhole(u) == Len(Heard(u)) = Len(CallsOf(u))

Entry(u, manifest) ==
  [key |-> Key(units[u].unit, setting.provider), sound |-> Heard(u), manifest |-> manifest]

Send(u) ==
  /\ stage = "rendering" /\ units[u].at = "todo" /\ Cardinality(Asked) < Capacity
  /\ units' = [units EXCEPT ![u].at = "asked"]
  /\ UNCHANGED <<written, annotating, setting, cache, audio, timing, counters>>

\* The provider answers one request of a unit; the last one makes it whole, and it is
\* published.
Hear(u) ==
  /\ u \in Asked
  /\ units' = [units EXCEPT ![u] = [unit |-> @.unit, at |-> IF IsWhole(u) THEN "done" ELSE "asked",
                                    sound |-> Heard(u), tries |-> 0]]
  /\ cache' = IF IsWhole(u) THEN cache \cup {Entry(u, TRUE)} ELSE cache
  /\ UNCHANGED <<written, annotating, setting, audio, timing, counters>>

Retry(u) ==
  /\ u \in Asked /\ units[u].tries < setting.provider.retries /\ failures < MaxFailures
  /\ units' = [units EXCEPT ![u].tries = @ + 1] /\ failures' = failures + 1
  /\ UNCHANGED <<written, annotating, setting, cache, audio, timing, rounds, crashes>>

\* A unit that fails fails the chapter; the others are given up where they are.
Fail(u) ==
  /\ u \in Asked /\ units[u].tries = setting.provider.retries /\ failures < MaxFailures
  /\ stage' = "ready" /\ units' = << >> /\ setting' = Unset /\ failures' = failures + 1
  /\ UNCHANGED <<document, text, annotating, cache, audio, timing, rounds, crashes>>

\* The worker dies: its temporary directory is lost, the cache is not, and what it was
\* publishing is there without its manifest.
Crash ==
  /\ stage = "rendering" /\ crashes < MaxCrashes
  /\ \E filed \in SUBSET {u \in Asked : IsWhole(u)} :
       cache' = cache \cup {Entry(u, FALSE) : u \in filed}
  /\ stage' = "ready" /\ units' = << >> /\ setting' = Unset /\ crashes' = crashes + 1
  /\ UNCHANGED <<document, text, annotating, audio, timing, rounds, failures>>

-----------------------------------------------------------------------------
(* The file *)

Lasts(part) == IF IsPause(part) THEN 3 ELSE part.to - part.from
Duration(sound) == 10 * SumFunction([n \in DOMAIN sound |-> Lasts(sound[n])])
Silence == 1
UnitsAt(place) == {u \in DOMAIN units : units[u].unit.place = place}

\* _probe_duration: a unit that ffprobe fails on counts nothing.
Measured(u, lost) == IF u \in lost THEN 0 ELSE Duration(units[u].sound)

\* Mutant: the silence after a unit is counted before it.
SilenceBefore(place, lost) ==
  SumFunctionOnSet([u \in DOMAIN units |->
    Measured(u, lost) + IF u > 1 THEN Silence ELSE 0], UnitsAt(place))

\* The time of a segment: its units and the silence that follows each but the last
\* of the file.
Accrued(place, lost) ==
  SumFunctionOnSet([u \in DOMAIN units |->
    Measured(u, lost) + IF u < Len(units) THEN Silence ELSE 0], UnitsAt(place))

\* Where a unit begins in the file, in which silence is between any two.
Offset(u) ==
  SumFunctionOnSet([v \in DOMAIN units |-> Duration(units[v].sound) + Silence], 1 .. u - 1)

Assemble ==
  /\ stage = "rendering" /\ \A u \in DOMAIN units : units[u].at = "done"
  /\ \E lost \in SUBSET DOMAIN units :
       /\ failures + Cardinality(lost) <= MaxFailures
       /\ audio' = [u \in DOMAIN units |-> [sound |-> units[u].sound, start |-> Offset(u),
                                            place |-> units[u].unit.place, measured |-> u \notin lost]]
       /\ timing' = [k \in DOMAIN artifact |-> Accrued(k, lost)]
       /\ failures' = failures + Cardinality(lost)
  /\ stage' = "spoken" /\ units' = << >>
  /\ UNCHANGED <<document, text, annotating, setting, cache, rounds, crashes>>

ReadingNext ==
  \/ \E line \in Lines : WriteLine(line)
  \/ Import
  \/ \E kind \in Kinds : Type(kind)
  \/ Analyze \/ Answer \/ Repair \/ Complete \/ GiveUp \/ Apply
  \/ Begin \/ Crash \/ Assemble
  \/ \E u \in DOMAIN units : Send(u) \/ Hear(u) \/ Retry(u) \/ Fail(u)

ReadingSpec == ReadingInit /\ [][ReadingNext]_reading

-----------------------------------------------------------------------------
(* Properties *)

\* Importing loses and repeats no line of text (splitter._split_by_title,
\* _split_by_blank): each line of text is in one chapter, and chapters follow one
\* another as in the document.  By headings the first line may be taken for a title.
ImportKeepsTheText ==
  LET said == {i \in DOMAIN document : document[i] = "text"}
      InTurn(chapters) == \A j, k \in DOMAIN chapters : j < k =>
                            \A a \in chapters[j], b \in chapters[k] : a < b
  IN /\ InTurn(SplitByTitle(document)) /\ InTurn(SplitByBlank(document))
     /\ said \ {1} \subseteq UNION Range(SplitByTitle(document))
     /\ said \subseteq UNION Range(SplitByBlank(document))

\* Segmentation keeps the text (source_faithful.segment_source, splitter._split_by_chars):
\* the segments of a text it does not refuse hold each of its characters once, as
\* validate_spans asks of a saved artifact, and it refuses a text only where a space of
\* it is not among the formatting it trims; a quoted character is never narration, and
\* the chapters by characters hold all that is said, each at least the limit, but for the
\* last, and less than twice that.
SegmentsKeepTheText ==
  LET segments == Segments(text)
      lines == AllUnits(text, CharLimit)
      chapters == SplitByChars(text, CharLimit)
      SizeOf(chapter) == Size(lines, chapter[1], chapter[2] - 1)
  IN stage = "text" =>
     /\ Readable(text) => Faithful(text, segments)
     /\ Range(text) \cap (Spacing \ Formatting) = {} => Readable(text)
     /\ \A k \in DOMAIN segments : segments[k].type = "narration" =>
          \A i \in Places(segments[k].from, segments[k].to) : text[i] \notin DOMAIN CloseOf
     /\ \A i \in DOMAIN text : text[i] \notin Spacing =>
          \E k \in DOMAIN chapters : \E u \in Places(chapters[k][1], chapters[k][2]) :
             i \in Places(lines[u][1], lines[u][2])
     /\ \A k \in DOMAIN chapters : /\ SizeOf(chapters[k]) < 2 * CharLimit
                                   /\ k < Len(chapters) => SizeOf(chapters[k]) >= CharLimit

\* What the analyzer accepts, at once, repaired or completed, annotates each segment
\* of the chapter once (analyzer._call_structured_annotations), so that
\* apply_annotations refuses no chapter whose chunks have all been paid for.
AcceptedIsComplete == stage = "annotated" => Covers(annotations, Segments(text))

\* The segment of the artifact that holds a place of the text.
SegmentOf(i) == CHOOSE k \in DOMAIN artifact : i \in Places(artifact[k].from, artifact[k].to)

\* Of each segment in which something is said, the audio says each letter once, or one pause
\* in the place of the segment where _tts_text replaces it, in the voice and the emotion the
\* segment has in the request that was rendered (tts.generate_chapter_audio), whatever
\* was cached by other requests, cut short by a failure or left by a crash; and every
\* voice is one the provider offers, though it is the segments' voices that are checked
\* before it begins.
SpokenAsWritten ==
  stage = "spoken" => \A i \in {j \in DOMAIN text : text[j] \in Letters} :
    LET Part(x) == audio[x[1]].sound[x[2]]
        parts == UNION {{u} \X DOMAIN audio[u].sound : u \in DOMAIN audio}
        item == artifact[SegmentOf(i)]
        said == {x \in parts : IF IsReplaced(text, setting.book, item)
                               THEN audio[x[1]].place = SegmentOf(i)
                               ELSE i \in Places(Part(x).from, Part(x).to)}
    IN /\ Cardinality(said) = 1
       /\ \A x \in said :
            /\ Part(x).voice = VoiceFor(setting.book, Called(artifact, item.speaker))
            /\ Part(x).voice \in Catalogue
            /\ Part(x).emotion = IF setting.provider.emotional THEN item.emotion ELSE "neutral"

\* However units fail, are retried or given up, no more of them wait for the TTS provider
\* at a time than it takes calls (tts._provider_concurrency).
WithinConcurrency == Cardinality(Asked) <= Capacity

\* The page that follows the reading is never ahead of it, and late by no more than what
\* ffprobe did not measure (timing.json): what the segments before one are counted for, and
\* the sounds before it that count for nothing, end where its first sound begins in the file.
TimingFollowsTheAudio ==
  stage = "spoken" => \A u \in DOMAIN audio :
    (\A v \in 1 .. u - 1 : audio[v].place # audio[u].place) =>
      audio[u].start = SumFunctionOnSet(timing, 1 .. audio[u].place - 1)
        + SumFunctionOnSet([v \in DOMAIN audio |-> IF audio[v].measured THEN 0 ELSE Duration(audio[v].sound)],
                           1 .. u - 1)
=============================================================================
