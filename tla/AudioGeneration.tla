-------------------------- MODULE AudioGeneration --------------------------
(***************************************************************************)
(* Audio generations of one chapter: requesting and reusing them            *)
(* (routers/books.py, services/audio_generation.py), rendering them in a    *)
(* queue consumer (services/generation_pipeline.py) and switching the       *)
(* chapter's active pointer to the result.                                  *)
(*                                                                          *)
(* The generation queue is reduced to what this component sees of it: a job *)
(* is claimed, may be given back by a retry or by lease recovery, may be    *)
(* asked to cancel, and its consumer may have lost it without knowing.      *)
(* GenerationQueue has the queue itself.                                    *)
(***************************************************************************)
EXTENDS Naturals, FiniteSets

CONSTANTS
  Gens,         \* ids of audio_generations, in creation order
  Requests,     \* generation requests; each one ends in at most one job
  Batch,        \* the requests of a whole book: their job names no generation
  Consumers,    \* TTS consumer threads
  Texts,        \* values of chapters.text_hash
  Nobody,       \* no render
  Revisions,    \* bound: values of character_registry_meta.revision
  Versions,     \* bound: values of books.audio_settings_version
  MaxClaims     \* bound: claims of one job

Modes == {"single", "multi"}

ASSUME GenAssumption == Gens \subseteq Nat \ {0}
ASSUME RequestAssumption == Batch \subseteq Requests
ASSUME BoundAssumption ==
  /\ Revisions \subseteq Nat /\ 0 \in Revisions
  /\ Versions \subseteq Nat /\ 1 \in Versions
  /\ MaxClaims \in Nat

VARIABLES
  gen,       \* the rows of audio_generations
  chapter,   \* text hash, effective mode, settings version, active pointer
  registry,  \* character_registry_meta.revision of the book
  files,     \* which render wrote audio.mp3 and timing.json of a generation
  route,     \* local state of the route that serves each request
  job,       \* the job of each request
  consumer   \* each consumer's position in run_single / run_multi_generation

vars == <<gen, chapter, registry, files, route, job, consumer>>
queue == <<route, job>>

\* What a generation is made from.
Inputs == [text : Texts \cup {Nobody}, mode : Modes, version : Versions, revision : Revisions]

\* once: the key has a one-time token; analysed: the key names the analysis.
Gen == [status : {"absent", "queued", "running", "ready", "failed"},
        of : Inputs, once : BOOLEAN, analysed : BOOLEAN]

Route == [phase : {"new", "asked", "inserting", "enqueueing", "done"},
          inputs : Inputs, force : BOOLEAN, once : BOOLEAN, gen : Gens \cup {0}]

\* source_revision: of a chapter job the text hash, of a batch job a digest of
\* the book's text and mode.
Source == {<<>>} \cup {<<t>> : t \in Texts} \cup (Texts \X Modes)

\* The terminal statuses and stale are not told apart here.
Job == [status : {"none", "pending", "running", "ended"}, source : Source,
        gen : Gens \cup {0}, claims : Nat, cancel : BOOLEAN]

Phase == {"idle", "claimed", "loaded", "inserting", "starting", "rendering",
          "promoting", "rendered", "checked", "ending", "retrying"}

Consumer == [phase : Phase, request : Requests \cup {Nobody}, claim : Nat,
             inputs : Inputs, gen : Gens \cup {0}, once : BOOLEAN]

\* A file is known by the render that wrote it: under which claim, of what text.
Render == [request : Requests, claim : Nat, text : Texts]

ASSUME RenderAssumption == Nobody \notin Texts \cup Requests \cup Render

TypeOK ==
  /\ gen \in [Gens -> Gen]
  /\ chapter \in [text : Texts, mode : Modes, version : Versions, active : Gens \cup {0}]
  /\ registry \in Revisions
  /\ files \in [Gens -> [audio : Render \cup {Nobody}, timing : Render \cup {Nobody}]]
  /\ route \in [Requests -> Route]
  /\ job \in [Requests -> Job]
  /\ consumer \in [Consumers -> Consumer]

NoInputs ==
  [text |-> Nobody, mode |-> "single", version |-> 1, revision |-> 0]
NoGen == [status |-> "absent", of |-> NoInputs, once |-> FALSE, analysed |-> FALSE]
NewRoute ==
  [phase |-> "new", inputs |-> NoInputs, force |-> FALSE, once |-> FALSE, gen |-> 0]
Answered == [NewRoute EXCEPT !.phase = "done"]
NoJob == [status |-> "none", source |-> <<>>, gen |-> 0, claims |-> 0, cancel |-> FALSE]
Ended == [NoJob EXCEPT !.status = "ended"]
Idle == [phase |-> "idle", request |-> Nobody, claim |-> 0, inputs |-> NoInputs,
         gen |-> 0, once |-> FALSE]

Init ==
  /\ gen = [g \in Gens |-> NoGen]
  /\ chapter \in [text : Texts, mode : Modes, version : {1}, active : {0}]
  /\ registry = 0
  /\ files = [g \in Gens |-> [audio |-> Nobody, timing |-> Nobody]]
  /\ route = [r \in Requests |-> NewRoute]
  /\ job = [r \in Requests |-> NoJob]
  /\ consumer = [c \in Consumers |-> Idle]

-----------------------------------------------------------------------------
(* generation_key and create_or_reuse_generation *)

\* What a caller reads of the chapter; create_or_reuse_generation then reads the
\* registry revision itself.
ReadChapter == [text |-> chapter.text, mode |-> chapter.mode,
                version |-> chapter.version, revision |-> 0]
Keying(inputs) == [inputs EXCEPT !.revision = registry]

InFlight(g) == gen[g].status \in {"queued", "running"}

\* The generation whose key is derived from these inputs alone; one made by a
\* forced request or after a failure has a one-time token in its key.  A batch job
\* keys a multi generation by its analysis too, the route never does.
Keyed(inputs, analysed) ==
  {g \in Gens : /\ gen[g].status # "absent" /\ ~gen[g].once
                /\ gen[g].of = inputs /\ gen[g].analysed = analysed}

Reusable(inputs, analysed, force) ==
  {g \in Keyed(inputs, analysed) :
     InFlight(g) \/ (gen[g].status = "ready" /\ ~force)}

NeedsNewIdentity(inputs, analysed, force) ==
  force \/ \E g \in Keyed(inputs, analysed) : gen[g].status = "failed"

NextGen == {g \in Gens : gen[g].status = "absent"
                         /\ \A h \in Gens : h < g => gen[h].status # "absent"}

NewRow(inputs, analysed, once) ==
  [status |-> "queued", of |-> inputs, once |-> once, analysed |-> analysed]

-----------------------------------------------------------------------------
(* The author's request: POST audio-generations, query by query *)

SourceOf(r) == IF r \in Batch THEN <<chapter.text, chapter.mode>> ELSE <<chapter.text>>

\* The route reads the book and the chapter, and derives the effective mode or
\* takes the one it is given.
Ask(r) ==
  /\ route[r].phase = "new" /\ r \notin Batch
  /\ \E mode \in Modes, force \in BOOLEAN :
       route' = [route EXCEPT ![r].phase = "asked", ![r].force = force,
                              ![r].inputs = [ReadChapter EXCEPT !.mode = mode]]
  /\ UNCHANGED <<gen, chapter, registry, files, job, consumer>>

\* The batch route enqueues a job that names no generation.
AskBatch(r) ==
  /\ route[r].phase = "new" /\ r \in Batch
  /\ route' = [route EXCEPT ![r] = Answered]
  /\ job' = [job EXCEPT ![r].status = "pending", ![r].source = SourceOf(r)]
  /\ UNCHANGED <<gen, chapter, registry, files, consumer>>

LookUp(r) ==
  LET inputs == Keying(route[r].inputs)
      force == route[r].force
  IN
  /\ route[r].phase = "asked"
  /\ \/ \E g \in Reusable(inputs, FALSE, force) :
          route' = [route EXCEPT ![r].phase = "enqueueing", ![r].gen = g]
     \/ /\ Reusable(inputs, FALSE, force) = {}
        /\ route' = [route EXCEPT ![r].phase = "inserting", ![r].inputs = inputs,
                                  ![r].once = NeedsNewIdentity(inputs, FALSE, force)]
  /\ UNCHANGED <<gen, chapter, registry, files, job, consumer>>

\* generation_key is UNIQUE: the insert fails when another request made the row
\* since the look-up.
InsertGen(r) ==
  LET inputs == route[r].inputs IN
  /\ route[r].phase = "inserting"
  /\ \/ /\ ~route[r].once /\ Keyed(inputs, FALSE) # {}
        /\ route' = [route EXCEPT ![r] = Answered]
        /\ UNCHANGED gen
     \/ /\ route[r].once \/ Keyed(inputs, FALSE) = {}
        /\ \E g \in NextGen :
             /\ gen' = [gen EXCEPT ![g] = NewRow(inputs, FALSE, route[r].once)]
             /\ route' = [route EXCEPT ![r].phase = "enqueueing", ![r].gen = g]
  /\ UNCHANGED <<chapter, registry, files, job, consumer>>

\* A job is created whether the generation is new or reused.
Enqueue(r) ==
  /\ route[r].phase = "enqueueing"
  /\ route' = [route EXCEPT ![r] = Answered]
  /\ job' = [job EXCEPT ![r].status = "pending", ![r].gen = route[r].gen,
                        ![r].source = <<route[r].inputs.text>>]
  /\ UNCHANGED <<gen, chapter, registry, files, consumer>>

-----------------------------------------------------------------------------
(* The queue, as far as this component sees it *)

Owns(c) == LET r == consumer[c].request IN
  r # Nobody /\ job[r].status = "running" /\ job[r].claims = consumer[c].claim

\* The claim marks a chapter job of another text stale; a batch job has no chapter.
TextIsCurrent(r) == r \in Batch \/ job[r].source = SourceOf(r)

Claim(c, r) ==
  /\ consumer[c].phase = "idle"
  /\ job[r].status = "pending" /\ TextIsCurrent(r)
  /\ job[r].claims < MaxClaims
  /\ job' = [job EXCEPT ![r].status = "running", ![r].claims = @ + 1]
  /\ consumer' = [consumer EXCEPT ![c] =
       [Idle EXCEPT !.phase = "claimed", !.request = r, !.claim = job[r].claims + 1]]
  /\ UNCHANGED <<gen, chapter, registry, files, route>>

MarkStale(r) ==
  /\ job[r].status = "pending" /\ ~TextIsCurrent(r)
  /\ job' = [job EXCEPT ![r] = Ended]
  /\ UNCHANGED <<gen, chapter, registry, files, route, consumer>>

\* A job that goes back to the queue with its cancellation requested is never
\* claimed again.
GiveBack(r) == IF job[r].cancel THEN Ended ELSE [job[r] EXCEPT !.status = "pending"]

\* Lease recovery: the consumer, if it still runs, is not told.
Recover(r) ==
  /\ job[r].status = "running"
  /\ job' = [job EXCEPT ![r] = GiveBack(r)]
  /\ UNCHANGED <<gen, chapter, registry, files, route, consumer>>

Cancel(r) ==
  /\ \/ job[r].status = "pending" /\ job' = [job EXCEPT ![r] = Ended]
     \/ job[r].status = "running" /\ job' = [job EXCEPT ![r].cancel = TRUE]
  /\ UNCHANGED <<gen, chapter, registry, files, route, consumer>>

\* The consumer ends its claim or gives the job back for a retry; the queue
\* ignores a consumer that lost its job.
End(c) ==
  /\ consumer[c].phase \in {"ending", "retrying"}
  /\ job' = IF ~Owns(c) THEN job
            ELSE [job EXCEPT ![consumer[c].request] =
                    IF consumer[c].phase = "retrying" THEN GiveBack(consumer[c].request)
                    ELSE Ended]
  /\ consumer' = [consumer EXCEPT ![c] = Idle]
  /\ UNCHANGED <<gen, chapter, registry, files, route>>

-----------------------------------------------------------------------------
(* run_single_generation / run_multi_generation, query by query *)

Goto(c, phase) == consumer' = [consumer EXCEPT ![c].phase = phase]

\* Mutant: the source revision of the job is not compared.
UncheckedSource(c) == TRUE

\* _ensure_source_revision_current
SourceIsCurrent(c) ==
  LET r == consumer[c].request IN job[r].source \in {<<>>, SourceOf(r)}

\* Reads the book and the chapter; what is read here is used until the end.  The
\* provider, the voices or the analysis may be missing.
Load(c) ==
  /\ consumer[c].phase = "claimed"
  /\ \/ /\ SourceIsCurrent(c)
        /\ consumer' = [consumer EXCEPT ![c].phase = "loaded", ![c].inputs = ReadChapter,
                                        ![c].gen = job[consumer[c].request].gen]
     \/ Goto(c, "ending")
  /\ UNCHANGED <<gen, chapter, registry, files, queue>>

Take(c, g) ==
  consumer' = [consumer EXCEPT ![c].gen = g,
                 ![c].phase = IF gen[g].status = "ready" THEN "ending" ELSE "starting"]

Analysed(c) == consumer[c].inputs.mode = "multi"

\* Reads the generation of the job; a batch job looks one up for the chapter's
\* own mode.  A ready one is returned as it is.
Fetch(c) ==
  LET inputs == Keying(consumer[c].inputs) IN
  /\ consumer[c].phase = "loaded"
  /\ \/ consumer[c].gen # 0 /\ Take(c, consumer[c].gen)
     \/ /\ consumer[c].gen = 0
        /\ \E g \in Reusable(inputs, Analysed(c), FALSE) : Take(c, g)
     \/ /\ consumer[c].gen = 0 /\ Reusable(inputs, Analysed(c), FALSE) = {}
        /\ consumer' = [consumer EXCEPT ![c].phase = "inserting", ![c].inputs = inputs,
                          ![c].once = NeedsNewIdentity(inputs, Analysed(c), FALSE)]
  /\ UNCHANGED <<gen, chapter, registry, files, queue>>

ConsumerInserts(c) ==
  LET inputs == consumer[c].inputs IN
  /\ consumer[c].phase = "inserting"
  /\ \/ /\ ~consumer[c].once /\ Keyed(inputs, Analysed(c)) # {}
        /\ Goto(c, "ending")
        /\ UNCHANGED gen
     \/ /\ consumer[c].once \/ Keyed(inputs, Analysed(c)) = {}
        /\ \E g \in NextGen :
             /\ gen' = [gen EXCEPT ![g] = NewRow(inputs, Analysed(c), consumer[c].once)]
             /\ consumer' = [consumer EXCEPT ![c].phase = "starting", ![c].gen = g,
                                               ![c].inputs = [inputs EXCEPT !.revision = 0],
                                               ![c].once = FALSE]
  /\ UNCHANGED <<chapter, registry, files, queue>>

\* update_audio_generation({"status": "running"}) whatever the status is.
Start(c) ==
  /\ consumer[c].phase = "starting"
  /\ gen' = [gen EXCEPT ![consumer[c].gen].status = "running"]
  /\ Goto(c, "rendering")
  /\ UNCHANGED <<chapter, registry, files, queue>>

RenderOf(c) == [request |-> consumer[c].request, claim |-> consumer[c].claim,
                text |-> consumer[c].inputs.text]

\* The files are rendered beside their place, validated, and moved one by one.
PromoteAudio(c) ==
  /\ consumer[c].phase = "rendering"
  /\ files' = [files EXCEPT ![consumer[c].gen].audio = RenderOf(c)]
  /\ Goto(c, "promoting")
  /\ UNCHANGED <<gen, chapter, registry, queue>>

PromoteTiming(c) ==
  /\ consumer[c].phase = "promoting"
  /\ files' = [files EXCEPT ![consumer[c].gen].timing = RenderOf(c)]
  /\ Goto(c, "rendered")
  /\ UNCHANGED <<gen, chapter, registry, queue>>

\* An exception of the provider, the validation or the move: the generation is
\* marked failed whatever its status is.  The queue may retry a chapter job; a
\* batch job swallows the error and fails when no chapter succeeded.
RenderFails(c) ==
  /\ consumer[c].phase \in {"rendering", "promoting"}
  /\ gen' = [gen EXCEPT ![consumer[c].gen].status = "failed"]
  /\ Goto(c, "ending") \/ (consumer[c].request \notin Batch /\ Goto(c, "retrying"))
  /\ UNCHANGED <<chapter, registry, files, queue>>

\* mark_generation_ready_and_activate, before its transaction: the job must be
\* owned and not asked to cancel, and the text unchanged.
CheckOwner(c) ==
  LET r == consumer[c].request
      g == consumer[c].gen
  IN
  /\ consumer[c].phase = "rendered"
  /\ \/ /\ ~Owns(c) \/ job[r].cancel
        /\ Goto(c, "ending")
        /\ UNCHANGED gen
     \/ /\ Owns(c) /\ ~job[r].cancel /\ chapter.text # gen[g].of.text
        /\ gen' = [gen EXCEPT ![g].status = "failed"]
        /\ Goto(c, "ending")
     \/ /\ Owns(c) /\ ~job[r].cancel /\ chapter.text = gen[g].of.text
        /\ Goto(c, "checked")
        /\ UNCHANGED gen
  /\ UNCHANGED <<chapter, registry, files, queue>>

\* Mutant: the transaction trusts the check made before it.
TrustingSourceMatches(g) == TRUE

SourceMatches(g) == chapter.text = gen[g].of.text

ActiveIsNewer(g) ==
  chapter.active # 0 /\ gen[chapter.active].status = "ready" /\ chapter.active > g

\* The transaction: the status goes to ready unless the row has failed meanwhile,
\* and the pointer moves when the mode read at the start is the generation's and
\* no newer ready generation holds it.
Activate(c) ==
  LET g == consumer[c].gen IN
  /\ consumer[c].phase = "checked"
  /\ \/ /\ ~SourceMatches(g)
        /\ gen' = [gen EXCEPT ![g].status = "failed"]
        /\ Goto(c, "ending")
        /\ UNCHANGED chapter
     \/ /\ SourceMatches(g) /\ gen[g].of.revision # registry
        /\ Goto(c, "ending")
        /\ UNCHANGED <<gen, chapter>>
     \/ /\ SourceMatches(g) /\ gen[g].of.revision = registry
        /\ gen' = [gen EXCEPT ![g].status =
                     IF @ \in {"queued", "running", "ready"} THEN "ready" ELSE @]
        /\ chapter' = IF gen[g].of.mode = consumer[c].inputs.mode /\ ~ActiveIsNewer(g)
                      THEN [chapter EXCEPT !.active = g] ELSE chapter
        /\ Goto(c, "ending")
  /\ UNCHANGED <<registry, files, queue>>

\* Mutant: the text of the generation is not compared when it is played.
TextBlindPlayable ==
  /\ chapter.active # 0 /\ gen[chapter.active].status = "ready"
  /\ gen[chapter.active].of.mode = chapter.mode
  /\ gen[chapter.active].of.revision = registry

\* resolve_active_generation: the pointer is followed only while it is current.
Playable ==
  /\ chapter.active # 0 /\ gen[chapter.active].status = "ready"
  /\ gen[chapter.active].of.text = chapter.text
  /\ gen[chapter.active].of.mode = chapter.mode
  /\ gen[chapter.active].of.revision = registry

-----------------------------------------------------------------------------
(* The author's edits *)

EditText ==
  /\ \E t \in Texts \ {chapter.text} : chapter' = [chapter EXCEPT !.text = t]
  /\ UNCHANGED <<gen, registry, files, queue, consumer>>

\* The settings version grows even when the same mode is saved again.
SaveAudioMode ==
  /\ chapter.version + 1 \in Versions
  /\ \E m \in Modes : chapter' = [chapter EXCEPT !.mode = m, !.version = @ + 1]
  /\ UNCHANGED <<gen, registry, files, queue, consumer>>

EditRegistry ==
  /\ registry + 1 \in Revisions
  /\ registry' = registry + 1
  /\ UNCHANGED <<gen, chapter, files, queue, consumer>>

-----------------------------------------------------------------------------
ConsumerStep(c) ==
  \/ Load(c) \/ Fetch(c) \/ ConsumerInserts(c) \/ Start(c) \/ PromoteAudio(c)
  \/ PromoteTiming(c) \/ RenderFails(c) \/ CheckOwner(c) \/ Activate(c)
  \/ End(c)

Next ==
  \/ \E r \in Requests : \/ Ask(r) \/ AskBatch(r) \/ LookUp(r) \/ InsertGen(r)
                         \/ Enqueue(r) \/ MarkStale(r) \/ Recover(r) \/ Cancel(r)
  \/ \E c \in Consumers : ConsumerStep(c) \/ \E r \in Requests : Claim(c, r)
  \/ EditText \/ SaveAudioMode \/ EditRegistry

Spec == Init /\ [][Next]_vars

-----------------------------------------------------------------------------
(* Properties *)

\* The files of a generation are renders of the text it was created for, though
\* the request, the queue and the consumer each read the chapter at their own
\* time and the author edits in between; a ready generation has both.
RenderedFromItsText ==
  \A g \in Gens :
    /\ \A render \in {files[g].audio, files[g].timing} \ {Nobody} :
         gen[g].status # "absent" /\ render.text = gen[g].of.text
    /\ gen[g].status = "ready" => Nobody \notin {files[g].audio, files[g].timing}

\* What a reader is given is complete and was rendered, sound and timing, from the
\* text the chapter has, though edits move no pointer and clear none.
PlayedIsCurrent ==
  Playable => \A render \in {files[chapter.active].audio, files[chapter.active].timing} :
                render # Nobody /\ render.text = chapter.text

\* The pointer moves only to a generation of the text the chapter has at that
\* moment, rendered from that text, and of the current character registry; and a
\* slower, older one never takes it from a newer ready one, whoever commits last.
SwitchIsCurrent ==
  [][chapter'.active # chapter.active =>
       LET g == chapter'.active IN
         /\ gen[g].of.text = chapter.text /\ gen[g].of.revision = registry
         /\ files[g].audio.text = chapter.text
         /\ chapter.active # 0 /\ gen[chapter.active].status = "ready" => g > chapter.active]_vars
=============================================================================
