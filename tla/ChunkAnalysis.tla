---------------------------- MODULE ChunkAnalysis ----------------------------
(***************************************************************************)
(* One chunk of a chapter in the source-faithful analyzer                   *)
(* (backend/analyzer.py) and its place in the partial cache                 *)
(* (backend/services/analysis_partials.py, table analysis_partials): the    *)
(* look-up, the claim under a lease, the requests to the AI provider with   *)
(* their retry, repair, fallback and completion, the publication by token,  *)
(* and the retention of old results.                                        *)
(*                                                                          *)
(* A worker is a thread that analyses the chunk for an analysis of its own. *)
(* A step is one transaction, one request or one file operation, with the   *)
(* reads before it.                                                         *)
(***************************************************************************)
EXTENDS Naturals, FiniteSets

CONSTANTS
  Workers,      \* AI worker threads
  Texts,        \* contents of the chapter (its hash and its chunk go together)
  FirstText,    \* the content it starts with
  Recorded,     \* the contents the analyses were recorded for, now or earlier
  MaxRequests,  \* max_requests of a chunk
  Retries,      \* retries of a transient error
  Probes,       \* what a probe of the provider's strict mode may come to
  MaxClaims,    \* bound of the model: owner tokens
  MaxEdits,     \* bound of the model: edits of the chapter
  MaxCleanups   \* bound of the model: runs of the retention

ASSUME TextAssumption == FirstText \in Texts /\ Recorded \subseteq Texts /\ 0 \notin Texts
ASSUME BoundAssumption == {MaxRequests, Retries, MaxClaims, MaxEdits, MaxCleanups} \subseteq Nat

\* classify_probe_error; unknown too when there is no snapshot, or a stale one.
Outcomes == {"supported", "unsupported", "invalid_schema", "probe_timeout", "provider_error",
             "unknown"}
ASSUME ProbeAssumption == Probes \subseteq Outcomes

\* _provider_snapshot: a probe shows the strict mode only; a JSON object is taken
\* for granted.
Capability(outcome) == [state |-> outcome, strict |-> outcome = "supported", object |-> TRUE]

\* select_output_mode, as the analyzer asks for it (best_effort).
OutputMode(capability) ==
  IF capability.strict /\ capability.state \notin {"invalid_schema", "probe_timeout", "provider_error"}
  THEN "strict_json_schema"
  ELSE IF capability.object THEN "json_object" ELSE "legacy_json"

\* The third mode of select_output_mode needs a provider without JSON objects.
Modes == {OutputMode(Capability(outcome)) : outcome \in Outcomes}

Tokens == 1 .. MaxClaims

\* build_cache_identity: the hash the analysis was recorded for, the text of the
\* chunk as it was read, the output mode planned from the capabilities.
Keys == [hash : Texts, input : Texts, mode : Modes]

VARIABLES
  text,     \* the content of the chapter
  partial,  \* analysis_partials, by cache_key
  file,     \* files of the cache, by the owner token in their name
  worker,   \* the local variables of each worker
  issued,   \* owner tokens given so far
  edits,    \* edits so far (bound of the model)
  cleanups, \* runs of the retention so far (bound of the model)
  doomed    \* files the retention has taken from their rows and is to remove

vars == <<text, partial, file, worker, issued, edits, cleanups, doomed>>
outside == <<text, edits, cleanups, doomed>>

\* What a file or a result holds: the text it was made from, 0 when there is none.
NoResult == 0
Result == Texts \cup {NoResult}

Row == [state : {"absent", "pending", "running", "succeeded", "failed", "stale"},
        owner : Tokens \cup {0}, leased : BOOLEAN, path : Tokens \cup {0},
        analysis : Workers \cup {"none"}]
NoRow == [state |-> "absent", owner |-> 0, leased |-> FALSE, path |-> 0, analysis |-> "none"]

Requesting == {"main", "repair", "retry", "fallback", "fallback_repair", "reference"}
Phase == Requesting \cup {"idle", "looking", "reading", "discarding", "claiming", "waiting",
                         "validating", "storing", "publishing", "releasing", "failing", "done"}
Worker ==
  [phase : Phase, read : Texts, key : Keys, look : {"first", "again", "waited"},
   token : Tokens \cup {0}, path : Tokens \cup {0},
   requests : 0 .. MaxRequests, retries : 0 .. Retries,
   repaired : BOOLEAN, referenced : BOOLEAN, completing : BOOLEAN,
   applied : Modes, result : Result]

Idle == [phase |-> "idle", read |-> FirstText,
         key |-> [hash |-> FirstText, input |-> FirstText, mode |-> "json_object"],
         look |-> "first", token |-> 0, path |-> 0, requests |-> 0, retries |-> 0,
         repaired |-> FALSE, referenced |-> FALSE, completing |-> FALSE,
         applied |-> "json_object", result |-> NoResult]

TypeOK ==
  /\ text \in Texts
  /\ partial \in [Keys -> Row]
  /\ file \in [Tokens -> Result]
  /\ worker \in [Workers -> Worker]
  /\ issued \in 0 .. MaxClaims /\ edits \in 0 .. MaxEdits /\ cleanups \in 0 .. MaxCleanups
  /\ doomed \subseteq Tokens

Init ==
  /\ text = FirstText
  /\ partial = [k \in Keys |-> NoRow]
  /\ file = [t \in Tokens |-> NoResult]
  /\ worker = [w \in Workers |-> Idle]
  /\ issued = 0 /\ edits = 0 /\ cleanups = 0 /\ doomed = {}

-----------------------------------------------------------------------------
Key(w) == worker[w].key
Planned(w) == worker[w].key.mode
Stored(t) == file[t] # NoResult
Goto(w, phase) == worker' = [worker EXCEPT ![w].phase = phase]
Leave(w) == worker' = [worker EXCEPT ![w] = Idle]

\* The call has returned or raised: only the claim and the result still count.
Returned(w, phase) ==
  [worker EXCEPT ![w] = [Idle EXCEPT !.phase = phase, !.read = worker[w].read, !.key = Key(w),
     !.token = worker[w].token, !.result = worker[w].result]]
Raise(w) == worker' = [Returned(w, "failing") EXCEPT ![w].result = NoResult]

\* Mutant: the identity leaves out the text of the chunk.
HashIdentity(hash, input, mode) == [hash |-> hash, input |-> hash, mode |-> mode]

Identity(hash, input, mode) == [hash |-> hash, input |-> input, mode |-> mode]

\* The worker reads the chapter; its analysis was recorded for this or another
\* content.  _partial_row creates the row if there is none.
Start(w) ==
  /\ worker[w].phase = "idle"
  /\ \E hash \in Recorded, mode \in {OutputMode(Capability(outcome)) : outcome \in Probes} :
       LET key == Identity(hash, text, mode) IN
       /\ worker' = [worker EXCEPT ![w] = [Idle EXCEPT !.phase = "looking", !.read = text,
                       !.key = key, !.applied = mode]]
       /\ partial' = [partial EXCEPT ![key] =
            IF @.state = "absent" THEN [NoRow EXCEPT !.state = "pending", !.analysis = w] ELSE @]
  /\ UNCHANGED <<file, issued, outside>>

\* Without a result the first look is followed by a claim, the second by requests
\* whose result nobody stores, and a wait by the end (PartialClaimBusy).
NoReuse(w) ==
  \/ worker[w].look = "first" /\ worker' = [worker EXCEPT ![w].phase = "claiming", ![w].path = 0]
  \/ worker[w].look = "again" /\ worker' = [worker EXCEPT ![w].phase = "main", ![w].path = 0]
  \/ worker[w].look = "waited" /\ Leave(w)

\* reuse takes a result that succeeded, of the source the chapter has now ...
Look(w) ==
  LET row == partial[Key(w)] IN
  /\ worker[w].phase = "looking"
  /\ \/ row.state # "succeeded" /\ NoReuse(w)
     \/ row.state = "succeeded" /\ text # Key(w).hash /\ Goto(w, "discarding")
     \/ /\ row.state = "succeeded" /\ text = Key(w).hash
        /\ worker' = [worker EXCEPT ![w].phase = "reading", ![w].path = row.path]
  /\ UNCHANGED <<partial, file, issued, outside>>

\* ... whose file is there and has its checksum; claim looks once more than the
\* analyzer.
Read(w) ==
  /\ worker[w].phase = "reading"
  /\ \/ /\ Stored(worker[w].path) /\ worker[w].look # "waited"
        /\ worker' = [worker EXCEPT ![w].phase = "done", ![w].result = file[worker[w].path]]
     \/ /\ Stored(worker[w].path) /\ worker[w].look = "waited"
        /\ worker' = [worker EXCEPT ![w].phase = "looking", ![w].look = "again", ![w].path = 0]
     \/ ~Stored(worker[w].path) /\ Goto(w, "discarding")
  /\ UNCHANGED <<partial, file, issued, outside>>

\* mark_analysis_partial_stale.
Discard(w) ==
  /\ worker[w].phase = "discarding"
  /\ partial' = [partial EXCEPT ![Key(w)] =
       IF @.state = "running" THEN @
       ELSE [@ EXCEPT !.state = "stale", !.owner = 0, !.leased = FALSE]]
  /\ NoReuse(w)
  /\ UNCHANGED <<file, issued, outside>>

Claimable(row) ==
  \/ row.state \in {"pending", "failed", "stale"}
  \/ row.state = "running" /\ ~row.leased

\* claim, with claim_analysis_partial.
Claim(w) ==
  LET row == partial[Key(w)] IN
  /\ worker[w].phase = "claiming"
  /\ \/ /\ row.state = "succeeded"
        /\ worker' = [worker EXCEPT ![w].phase = "looking", ![w].look = "again"]
        /\ UNCHANGED <<partial, issued>>
     \/ /\ Claimable(row) /\ issued < MaxClaims
        /\ issued' = issued + 1
        /\ partial' = [partial EXCEPT ![Key(w)] =
             [@ EXCEPT !.state = "running", !.owner = issued + 1, !.leased = TRUE,
                       !.analysis = w]]
        /\ worker' = [worker EXCEPT ![w].phase = "main", ![w].token = issued + 1]
     \/ /\ row.state = "running" /\ ~Claimable(row)
        /\ Goto(w, "waiting") /\ UNCHANGED <<partial, issued>>
  /\ UNCHANGED <<file, outside>>

\* For two seconds a worker waits for the owner, then its analysis ends
\* (PartialClaimBusy).
Wait(w) ==
  /\ worker[w].phase = "waiting"
  /\ \/ /\ partial[Key(w)].state = "succeeded"
        /\ worker' = [worker EXCEPT ![w].phase = "looking", ![w].look = "waited"]
     \/ Leave(w)
  /\ UNCHANGED <<partial, file, issued, outside>>

-----------------------------------------------------------------------------
(* _call_structured_annotations: the requests for one chunk *)

\* _invoke counts every request against the budget of the chunk ...
Invoke(w, phase) ==
  /\ worker[w].phase = phase /\ worker[w].requests < MaxRequests
  /\ UNCHANGED <<partial, file, issued, outside>>

Asked(w, phase) == [worker EXCEPT ![w].phase = phase, ![w].requests = @ + 1]

\* ... and refuses when it is spent (AnalysisRequestBudgetExceeded).
Spent(w) ==
  /\ worker[w].phase \in Requesting /\ worker[w].requests = MaxRequests
  /\ Raise(w)
  /\ UNCHANGED <<partial, file, issued, outside>>

\* A parsed answer on the text that was read.
Answer(w) == worker' = [Asked(w, "validating") EXCEPT ![w].result = worker[w].read]

\* Malformed JSON is repaired once per chunk.
Malformed(w, repair) ==
  \/ worker[w].repaired /\ Raise(w)
  \/ ~worker[w].repaired /\ worker' = [Asked(w, repair) EXCEPT ![w].repaired = TRUE]

\* A transient error (429, 529, timeout) goes to _retry.
Transient(w) ==
  \/ worker[w].retries = Retries /\ Raise(w)
  \/ worker[w].retries < Retries /\ worker' = [Asked(w, "retry") EXCEPT ![w].retries = @ + 1]

\* The first request; a provider that declines the strict schema (400) is asked
\* for a plain JSON object.
Main(w) ==
  /\ Invoke(w, "main")
  /\ \/ Answer(w) \/ Malformed(w, "repair") \/ Transient(w) \/ Raise(w)
     \/ /\ Planned(w) = "strict_json_schema"
        /\ worker' = [Asked(w, "fallback") EXCEPT ![w].applied = "json_object"]

\* The repair is asked for as a JSON object whatever mode was planned; the mode
\* that applied is still taken for the planned one.
Repair(w) == Invoke(w, "repair") /\ (Answer(w) \/ Transient(w) \/ Raise(w))

\* _retry repeats the first request, without repair or fallback.
Retry(w) == Invoke(w, "retry") /\ (Answer(w) \/ Transient(w) \/ Raise(w))

Fallback(w) ==
  /\ Invoke(w, "fallback")
  /\ Answer(w) \/ Malformed(w, "fallback_repair") \/ Raise(w)

FallbackRepair(w) == Invoke(w, "fallback_repair") /\ (Answer(w) \/ Raise(w))

\* repair_invalid_references.
Reference(w) == Invoke(w, "reference") /\ (Answer(w) \/ Raise(w))

SameMode(w) == worker[w].applied = Planned(w)

\* Complete: stored, unless nobody claimed it or it came in another mode than the
\* key says.  Invalid: the chunk fails.  Wrong references are repaired once.
\* Missing annotations are asked for in a call of its own, which begins in the
\* planned mode again and has neither repair of references nor completion.
Validate(w) ==
  /\ worker[w].phase = "validating"
  /\ \/ worker[w].token = 0 /\ worker' = Returned(w, "done")
     \/ worker[w].token # 0 /\ SameMode(w) /\ worker' = Returned(w, "storing")
     \/ worker[w].token # 0 /\ ~SameMode(w) /\ worker' = Returned(w, "releasing")
     \/ Raise(w)
     \/ /\ ~worker[w].completing /\ ~worker[w].referenced
        /\ worker' = [worker EXCEPT ![w].phase = "reference", ![w].referenced = TRUE]
     \/ /\ ~worker[w].completing
        /\ worker' = [worker EXCEPT ![w].phase = "main", ![w].completing = TRUE,
             ![w].retries = 0, ![w].applied = Planned(w)]
  /\ UNCHANGED <<partial, file, issued, outside>>

-----------------------------------------------------------------------------
(* The end of a chunk *)

\* Mutant: the name of the file leaves out the token, so all share one.
SharedName(w) == 1

FileName(w) == worker[w].token

\* publish: a last look at the source, the file ...
Store(w) ==
  /\ worker[w].phase = "storing"
  /\ IF text = Key(w).hash
     THEN /\ file' = [file EXCEPT ![FileName(w)] = worker[w].result]
          /\ Goto(w, "publishing")
     ELSE Goto(w, "failing") /\ UNCHANGED file
  /\ UNCHANGED <<partial, issued, outside>>

Holds(w) == partial[Key(w)].state = "running" /\ partial[Key(w)].owner = worker[w].token

\* ... and the row, by its holder under an unexpired lease; else the file goes.
Publish(w) ==
  /\ worker[w].phase = "publishing"
  /\ IF Holds(w) /\ partial[Key(w)].leased
     THEN /\ partial' = [partial EXCEPT ![Key(w)] =
               [@ EXCEPT !.state = "succeeded", !.owner = 0, !.leased = FALSE,
                         !.path = FileName(w)]]
          /\ Goto(w, "done") /\ UNCHANGED file
     ELSE /\ file' = [file EXCEPT ![FileName(w)] = NoResult]
          /\ Goto(w, "failing") /\ UNCHANGED partial
  /\ UNCHANGED <<issued, outside>>

\* mark_analysis_partial_failed, by the holder only; the analysis ends, or goes
\* on with the result it does not store.
Fail(w) ==
  /\ worker[w].phase \in {"failing", "releasing"}
  /\ partial' = [partial EXCEPT ![Key(w)] =
       IF worker[w].token # 0 /\ Holds(w)
       THEN [@ EXCEPT !.state = "failed", !.owner = 0, !.leased = FALSE] ELSE @]
  /\ \/ worker[w].phase = "failing" /\ Leave(w)
     \/ worker[w].phase = "releasing" /\ Goto(w, "done")
  /\ UNCHANGED <<file, issued, outside>>

\* The annotations are taken over into the artifact of the chapter.
Use(w) ==
  /\ worker[w].phase = "done"
  /\ Leave(w)
  /\ UNCHANGED <<partial, file, issued, outside>>

-----------------------------------------------------------------------------
(* What happens beside the workers *)

Edit ==
  /\ edits < MaxEdits /\ edits' = edits + 1
  /\ \E t \in Texts \ {text} : text' = t
  /\ UNCHANGED <<partial, file, worker, issued, cleanups, doomed>>

LeaseExpires(k) ==
  /\ partial[k].state = "running" /\ partial[k].leased
  /\ partial' = [partial EXCEPT ![k].leased = FALSE]
  /\ UNCHANGED <<file, worker, issued, outside>>

Crash ==
  /\ \E w \in Workers : worker[w].phase # "idle"
  /\ worker' = [w \in Workers |-> Idle]
  /\ UNCHANGED <<partial, file, issued, outside>>

\* The analysis that created or claimed a row last, while it is unfinished,
\* keeps it.
Kept(row) == row.analysis # "none" /\ worker[row.analysis].phase # "idle"

\* cleanup_analysis_partials: rows of old results give up their files ...
Retain ==
  LET old == {k \in Keys : partial[k].state \in {"succeeded", "failed", "stale"}
                          /\ ~Kept(partial[k])} IN
  /\ cleanups < MaxCleanups /\ cleanups' = cleanups + 1
  /\ \E gone \in (SUBSET old) \ {{}} :
       /\ partial' = [k \in Keys |->
            IF k \in gone
            THEN [partial[k] EXCEPT !.state = "stale", !.owner = 0, !.leased = FALSE, !.path = 0]
            ELSE partial[k]]
       /\ doomed' = doomed \cup ({partial[k].path : k \in gone} \ {0})
  /\ UNCHANGED <<text, file, worker, issued, edits>>

\* ... which cleanup_expired_partials then removes one by one.
RemoveFile(t) ==
  /\ t \in doomed
  /\ doomed' = doomed \ {t}
  /\ file' = [file EXCEPT ![t] = NoResult]
  /\ UNCHANGED <<text, partial, worker, issued, edits, cleanups>>

-----------------------------------------------------------------------------
Request(w) ==
  \/ Main(w) \/ Repair(w) \/ Retry(w) \/ Fallback(w) \/ FallbackRepair(w) \/ Reference(w)
  \/ Spent(w) \/ Validate(w)

Work(w) ==
  \/ Start(w) \/ Look(w) \/ Read(w) \/ Discard(w) \/ Claim(w) \/ Wait(w) \/ Request(w)
  \/ Store(w) \/ Publish(w) \/ Fail(w) \/ Use(w)

Next ==
  \/ \E w \in Workers : Work(w)
  \/ Edit \/ Crash \/ Retain
  \/ \E k \in Keys : LeaseExpires(k)
  \/ \E t \in Tokens : RemoveFile(t)

Spec == Init /\ [][Next]_vars

-----------------------------------------------------------------------------
(* Properties *)

\* Whatever an analysis takes over, made by itself, by another analysis or by one
\* that a crash ended, was made from the text this analysis has read, though the
\* hash it was recorded for may be that of another (the chapter was edited and
\* edited back).
ResultIsOfItsInput ==
  \A w \in Workers : worker[w].phase = "done" => worker[w].result = worker[w].read

\* A row that succeeded has its file, with a result of its key: neither the
\* loser of a publication nor a late removal of the retention takes the file of
\* the winner (a file bears the token of the claim it was made under).
SucceededHasItsFile ==
  \A k \in Keys : partial[k].state = "succeeded" =>
    Stored(partial[k].path) /\ file[partial[k].path] = k.input
=============================================================================
