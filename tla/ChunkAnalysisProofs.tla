------------------------- MODULE ChunkAnalysisProofs -------------------------
(***************************************************************************)
(* Theorems about ChunkAnalysis, for every set of workers and texts and     *)
(* every budget: what an analysis takes over was made from the text it      *)
(* read, and a row that succeeded has its file.                             *)
(***************************************************************************)
EXTENDS ChunkAnalysis, TLAPS

-----------------------------------------------------------------------------
(* The inductive invariant *)

Closing == {"done", "failing", "releasing"}

\* What the local variables of a worker tell of the result it works on: its key is
\* that of the text it read, and the result, once there has to be one, is of it.
Sound(rec) ==
  /\ rec.phase # "idle" => rec.read = rec.key.input
  /\ rec.phase \in {"validating", "storing", "publishing", "releasing", "done"} =>
       rec.result = rec.read
  /\ rec.phase \in {"storing", "publishing"} => rec.token # 0

\* The worker may still write the file of its token.
Writes(w) == worker[w].token # 0 /\ worker[w].phase \notin Closing

\* A token is one worker's, and everything that names a token names one that
\* was issued.
TokensAreIssued ==
  /\ \A v, w \in Workers : worker[v].token # 0 /\ worker[v].token = worker[w].token => v = w
  /\ \A w \in Workers : worker[w].token <= issued
  /\ \A k \in Keys : partial[k].path <= issued
  /\ \A t \in doomed : t <= issued

\* A file belongs to one row at most, and no row keeps one that is to be removed.
FilesAreOwned ==
  /\ \A k, l \in Keys : partial[k].path # 0 /\ partial[k].path = partial[l].path => k = l
  /\ \A k \in Keys : partial[k].path \notin doomed

\* Nobody reads, keeps or removes the file a worker may still write.
WritersAreAlone ==
  \A w \in Workers : Writes(w) =>
    /\ \A k \in Keys : partial[k].path # worker[w].token
    /\ worker[w].token \notin doomed
    /\ \A v \in Workers : worker[v].phase = "reading" => worker[v].path # worker[w].token

\* A file that is about to be read has the result of the reader's key, unless it
\* has been removed; one that is about to be published has the worker's result.
ReadersAreRight ==
  \A w \in Workers : worker[w].phase = "reading" =>
    /\ worker[w].path \in Tokens /\ worker[w].path <= issued
    /\ Stored(worker[w].path) => file[worker[w].path] = Key(w).input

PublishersAreReady ==
  \A w \in Workers : worker[w].phase = "publishing" =>
    file[worker[w].token] = worker[w].result

SucceededRow(k) ==
  partial[k].state = "succeeded" =>
    /\ partial[k].path \in Tokens
    /\ Stored(partial[k].path)
    /\ file[partial[k].path] = k.input

IInv ==
  /\ TypeOK
  /\ \A w \in Workers : Sound(worker[w])
  /\ TokensAreIssued
  /\ FilesAreOwned
  /\ WritersAreAlone
  /\ ReadersAreRight
  /\ PublishersAreReady
  /\ \A k \in Keys : SucceededRow(k)

LEMMA ModeFacts ==
  /\ "json_object" \in Modes
  /\ \A outcome \in Probes : OutputMode(Capability(outcome)) \in Modes
<1>1. OutputMode(Capability("unsupported")) = "json_object" /\ "unsupported" \in Outcomes
  BY DEF OutputMode, Capability, Outcomes
<1> QED BY <1>1, ProbeAssumption DEF Modes

LEMMA IdleFacts ==
  /\ Idle \in Worker /\ Sound(Idle)
  /\ Idle.phase = "idle" /\ Idle.token = 0
  /\ NoResult \in Result /\ NoResult \notin Texts
<1>1. NoResult \in Result /\ NoResult \notin Texts
  BY TextAssumption DEF NoResult, Result
<1>2. Idle.key \in Keys
  BY ModeFacts, TextAssumption DEF Idle, Keys
<1>3. 0 \in 0 .. MaxRequests /\ 0 \in 0 .. Retries
  BY BoundAssumption
<1>4. Idle \in Worker
  BY <1>1, <1>2, <1>3, ModeFacts, TextAssumption DEF Idle, Worker, Phase, Keys
<1> QED BY <1>1, <1>4 DEF Idle, Sound, Closing, NoResult

\* A step of one worker that reads and writes only its local variables, neither
\* beginning to read nor to publish.
LocalMove(w) ==
  \E next \in Worker :
    /\ worker' = [worker EXCEPT ![w] = next]
    /\ Sound(next)
    /\ next.token \in {0, worker[w].token}
    /\ next.phase \notin Closing => worker[w].phase \notin Closing \/ next.token = 0
    /\ next.phase \notin {"reading", "publishing"}

LEMMA RaiseMoves ==
  ASSUME TypeOK, NEW w \in Workers, Sound(worker[w]), worker[w].phase # "idle", Raise(w)
  PROVE  LocalMove(w)
<1> DEFINE next == [Idle EXCEPT !.phase = "failing", !.read = worker[w].read, !.key = Key(w),
                                !.token = worker[w].token]
<1>1. worker[w] \in Worker /\ Key(w) \in Keys
  BY DEF TypeOK, Worker, Key
<1>2. /\ next \in Worker /\ next.phase = "failing" /\ next.token = worker[w].token
      /\ next.read = worker[w].read /\ next.key = worker[w].key
  BY <1>1, IdleFacts DEF Worker, Phase, Key
<1>3. worker' = [worker EXCEPT ![w] = next]
  <2> DEFINE returned == [Idle EXCEPT !.phase = "failing", !.read = worker[w].read,
                            !.key = Key(w), !.token = worker[w].token, !.result = worker[w].result]
  <2>1. next = [returned EXCEPT !.result = NoResult]
    <3>1. Idle \in Worker /\ Idle.result = NoResult
      BY IdleFacts DEF Idle
    <3> HIDE DEF Idle
    <3> QED BY <3>1 DEF Worker
  <2>2. Returned(w, "failing") = [worker EXCEPT ![w] = returned]
    BY DEF Returned
  <2> HIDE DEF next, returned
  <2>3. worker' = [worker EXCEPT ![w] = [returned EXCEPT !.result = NoResult]]
    BY <2>2 DEF Raise, TypeOK
  <2> QED BY <2>1, <2>3
<1>4. Sound(next)
  BY <1>2 DEF Sound, Closing
<1> HIDE DEF next
<1> QED BY <1>2, <1>3, <1>4 DEF LocalMove, Closing

LEMMA ReturnMoves ==
  ASSUME TypeOK, NEW w \in Workers, Sound(worker[w]), worker[w].phase = "validating",
         NEW phase \in {"done", "storing", "releasing"}, worker' = Returned(w, phase),
         phase = "storing" => worker[w].token # 0
  PROVE  LocalMove(w)
<1> DEFINE next == [Idle EXCEPT !.phase = phase, !.read = worker[w].read, !.key = Key(w),
                                !.token = worker[w].token, !.result = worker[w].result]
<1>1. worker[w] \in Worker /\ Key(w) \in Keys /\ worker[w].result \in Result
  BY DEF TypeOK, Worker, Key
<1>2. /\ next \in Worker /\ next.phase = phase /\ next.token = worker[w].token
      /\ next.key = worker[w].key /\ next.read = worker[w].read
      /\ next.result = worker[w].result
  BY ZenonT(40), <1>1, IdleFacts DEF Worker, Phase, Key
<1>3. worker' = [worker EXCEPT ![w] = next]
  BY DEF Returned
<1> HIDE DEF next
<1>4. Sound(next)
  BY <1>2 DEF Sound, Closing
<1> QED BY <1>2, <1>3, <1>4 DEF LocalMove, Closing

\* A request that is followed by another one, or by the validation.
LEMMA AskMoves ==
  ASSUME TypeOK, NEW w \in Workers, Sound(worker[w]), worker[w].phase \in Requesting,
         worker[w].requests < MaxRequests,
         NEW phase \in {"repair", "retry", "fallback", "fallback_repair"},
         NEW retries \in 0 .. Retries, NEW repaired \in BOOLEAN, NEW applied \in Modes,
         worker' = [worker EXCEPT ![w] =
           [worker[w] EXCEPT !.phase = phase, !.requests = worker[w].requests + 1,
              !.retries = retries, !.repaired = repaired, !.applied = applied]]
  PROVE  LocalMove(w)
<1> DEFINE next == [worker[w] EXCEPT !.phase = phase, !.requests = worker[w].requests + 1,
                      !.retries = retries, !.repaired = repaired, !.applied = applied]
<1>1. worker[w] \in Worker /\ worker[w].requests + 1 \in 0 .. MaxRequests
  BY BoundAssumption DEF TypeOK, Worker
<1>2. /\ next \in Worker /\ next.phase = phase /\ next.token = worker[w].token
      /\ next.key = worker[w].key /\ next.result = worker[w].result /\ next.read = worker[w].read
  BY <1>1 DEF Worker, Phase, Requesting
<1> HIDE DEF next
<1>3. Sound(next)
  BY <1>2 DEF Sound, Closing, Requesting
<1> QED BY <1>2, <1>3 DEF LocalMove, Closing, Requesting, next

LEMMA AnswerMoves ==
  ASSUME TypeOK, NEW w \in Workers, Sound(worker[w]), worker[w].phase \in Requesting,
         worker[w].requests < MaxRequests, Answer(w)
  PROVE  LocalMove(w)
<1> DEFINE next == [worker[w] EXCEPT !.phase = "validating",
                      !.requests = worker[w].requests + 1, !.result = worker[w].read]
<1>1. /\ worker[w] \in Worker /\ worker[w].requests + 1 \in 0 .. MaxRequests
      /\ worker[w].read \in Result
  BY BoundAssumption DEF TypeOK, Worker, Result
<1>2. worker' = [worker EXCEPT ![w] = next]
  BY <1>1 DEF Answer, Asked, TypeOK
<1>3. /\ next \in Worker /\ next.phase = "validating" /\ next.token = worker[w].token
      /\ next.key = worker[w].key /\ next.result = worker[w].read
      /\ next.read = worker[w].read
  BY <1>1 DEF Worker, Phase
<1> HIDE DEF next
<1>4. Sound(next)
  BY <1>3 DEF Sound, Closing, Requesting
<1> QED BY <1>2, <1>3, <1>4 DEF LocalMove, Closing, Requesting

LEMMA FollowUpMoves ==
  ASSUME TypeOK, NEW w \in Workers, Sound(worker[w]), worker[w].phase \in Requesting,
         worker[w].requests < MaxRequests,
         \/ Malformed(w, "repair")
         \/ Malformed(w, "fallback_repair")
         \/ Transient(w)
         \/ /\ Planned(w) = "strict_json_schema"
            /\ worker' = [Asked(w, "fallback") EXCEPT ![w].applied = "json_object"]
  PROVE  LocalMove(w)
<1> DEFINE Asks(phase, retries, repaired, applied) ==
             worker' = [worker EXCEPT ![w] =
               [worker[w] EXCEPT !.phase = phase, !.requests = worker[w].requests + 1,
                  !.retries = retries, !.repaired = repaired, !.applied = applied]]
<1>0. /\ worker[w] \in Worker /\ worker \in [Workers -> Worker]
      /\ worker[w].retries \in 0 .. Retries /\ worker[w].repaired \in BOOLEAN
      /\ worker[w].applied \in Modes
  BY DEF TypeOK, Worker
<1>1. CASE Raise(w)
  BY <1>1, RaiseMoves DEF Requesting
<1>2. ASSUME NEW phase \in {"repair", "fallback_repair"},
             worker' = [Asked(w, phase) EXCEPT ![w].repaired = TRUE]
      PROVE  LocalMove(w)
  <2>1. PICK b \in BOOLEAN : worker' = [Asked(w, phase) EXCEPT ![w].repaired = b]
    BY <1>2
  <2>2. Asks(phase, worker[w].retries, b, worker[w].applied)
    BY <1>0, <2>1 DEF Asked, Worker
  <2> QED BY ZenonT(40), <1>0, <2>2, AskMoves
<1>3. CASE /\ worker[w].retries < Retries
           /\ worker' = [Asked(w, "retry") EXCEPT ![w].retries = @ + 1]
  <2>1. worker[w].retries + 1 \in 0 .. Retries
    BY <1>0, <1>3, BoundAssumption
  <2>2. Asks("retry", worker[w].retries + 1, worker[w].repaired, worker[w].applied)
    BY <1>0, <1>3 DEF Asked, Worker
  <2> QED BY <1>0, <2>1, <2>2, AskMoves
<1>4. CASE /\ Planned(w) = "strict_json_schema"
           /\ worker' = [Asked(w, "fallback") EXCEPT ![w].applied = "json_object"]
  <2>1. Asks("fallback", worker[w].retries, worker[w].repaired, "json_object")
    BY <1>0, <1>4 DEF Asked, Worker
  <2>2. "json_object" \in Modes
    BY ModeFacts
  <2> QED BY ZenonT(40), <1>0, <2>1, <2>2, AskMoves
<1> QED BY <1>1, <1>2, <1>3, <1>4 DEF Malformed, Transient

LEMMA RequestMoves ==
  ASSUME TypeOK, NEW w \in Workers, Sound(worker[w]), Request(w)
  PROVE  LocalMove(w) /\ UNCHANGED <<partial, file, issued, outside>>
<1>0. /\ worker[w] \in Worker /\ worker \in [Workers -> Worker] /\ Planned(w) \in Modes
  BY DEF TypeOK, Worker, Planned, Keys
<1>1. UNCHANGED <<partial, file, issued, outside>>
  BY DEF Request, Main, Repair, Retry, Fallback, FallbackRepair, Reference, Spent, Validate, Invoke
<1> SUFFICES LocalMove(w)
  BY <1>1
<1>2. CASE Main(w)
  BY <1>0, <1>2, AnswerMoves, FollowUpMoves, RaiseMoves DEF Main, Invoke, Requesting
<1>3. CASE Repair(w)
  BY <1>0, <1>3, AnswerMoves, FollowUpMoves, RaiseMoves DEF Repair, Invoke, Requesting
<1>4. CASE Retry(w)
  BY <1>0, <1>4, AnswerMoves, FollowUpMoves, RaiseMoves DEF Retry, Invoke, Requesting
<1>5. CASE Fallback(w)
  BY <1>0, <1>5, AnswerMoves, FollowUpMoves, RaiseMoves, ModeFacts
     DEF Fallback, Invoke, Requesting
<1>6. CASE FallbackRepair(w)
  BY <1>0, <1>6, AnswerMoves, RaiseMoves, ModeFacts DEF FallbackRepair, Invoke, Requesting
<1>7. CASE Reference(w)
  BY <1>0, <1>7, AnswerMoves, RaiseMoves DEF Reference, Invoke, Requesting
<1>8. CASE Spent(w)
  BY <1>8, RaiseMoves DEF Spent, Requesting
<1>9. CASE Validate(w)
  <2>1. CASE \/ worker[w].token = 0 /\ worker' = Returned(w, "done")
             \/ worker[w].token # 0 /\ SameMode(w) /\ worker' = Returned(w, "storing")
             \/ worker[w].token # 0 /\ ~SameMode(w) /\ worker' = Returned(w, "releasing")
    BY <1>9, <2>1, ReturnMoves DEF Validate
  <2>2. CASE Raise(w)
    BY <1>9, <2>2, RaiseMoves DEF Validate
  <2>3. CASE worker' = [worker EXCEPT ![w].phase = "reference", ![w].referenced = TRUE]
    <3>1. PICK b \in BOOLEAN : worker' = [worker EXCEPT ![w].phase = "reference", ![w].referenced = b]
      BY <2>3
    <3> DEFINE next == [worker[w] EXCEPT !.phase = "reference", !.referenced = b]
    <3>2. /\ next \in Worker /\ next.phase = "reference" /\ next.token = worker[w].token
          /\ next.key = worker[w].key /\ next.result = worker[w].result
          /\ next.read = worker[w].read
      BY <1>0 DEF Worker, Phase, Requesting
    <3>3. worker' = [worker EXCEPT ![w] = next]
      BY <1>0, <3>1
    <3> HIDE DEF next
    <3>4. Sound(next)
      BY <1>9, <3>2 DEF Validate, Sound, Closing
    <3> QED BY <1>9, <3>2, <3>3, <3>4 DEF LocalMove, Closing, Validate
  <2>4. CASE worker' = [worker EXCEPT ![w].phase = "main", ![w].completing = TRUE,
             ![w].retries = 0, ![w].applied = Planned(w)]
    <3>1. PICK b \in BOOLEAN : worker' = [worker EXCEPT ![w].phase = "main",
             ![w].completing = b, ![w].retries = 0, ![w].applied = Planned(w)]
      BY <2>4
    <3> DEFINE next == [worker[w] EXCEPT !.phase = "main", !.completing = b, !.retries = 0,
                          !.applied = Planned(w)]
    <3>2. worker' = [worker EXCEPT ![w] = next]
      BY <1>0, <3>1 DEF Worker
    <3>3. 0 \in 0 .. Retries
      BY BoundAssumption
    <3>4. /\ next \in Worker /\ next.phase = "main" /\ next.token = worker[w].token
          /\ next.key = worker[w].key /\ next.read = worker[w].read
      BY <1>0, <3>3 DEF Worker, Phase, Requesting
    <3> HIDE DEF next
    <3>5. Sound(next)
      BY <1>9, <3>4 DEF Validate, Sound, Closing
    <3> QED BY <1>9, <3>2, <3>4, <3>5 DEF LocalMove, Closing, Validate
  <2> QED BY <1>9, <2>1, <2>2, <2>3, <2>4 DEF Validate
<1> QED BY <1>2, <1>3, <1>4, <1>5, <1>6, <1>7, <1>8, <1>9 DEF Request

-----------------------------------------------------------------------------
(* Steps that write no file and issue no token *)

\* What such a step may do to a worker: it gets no token, does not go back to
\* writing, reads only the file of a row that succeeded, and does not publish.
QuietMove(v) ==
  /\ Sound(worker'[v])
  /\ worker'[v].token \in {0, worker[v].token}
  /\ worker'[v].phase \notin Closing => worker[v].phase \notin Closing \/ worker'[v].token = 0
  /\ worker'[v].phase = "reading" =>
       \/ /\ worker[v].phase = "reading" /\ worker'[v].path = worker[v].path
          /\ worker'[v].key = worker[v].key
       \/ /\ partial[worker'[v].key].state = "succeeded"
          /\ worker'[v].path = partial[worker'[v].key].path
  /\ worker'[v].phase = "publishing" =>
       /\ worker[v].phase = "publishing"
       /\ worker'[v].token = worker[v].token /\ worker'[v].result = worker[v].result

\* ... and to a row: it keeps its file or gives it up, and does not succeed.
QuietRow(k) ==
  /\ partial'[k].path \in {partial[k].path, 0}
  /\ partial'[k].state = "succeeded" =>
       partial[k].state = "succeeded" /\ partial'[k].path = partial[k].path

LEMMA QuietStep ==
  ASSUME IInv, TypeOK', file' = file, issued' = issued, doomed' = doomed,
         \A k \in Keys : QuietRow(k),
         \A v \in Workers : QuietMove(v)
  PROVE  IInv'
<1>0. /\ \A w \in Workers : worker[w] \in Worker /\ worker'[w] \in Worker
      /\ \A k \in Keys : partial[k] \in Row /\ partial'[k] \in Row
      /\ issued \in Nat /\ doomed \subseteq Nat
      /\ \A w \in Workers : worker[w].token \in Nat /\ worker'[w].token \in Nat
      /\ \A k \in Keys : partial[k].path \in Nat /\ partial'[k].path \in Nat
  BY SMTT(25), BoundAssumption DEF IInv, TypeOK, Worker, Row, Tokens
<1>1. \A w \in Workers : Sound(worker'[w])
  BY DEF QuietMove
<1>2. TokensAreIssued'
  BY <1>0 DEF IInv, TokensAreIssued, QuietRow, QuietMove
<1>3. FilesAreOwned'
  <2>1. 0 \notin doomed
    BY DEF IInv, TypeOK, Tokens
  <2> QED BY <2>1 DEF IInv, FilesAreOwned, QuietRow
<1>4. ASSUME NEW w \in Workers, worker'[w].token # 0, worker'[w].phase \notin Closing
      PROVE  Writes(w) /\ worker'[w].token = worker[w].token
  BY <1>4 DEF QuietMove, Writes
<1>5. ASSUME NEW v \in Workers, worker'[v].phase = "reading"
      PROVE  /\ worker'[v].path \in Tokens /\ worker'[v].path <= issued
             /\ Stored(worker'[v].path) => file[worker'[v].path] = worker'[v].key.input
             /\ \A w \in Workers : Writes(w) => worker'[v].path # worker[w].token
  <2>1. CASE /\ worker[v].phase = "reading" /\ worker'[v].path = worker[v].path
             /\ worker'[v].key = worker[v].key
    BY <2>1 DEF IInv, ReadersAreRight, WritersAreAlone, Key
  <2>2. CASE /\ partial[worker'[v].key].state = "succeeded"
             /\ worker'[v].path = partial[worker'[v].key].path
    <3>1. worker'[v].key \in Keys
      BY <1>0 DEF Worker
    <3>2. SucceededRow(worker'[v].key) /\ partial[worker'[v].key].path <= issued
      BY <3>1 DEF IInv, TokensAreIssued
    <3> QED BY <2>2, <3>1, <3>2 DEF SucceededRow, IInv, WritersAreAlone
  <2> QED BY <1>5, <2>1, <2>2 DEF QuietMove
<1>6. WritersAreAlone'
  <2> SUFFICES ASSUME NEW w \in Workers, worker'[w].token # 0, worker'[w].phase \notin Closing
               PROVE  /\ \A k \in Keys : partial'[k].path # worker'[w].token
                      /\ worker'[w].token \notin doomed
                      /\ \A v \in Workers : worker'[v].phase = "reading"
                                              => worker'[v].path # worker'[w].token
    BY DEF WritersAreAlone, Writes
  <2>1. Writes(w) /\ worker'[w].token = worker[w].token
    BY <1>4
  <2> QED BY <1>5, <2>1 DEF IInv, WritersAreAlone, QuietRow
<1>7. ReadersAreRight'
  BY <1>5 DEF ReadersAreRight, Stored, Key
<1>8. PublishersAreReady'
  BY DEF IInv, PublishersAreReady, QuietMove
<1>9. \A k \in Keys : SucceededRow(k)'
  BY DEF IInv, SucceededRow, QuietRow, Stored
<1> QED BY <1>1, <1>2, <1>3, <1>6, <1>7, <1>8, <1>9 DEF IInv

\* A worker that does not move is quiet, and so is a local move.
LEMMA LocalMoveIsQuiet ==
  ASSUME IInv, NEW w \in Workers,
         UNCHANGED worker \/ LocalMove(w)
  PROVE  worker' \in [Workers -> Worker] /\ \A v \in Workers : QuietMove(v)
<1>0. worker \in [Workers -> Worker] /\ \A v \in Workers : Sound(worker[v])
  BY DEF IInv, TypeOK
<1>1. ASSUME NEW v \in Workers, worker'[v] = worker[v] PROVE QuietMove(v)
  BY <1>0, <1>1 DEF QuietMove
<1>2. CASE UNCHANGED worker
  BY <1>0, <1>1, <1>2
<1>3. CASE LocalMove(w)
  <2>1. PICK next \in Worker :
          /\ worker' = [worker EXCEPT ![w] = next]
          /\ Sound(next)
          /\ next.token \in {0, worker[w].token}
          /\ next.phase \notin Closing => worker[w].phase \notin Closing \/ next.token = 0
          /\ next.phase \notin {"reading", "publishing"}
    BY <1>3 DEF LocalMove
  <2>2. worker'[w] = next /\ \A v \in Workers \ {w} : worker'[v] = worker[v]
    BY <1>0, <2>1
  <2>3. QuietMove(w)
    BY <2>1, <2>2 DEF QuietMove
  <2>4. worker' \in [Workers -> Worker]
    BY <1>0, <2>1
  <2> QED BY <1>1, <2>2, <2>3, <2>4
<1> QED BY <1>2, <1>3

LEMMA GotoFacts ==
  ASSUME TypeOK, NEW w \in Workers, NEW phase \in Phase, Goto(w, phase)
  PROVE  /\ worker' \in [Workers -> Worker]
         /\ \A v \in Workers \ {w} : worker'[v] = worker[v]
         /\ worker'[w].phase = phase /\ worker'[w].key = worker[w].key
         /\ worker'[w].token = worker[w].token /\ worker'[w].path = worker[w].path
         /\ worker'[w].result = worker[w].result /\ worker'[w].read = worker[w].read
<1>1. worker[w] \in Worker
  BY DEF TypeOK
<1> DEFINE next == [worker[w] EXCEPT !.phase = phase]
<1>2. /\ next \in Worker /\ next.phase = phase /\ next.key = worker[w].key
      /\ next.token = worker[w].token /\ next.path = worker[w].path
      /\ next.result = worker[w].result /\ next.read = worker[w].read
  BY <1>1 DEF Worker
<1>3. worker' = [worker EXCEPT ![w] = next]
  BY DEF Goto
<1> HIDE DEF next
<1> QED BY <1>2, <1>3 DEF TypeOK

\* Leaving, and going on in a phase that is no later than the one before.
LEMMA LeaveMoves ==
  ASSUME TypeOK, NEW w \in Workers, Leave(w)
  PROVE  LocalMove(w)
BY IdleFacts DEF Leave, LocalMove

LEMMA GotoMoves ==
  ASSUME TypeOK, NEW w \in Workers, Sound(worker[w]), NEW phase \in Phase,
         \/ worker[w].phase = "looking" /\ phase \in {"claiming", "discarding"}
         \/ worker[w].phase = "reading" /\ phase = "discarding"
         \/ worker[w].phase = "claiming" /\ phase = "waiting"
         \/ worker[w].phase \in {"releasing", "publishing"} /\ phase = "done"
         \/ worker[w].phase \in {"storing", "publishing"} /\ phase = "failing",
         Goto(w, phase)
  PROVE  LocalMove(w)
<1> DEFINE next == [worker[w] EXCEPT !.phase = phase]
<1>1. worker[w] \in Worker
  BY DEF TypeOK
<1>2. /\ next \in Worker /\ next.phase = phase /\ next.key = worker[w].key
      /\ next.token = worker[w].token
      /\ next.result = worker[w].result /\ next.read = worker[w].read
  BY <1>1 DEF Worker
<1>3. worker' = [worker EXCEPT ![w] = next]
  BY DEF Goto
<1> HIDE DEF next
<1>4. Sound(next)
  BY <1>2 DEF Sound, Closing
<1> QED BY <1>2, <1>3, <1>4 DEF LocalMove, Closing

\* A quiet step with its local move and its rows.
LEMMA MoveKeepsIInv ==
  ASSUME IInv, NEW w \in Workers, UNCHANGED worker \/ LocalMove(w),
         partial' \in [Keys -> Row], \A k \in Keys : QuietRow(k),
         UNCHANGED <<file, issued, doomed>>,
         text' \in Texts, edits' \in 0 .. MaxEdits, cleanups' \in 0 .. MaxCleanups
  PROVE  IInv'
<1>1. worker' \in [Workers -> Worker] /\ \A v \in Workers : QuietMove(v)
  BY LocalMoveIsQuiet
<1>2. TypeOK'
  BY <1>1 DEF IInv, TypeOK
<1> QED BY <1>1, <1>2, QuietStep

LEMMA SameRows ==
  ASSUME TypeOK, UNCHANGED partial
  PROVE  partial' \in [Keys -> Row] /\ \A k \in Keys : QuietRow(k)
BY DEF TypeOK, QuietRow

LEMMA StartKeeps ==
  ASSUME IInv, NEW w \in Workers, Start(w)
  PROVE  IInv'
<1>0. TypeOK
  BY DEF IInv
<1>1. PICK hash \in Recorded, mode \in {OutputMode(Capability(outcome)) : outcome \in Probes} :
        LET key == Identity(hash, text, mode) IN
        /\ worker' = [worker EXCEPT ![w] = [Idle EXCEPT !.phase = "looking", !.read = text,
                        !.key = key, !.applied = mode]]
        /\ partial' = [partial EXCEPT ![key] =
             IF @.state = "absent" THEN [NoRow EXCEPT !.state = "pending", !.analysis = w] ELSE @]
  BY DEF Start
<1> DEFINE key == Identity(hash, text, mode)
           next == [Idle EXCEPT !.phase = "looking", !.read = text, !.key = key,
                                !.applied = mode]
           row == IF partial[key].state = "absent"
                  THEN [NoRow EXCEPT !.state = "pending", !.analysis = w] ELSE partial[key]
<1>2. mode \in Modes /\ text \in Texts
  BY <1>0, <1>1, ModeFacts DEF TypeOK
<1>3. key \in Keys /\ key.input = text /\ key.mode = mode
  BY <1>2, TextAssumption DEF Keys, Identity
<1>5. /\ next \in Worker /\ next.phase = "looking" /\ next.key = key /\ next.token = 0
      /\ next.read = text
  <2> HIDE DEF key
  <2>1. Idle \in Worker /\ Idle.token = 0
    BY IdleFacts
  <2> HIDE DEF Idle
  <2> QED BY <1>2, <1>3, <2>1 DEF Worker, Phase
<1>6. worker' = [worker EXCEPT ![w] = next]
  BY <1>1
<1>7. Sound(next)
  <2> HIDE DEF next, key
  <2> QED BY <1>3, <1>5 DEF Sound, Closing
<1>8. LocalMove(w)
  <2> HIDE DEF next
  <2> QED BY <1>5, <1>6, <1>7 DEF LocalMove, Closing
<1>9. row \in Row /\ QuietRow(key)
  <2>1. partial[key] \in Row /\ partial'[key] = row
    BY <1>0, <1>1, <1>3 DEF TypeOK
  <2>2. [NoRow EXCEPT !.state = "pending", !.analysis = w] \in Row
    BY DEF NoRow, Row
  <2> QED BY <2>1, <2>2 DEF QuietRow, NoRow
<1>10. partial' \in [Keys -> Row] /\ \A k \in Keys : QuietRow(k)
  <2>1. partial' = [partial EXCEPT ![key] = row]
    BY <1>1
  <2> HIDE DEF key, row
  <2>2. \A k \in Keys \ {key} : partial'[k] = partial[k]
    BY <1>0, <2>1 DEF TypeOK
  <2>3. partial' \in [Keys -> Row]
    BY <1>0, <1>9, <2>1 DEF TypeOK
  <2> QED BY <1>9, <2>2, <2>3 DEF QuietRow
<1> QED BY <1>0, <1>8, <1>10, MoveKeepsIInv DEF Start, outside, TypeOK

LEMMA NoReuseMoves ==
  ASSUME TypeOK, NEW w \in Workers, Sound(worker[w]),
         worker[w].phase \in {"looking", "discarding"}, NoReuse(w)
  PROVE  LocalMove(w)
<1>1. ASSUME NEW phase \in {"claiming", "main"},
             worker' = [worker EXCEPT ![w].phase = phase, ![w].path = 0]
      PROVE  LocalMove(w)
  <2> DEFINE next == [worker[w] EXCEPT !.phase = phase, !.path = 0]
  <2>0. worker[w] \in Worker
    BY DEF TypeOK
  <2>1. /\ next \in Worker /\ next.phase = phase /\ next.key = worker[w].key
        /\ next.token = worker[w].token /\ next.result = worker[w].result
        /\ next.read = worker[w].read
    BY <2>0 DEF Worker, Phase, Requesting
  <2>2. worker' = [worker EXCEPT ![w] = next]
    BY <2>0, <1>1 DEF TypeOK
  <2> HIDE DEF next
  <2>3. Sound(next)
    BY <2>1 DEF Sound, Closing
  <2> QED BY <2>1, <2>2, <2>3 DEF LocalMove, Closing
<1> QED BY <1>1, LeaveMoves DEF NoReuse

LEMMA LookKeeps ==
  ASSUME IInv, NEW w \in Workers, Look(w)
  PROVE  IInv'
<1>0. /\ TypeOK /\ Sound(worker[w]) /\ worker[w] \in Worker /\ Key(w) \in Keys
      /\ partial' \in [Keys -> Row] /\ \A k \in Keys : QuietRow(k)
  BY SameRows DEF IInv, TypeOK, Worker, Key, Look
<1>1. CASE NoReuse(w) \/ Goto(w, "discarding")
  <2>1. LocalMove(w)
    BY <1>0, <1>1, GotoMoves, NoReuseMoves DEF Look, Phase
  <2> QED BY <1>0, <2>1, MoveKeepsIInv DEF Look, outside, TypeOK
<1>2. CASE /\ partial[Key(w)].state = "succeeded"
           /\ worker' = [worker EXCEPT ![w].phase = "reading", ![w].path = partial[Key(w)].path]
  <2> DEFINE next == [worker[w] EXCEPT !.phase = "reading", !.path = partial[Key(w)].path]
  <2>1. partial[Key(w)].path \in Tokens \cup {0}
    BY <1>0 DEF TypeOK, Row
  <2>2. /\ next \in Worker /\ next.phase = "reading" /\ next.key = worker[w].key
        /\ next.path = partial[Key(w)].path
        /\ next.token = worker[w].token /\ next.result = worker[w].result
        /\ next.read = worker[w].read
    BY <1>0, <2>1 DEF Worker, Phase
  <2>3. worker' = [worker EXCEPT ![w] = next]
    BY <1>0, <1>2 DEF TypeOK
  <2> HIDE DEF next
  <2>4. Sound(next)
    BY <1>0, <2>2 DEF Look, Sound, Closing
  <2>5. worker'[w] = next /\ worker' \in [Workers -> Worker]
        /\ \A v \in Workers \ {w} : worker'[v] = worker[v]
    BY <1>0, <2>2, <2>3 DEF TypeOK
  <2>6. QuietMove(w)
    BY <1>0, <1>2, <2>2, <2>4, <2>5 DEF QuietMove, Look, Closing, Key
  <2>7. \A v \in Workers \ {w} : QuietMove(v)
    BY <2>5 DEF QuietMove, IInv
  <2>8. TypeOK'
    BY <1>0, <2>5 DEF Look, TypeOK, outside
  <2> QED BY <1>0, <2>6, <2>7, <2>8, QuietStep DEF Look, outside
<1> QED BY <1>1, <1>2 DEF Look

LEMMA ReadKeeps ==
  ASSUME IInv, NEW w \in Workers, Read(w)
  PROVE  IInv'
<1>0. /\ TypeOK /\ Sound(worker[w]) /\ worker[w] \in Worker /\ worker[w].phase = "reading"
      /\ partial' \in [Keys -> Row] /\ \A k \in Keys : QuietRow(k)
  BY SameRows DEF IInv, TypeOK, Read
<1> SUFFICES LocalMove(w)
  BY <1>0, MoveKeepsIInv DEF Read, outside, TypeOK
<1>1. CASE Goto(w, "discarding")
  BY <1>0, <1>1, GotoMoves DEF Phase
<1>2. CASE /\ Stored(worker[w].path)
           /\ worker' = [worker EXCEPT ![w].phase = "done", ![w].result = file[worker[w].path]]
  <2>1. worker[w].path \in Tokens /\ file[worker[w].path] = Key(w).input
    BY <1>0, <1>2 DEF IInv, ReadersAreRight
  <2>2. file[worker[w].path] \in Result
    BY <1>0, <2>1 DEF TypeOK
  <2> DEFINE next == [worker[w] EXCEPT !.phase = "done", !.result = file[worker[w].path]]
  <2>3. /\ next \in Worker /\ next.phase = "done" /\ next.key = worker[w].key
        /\ next.token = worker[w].token /\ next.result = file[worker[w].path]
        /\ next.read = worker[w].read
    BY <1>0, <2>2 DEF Worker, Phase
  <2>4. worker' = [worker EXCEPT ![w] = next]
    BY <1>0, <1>2 DEF TypeOK
  <2> HIDE DEF next
  <2>5. Sound(next)
    BY <1>0, <2>1, <2>3 DEF Sound, Closing, Key
  <2> QED BY <2>3, <2>4, <2>5 DEF LocalMove, Closing
<1>3. CASE worker' = [worker EXCEPT ![w].phase = "looking", ![w].look = "again", ![w].path = 0]
  <2> DEFINE next == [worker[w] EXCEPT !.phase = "looking", !.look = "again", !.path = 0]
  <2>1. /\ next \in Worker /\ next.phase = "looking" /\ next.key = worker[w].key
        /\ next.token = worker[w].token /\ next.result = worker[w].result
        /\ next.read = worker[w].read
    BY <1>0 DEF Worker, Phase
  <2>2. worker' = [worker EXCEPT ![w] = next]
    BY <1>0, <1>3 DEF TypeOK
  <2> HIDE DEF next
  <2>3. Sound(next)
    BY <1>0, <2>1 DEF Sound, Closing
  <2> QED BY <1>0, <2>1, <2>2, <2>3 DEF LocalMove, Closing
<1> QED BY <1>1, <1>2, <1>3 DEF Read

LEMMA OneRow ==
  ASSUME TypeOK, NEW k \in Keys, NEW row \in Row,
         partial' = [partial EXCEPT ![k] = row],
         row = partial[k] \/ (row.path \in {partial[k].path, 0} /\ row.state # "succeeded")
  PROVE  partial' \in [Keys -> Row] /\ \A l \in Keys : QuietRow(l)
<1>1. partial'[k] = row /\ \A l \in Keys \ {k} : partial'[l] = partial[l]
  BY DEF TypeOK
<1> QED BY <1>1 DEF TypeOK, QuietRow

LEMMA RowFacts ==
  ASSUME TypeOK, NEW k \in Keys, NEW state \in {"failed", "stale"}
  PROVE  LET row == [partial[k] EXCEPT !.state = state, !.owner = 0, !.leased = FALSE]
         IN  row \in Row /\ row.path = partial[k].path /\ row.state = state
<1>1. partial[k] \in Row
  BY DEF TypeOK
<1>2. PICK b \in BOOLEAN : b = FALSE
  OBVIOUS
<1> DEFINE row == [partial[k] EXCEPT !.state = state, !.owner = 0, !.leased = b]
<1>3. row \in Row /\ row.path = partial[k].path /\ row.state = state
  BY <1>1 DEF Row
<1> QED BY <1>2, <1>3

LEMMA DiscardKeeps ==
  ASSUME IInv, NEW w \in Workers, Discard(w)
  PROVE  IInv'
<1>0. /\ TypeOK /\ Sound(worker[w]) /\ worker[w] \in Worker /\ worker[w].phase = "discarding"
      /\ Key(w) \in Keys
  BY DEF IInv, TypeOK, Discard, Worker, Key
<1>1. partial' \in [Keys -> Row] /\ \A k \in Keys : QuietRow(k)
  <2> DEFINE stale == [partial[Key(w)] EXCEPT !.state = "stale", !.owner = 0, !.leased = FALSE]
             row == IF partial[Key(w)].state = "running" THEN partial[Key(w)] ELSE stale
  <2>1. stale \in Row /\ stale.path = partial[Key(w)].path /\ stale.state = "stale"
    BY <1>0, RowFacts
  <2>2. partial' = [partial EXCEPT ![Key(w)] = row]
    BY <1>0 DEF Discard, TypeOK
  <2> HIDE DEF stale
  <2>3. row \in Row /\ (row = partial[Key(w)] \/ row = stale)
    BY <1>0, <2>1 DEF TypeOK
  <2> HIDE DEF row
  <2> QED BY <1>0, <2>1, <2>2, <2>3, OneRow
<1>2. LocalMove(w)
  BY <1>0, NoReuseMoves DEF Discard
<1> QED BY <1>0, <1>1, <1>2, MoveKeepsIInv DEF Discard, outside, TypeOK

LEMMA RequestKeeps ==
  ASSUME IInv, NEW w \in Workers, Request(w) \/ Wait(w) \/ Use(w)
  PROVE  IInv'
<1>0. TypeOK /\ Sound(worker[w]) /\ worker[w] \in Worker
  BY DEF IInv, TypeOK
<1>1. LocalMove(w) /\ UNCHANGED <<partial, file, issued, outside>>
  <2>1. CASE Request(w)
    BY <1>0, <2>1, RequestMoves
  <2>2. CASE Use(w) \/ (Wait(w) /\ Leave(w))
    BY <1>0, <2>2, LeaveMoves DEF Use, Wait
  <2>3. CASE /\ Wait(w)
             /\ worker' = [worker EXCEPT ![w].phase = "looking", ![w].look = "waited"]
    <3> DEFINE next == [worker[w] EXCEPT !.phase = "looking", !.look = "waited"]
    <3>1. /\ next \in Worker /\ next.phase = "looking" /\ next.key = worker[w].key
          /\ next.token = worker[w].token /\ next.result = worker[w].result
          /\ next.read = worker[w].read
      BY <1>0 DEF Worker, Phase
    <3>2. worker' = [worker EXCEPT ![w] = next]
      BY <1>0, <2>3 DEF TypeOK
    <3> HIDE DEF next
    <3>3. Sound(next)
      BY <1>0, <2>3, <3>1 DEF Sound, Closing, Wait
    <3>4. LocalMove(w)
      BY <1>0, <2>3, <3>1, <3>2, <3>3 DEF LocalMove, Closing, Wait
    <3> QED BY <2>3, <3>4 DEF Wait
  <2> QED BY <2>1, <2>2, <2>3 DEF Wait
<1>2. partial' \in [Keys -> Row] /\ \A k \in Keys : QuietRow(k)
  BY <1>0, <1>1, SameRows
<1> QED BY <1>0, <1>1, <1>2, MoveKeepsIInv DEF outside, TypeOK

LEMMA FailKeeps ==
  ASSUME IInv, NEW w \in Workers, Fail(w)
  PROVE  IInv'
<1>0. /\ TypeOK /\ Sound(worker[w]) /\ worker[w] \in Worker /\ Key(w) \in Keys
  BY DEF IInv, TypeOK, Worker, Key
<1>1. partial' \in [Keys -> Row] /\ \A k \in Keys : QuietRow(k)
  <2> DEFINE failed == [partial[Key(w)] EXCEPT !.state = "failed", !.owner = 0, !.leased = FALSE]
             row == IF worker[w].token # 0 /\ Holds(w) THEN failed ELSE partial[Key(w)]
  <2>1. failed \in Row /\ failed.path = partial[Key(w)].path /\ failed.state = "failed"
    BY <1>0, RowFacts
  <2>2. partial' = [partial EXCEPT ![Key(w)] = row]
    BY <1>0 DEF Fail, TypeOK
  <2> HIDE DEF failed
  <2>3. row \in Row /\ (row = partial[Key(w)] \/ row = failed)
    BY <1>0, <2>1 DEF TypeOK
  <2> HIDE DEF row
  <2> QED BY <1>0, <2>1, <2>2, <2>3, OneRow
<1>2. LocalMove(w)
  <2>1. CASE worker[w].phase = "releasing" /\ Goto(w, "done")
    BY <1>0, <2>1, GotoMoves DEF Phase
  <2> QED BY <1>0, <2>1, LeaveMoves DEF Fail
<1> QED BY <1>0, <1>1, <1>2, MoveKeepsIInv DEF Fail, outside, TypeOK

-----------------------------------------------------------------------------
(* The claim, the file and the row *)

\* The values of the state, as natural numbers where they are compared.
LEMMA StateFacts ==
  ASSUME TypeOK
  PROVE  /\ \A w \in Workers : /\ worker[w] \in Worker /\ worker[w].token \in Nat
                               /\ worker[w].key \in Keys
         /\ \A k \in Keys : partial[k] \in Row /\ partial[k].path \in Nat
         /\ issued \in Nat /\ doomed \subseteq Nat /\ 0 \notin doomed
BY BoundAssumption DEF TypeOK, Worker, Row, Tokens

LEMMA RealClaimKeeps ==
  ASSUME IInv, NEW w \in Workers, worker[w].phase = "claiming", issued < MaxClaims,
         issued' = issued + 1,
         partial' = [partial EXCEPT ![Key(w)] =
           [@ EXCEPT !.state = "running", !.owner = issued + 1, !.leased = TRUE,
                     !.analysis = w]],
         worker' = [worker EXCEPT ![w].phase = "main", ![w].token = issued + 1],
         UNCHANGED <<file, outside>>
  PROVE  IInv'
<1>0. /\ TypeOK /\ worker[w] \in Worker /\ Key(w) \in Keys /\ partial[Key(w)] \in Row
      /\ issued \in Nat /\ MaxClaims \in Nat /\ issued + 1 \in Tokens
  <2>1. issued \in 0 .. MaxClaims /\ MaxClaims \in Nat
    BY BoundAssumption DEF IInv, TypeOK
  <2>2. issued + 1 \in Tokens
    BY <2>1 DEF Tokens
  <2> QED BY <2>1, <2>2, StateFacts DEF IInv, Key
<1> DEFINE next == [worker[w] EXCEPT !.phase = "main", !.token = issued + 1]
           row == [partial[Key(w)] EXCEPT !.state = "running", !.owner = issued + 1,
                     !.leased = TRUE, !.analysis = w]
<1>1. /\ next \in Worker /\ next.phase = "main" /\ next.token = issued + 1
      /\ next.key = worker[w].key /\ next.result = worker[w].result
      /\ next.read = worker[w].read
  BY <1>0 DEF Worker, Phase, Requesting
<1>2. row \in Row /\ row.path = partial[Key(w)].path /\ row.state = "running"
  <2>1. PICK b \in BOOLEAN : b
    OBVIOUS
  <2>2. LET r == [partial[Key(w)] EXCEPT !.state = "running", !.owner = issued + 1,
                     !.leased = b, !.analysis = w]
        IN  r \in Row /\ r.path = partial[Key(w)].path /\ r.state = "running"
    BY <1>0 DEF Row
  <2> QED BY <2>1, <2>2
<1>3. /\ worker'[w] = next /\ worker' \in [Workers -> Worker]
      /\ \A v \in Workers \ {w} : worker'[v] = worker[v]
  <2>1. worker' = [worker EXCEPT ![w] = next]
    BY <1>0 DEF TypeOK
  <2> HIDE DEF next
  <2> QED BY <1>0, <1>1, <2>1 DEF TypeOK
<1>4. /\ partial' \in [Keys -> Row]
      /\ \A k \in Keys : /\ partial'[k].path = partial[k].path
                         /\ partial'[k].state = "succeeded" => partial[k].state = "succeeded"
  <2>1. partial' = [partial EXCEPT ![Key(w)] = row]
    BY <1>0 DEF TypeOK
  <2> HIDE DEF row
  <2> QED BY <1>0, <1>2, <2>1 DEF TypeOK
<1> HIDE DEF next, row
<1>5. TypeOK'
  BY <1>0, <1>3, <1>4 DEF TypeOK, outside, Tokens
<1>6. \A v \in Workers : Sound(worker'[v])
  <2>1. Sound(next)
    BY <1>1 DEF IInv, Sound, Closing
  <2> QED BY <1>3, <2>1 DEF IInv
<1>7. TokensAreIssued'
  BY <1>0, <1>1, <1>3, <1>4, StateFacts DEF IInv, TokensAreIssued, outside
<1>8. FilesAreOwned'
  BY <1>4 DEF IInv, FilesAreOwned, outside
<1>9. \A v \in Workers : worker'[v].phase = "reading" =>
        /\ v # w /\ worker'[v] = worker[v] /\ worker[v].phase = "reading"
        /\ worker[v].path \in Tokens /\ worker[v].path <= issued
  BY <1>1, <1>3 DEF IInv, ReadersAreRight
<1>10. WritersAreAlone'
  <2> SUFFICES ASSUME NEW v \in Workers, Writes(v)'
               PROVE  /\ \A k \in Keys : partial'[k].path # worker'[v].token
                      /\ worker'[v].token \notin doomed
                      /\ \A u \in Workers : worker'[u].phase = "reading"
                                              => worker'[u].path # worker'[v].token
    BY DEF WritersAreAlone, outside
  <2>1. CASE v = w
    BY <1>0, <1>1, <1>3, <1>4, <1>9, <2>1, StateFacts DEF IInv, TokensAreIssued, Tokens
  <2>2. CASE v # w
    <3>1. Writes(v) /\ worker'[v] = worker[v]
      BY <1>3, <2>2 DEF Writes
    <3>2. /\ \A k \in Keys : partial[k].path # worker[v].token
          /\ worker[v].token \notin doomed
          /\ \A u \in Workers : worker[u].phase = "reading" => worker[u].path # worker[v].token
      BY <3>1 DEF IInv, WritersAreAlone
    <3> QED BY <1>4, <1>9, <3>1, <3>2
  <2> QED BY <2>1, <2>2
<1>11. ReadersAreRight'
  <2> SUFFICES ASSUME NEW v \in Workers, worker'[v].phase = "reading"
               PROVE  /\ worker'[v].path \in Tokens /\ worker'[v].path <= issued + 1
                      /\ file[worker'[v].path] # NoResult =>
                           file[worker'[v].path] = worker'[v].key.input
    BY DEF ReadersAreRight, Stored, Key, outside
  <2>1. /\ worker'[v] = worker[v]
        /\ worker[v].path \in Tokens /\ worker[v].path <= issued
        /\ file[worker[v].path] # NoResult =>
             file[worker[v].path] = worker[v].key.input
    BY <1>9 DEF IInv, ReadersAreRight, Stored, Key
  <2>2. worker[v].path <= issued + 1
    BY <1>0, <2>1 DEF Tokens
  <2> QED BY <2>1, <2>2
<1>12. PublishersAreReady'
  BY <1>1, <1>3 DEF IInv, PublishersAreReady
<1>13. \A k \in Keys : SucceededRow(k)'
  BY <1>4 DEF IInv, SucceededRow, Stored
<1> QED BY <1>5, <1>6, <1>7, <1>8, <1>10, <1>11, <1>12, <1>13 DEF IInv

LEMMA ClaimKeeps ==
  ASSUME IInv, NEW w \in Workers, Claim(w)
  PROVE  IInv'
<1>0. /\ TypeOK /\ Sound(worker[w]) /\ worker[w] \in Worker /\ worker[w].phase = "claiming"
  BY DEF IInv, TypeOK, Claim
<1>1. CASE /\ worker' = [worker EXCEPT ![w].phase = "looking", ![w].look = "again"]
           /\ UNCHANGED <<partial, issued>>
  <2> DEFINE next == [worker[w] EXCEPT !.phase = "looking", !.look = "again"]
  <2>1. /\ next \in Worker /\ next.phase = "looking" /\ next.key = worker[w].key
        /\ next.token = worker[w].token /\ next.result = worker[w].result
        /\ next.read = worker[w].read
    BY <1>0 DEF Worker, Phase
  <2>2. worker' = [worker EXCEPT ![w] = next]
    BY <1>0, <1>1 DEF TypeOK
  <2> HIDE DEF next
  <2>3. Sound(next)
    BY <1>0, <2>1 DEF Sound, Closing
  <2>4. LocalMove(w)
    BY <1>0, <2>1, <2>2, <2>3 DEF LocalMove, Closing
  <2> QED BY <1>0, <1>1, <2>4, SameRows, MoveKeepsIInv DEF Claim, outside, TypeOK
<1>2. CASE Goto(w, "waiting") /\ UNCHANGED <<partial, issued>>
  <2>1. LocalMove(w)
    BY <1>0, <1>2, GotoMoves DEF Phase
  <2> QED BY <1>0, <1>2, <2>1, SameRows, MoveKeepsIInv DEF Claim, outside, TypeOK
<1>3. CASE /\ issued < MaxClaims /\ issued' = issued + 1
           /\ partial' = [partial EXCEPT ![Key(w)] =
                [@ EXCEPT !.state = "running", !.owner = issued + 1, !.leased = TRUE,
                          !.analysis = w]]
           /\ worker' = [worker EXCEPT ![w].phase = "main", ![w].token = issued + 1]
  BY <1>0, <1>3, RealClaimKeeps DEF Claim
<1> QED BY <1>1, <1>2, <1>3 DEF Claim

LEMMA StoreKeeps ==
  ASSUME IInv, NEW w \in Workers, Store(w)
  PROVE  IInv'
<1>0. /\ TypeOK /\ Sound(worker[w]) /\ worker[w] \in Worker /\ worker[w].phase = "storing"
      /\ worker[w].token \in Tokens /\ worker[w].result \in Result /\ Writes(w)
  <2>1. /\ TypeOK /\ Sound(worker[w]) /\ worker[w] \in Worker /\ worker[w].phase = "storing"
    BY DEF IInv, TypeOK, Store
  <2>2. worker[w].token \in Tokens /\ worker[w].token # 0 /\ worker[w].result \in Result
    BY <2>1 DEF Sound, Worker
  <2> QED BY <2>1, <2>2 DEF Writes, Closing
<1>1. CASE Goto(w, "failing") /\ UNCHANGED file
  <2>1. LocalMove(w)
    BY <1>0, <1>1, GotoMoves DEF Phase
  <2> QED BY <1>0, <1>1, <2>1, SameRows, MoveKeepsIInv DEF Store, outside, TypeOK
<1>2. CASE /\ file' = [file EXCEPT ![worker[w].token] = worker[w].result]
           /\ Goto(w, "publishing")
  <2>0. UNCHANGED <<text, partial, issued, edits, cleanups, doomed>>
    BY DEF Store, outside
  <2>1. /\ worker' \in [Workers -> Worker]
        /\ \A v \in Workers \ {w} : worker'[v] = worker[v]
        /\ worker'[w].phase = "publishing" /\ worker'[w].key = worker[w].key
        /\ worker'[w].token = worker[w].token /\ worker'[w].result = worker[w].result
        /\ worker'[w].read = worker[w].read
    BY <1>0, <1>2, GotoFacts DEF Phase
  <2>2. /\ file' \in [Tokens -> Result] /\ file'[worker[w].token] = worker[w].result
        /\ \A t \in Tokens \ {worker[w].token} : file'[t] = file[t]
    BY <1>0, <1>2 DEF TypeOK
  <2>3. TypeOK'
    BY <1>0, <2>0, <2>1, <2>2 DEF TypeOK
  <2>4. Sound(worker'[w])
    BY <1>0, <2>1 DEF Sound, Closing
  <2>5. TokensAreIssued' /\ FilesAreOwned'
    BY <2>0, <2>1 DEF IInv, TokensAreIssued, FilesAreOwned
  <2>6. \A v \in Workers : worker'[v].phase = "reading" => v # w
    BY <2>1
  <2>7. WritersAreAlone'
    BY <1>0, <2>0, <2>1, <2>6 DEF IInv, WritersAreAlone, Writes
  <2>8. ReadersAreRight'
    BY <1>0, <2>0, <2>1, <2>2, <2>6 DEF IInv, ReadersAreRight, WritersAreAlone, Stored, Key
  <2>9. PublishersAreReady'
    <3>1. \A v \in Workers \ {w} : worker[v].phase = "publishing" =>
            worker[v].token \in Tokens \ {worker[w].token}
      BY <1>0, StateFacts DEF IInv, TokensAreIssued, Sound, Worker
    <3> QED BY <2>1, <2>2, <3>1 DEF IInv, PublishersAreReady
  <2>10. \A k \in Keys : SucceededRow(k)'
    BY <1>0, <2>0, <2>2 DEF IInv, SucceededRow, WritersAreAlone, Stored
  <2> QED BY <2>1, <2>3, <2>4, <2>5, <2>7, <2>8, <2>9, <2>10 DEF IInv
<1> QED BY <1>1, <1>2 DEF Store, FileName

LEMMA PublishKeeps ==
  ASSUME IInv, NEW w \in Workers, Publish(w)
  PROVE  IInv'
<1>0. /\ TypeOK /\ Sound(worker[w]) /\ worker[w] \in Worker /\ worker[w].phase = "publishing"
      /\ Key(w) \in Keys /\ partial[Key(w)] \in Row
      /\ worker[w].token \in Tokens /\ Writes(w) /\ file[worker[w].token] = worker[w].result
  <2>1. /\ TypeOK /\ Sound(worker[w]) /\ worker[w] \in Worker /\ worker[w].phase = "publishing"
        /\ file[worker[w].token] = worker[w].result
    BY DEF IInv, TypeOK, Publish, PublishersAreReady
  <2>2. worker[w].token \in Tokens /\ worker[w].token # 0
    BY <2>1 DEF Sound, Worker
  <2> QED BY <2>1, <2>2, StateFacts DEF Writes, Closing, Key
<1>1. UNCHANGED <<text, issued, edits, cleanups, doomed>>
  BY DEF Publish, outside
<1>2. \A v \in Workers \ {w} : worker[v].token # worker[w].token
  BY <1>0, StateFacts DEF IInv, TokensAreIssued, Tokens
<1>3. CASE /\ partial' = [partial EXCEPT ![Key(w)] =
                [@ EXCEPT !.state = "succeeded", !.owner = 0, !.leased = FALSE,
                          !.path = worker[w].token]]
           /\ Goto(w, "done") /\ UNCHANGED file
  <2>1. /\ worker' \in [Workers -> Worker]
        /\ \A v \in Workers \ {w} : worker'[v] = worker[v]
        /\ worker'[w].phase = "done" /\ worker'[w].key = worker[w].key
        /\ worker'[w].token = worker[w].token /\ worker'[w].result = worker[w].result
        /\ worker'[w].read = worker[w].read
    BY <1>0, <1>3, GotoFacts DEF Phase
  <2> DEFINE row == [partial[Key(w)] EXCEPT !.state = "succeeded", !.owner = 0,
                       !.leased = FALSE, !.path = worker[w].token]
  <2>2. row \in Row /\ row.path = worker[w].token
    <3>1. PICK b \in BOOLEAN : b = FALSE
      OBVIOUS
    <3>2. LET r == [partial[Key(w)] EXCEPT !.state = "succeeded", !.owner = 0,
                      !.leased = b, !.path = worker[w].token]
          IN  r \in Row /\ r.path = worker[w].token
      BY <1>0 DEF Row
    <3> QED BY <3>1, <3>2
  <2>3. partial' = [partial EXCEPT ![Key(w)] = row]
    BY <1>0, <1>3 DEF TypeOK
  <2> HIDE DEF row
  <2>4. /\ partial' \in [Keys -> Row] /\ partial'[Key(w)].path = worker[w].token
        /\ \A k \in Keys \ {Key(w)} : partial'[k] = partial[k]
    BY <1>0, <2>2, <2>3 DEF TypeOK
  <2>5. TypeOK'
    BY <1>0, <1>1, <1>3, <2>1, <2>4 DEF TypeOK
  <2>6. Sound(worker'[w])
    BY <1>0, <2>1 DEF Sound, Closing
  <2>7. \A k \in Keys : partial[k].path # worker[w].token
    BY <1>0 DEF IInv, WritersAreAlone
  <2>8. TokensAreIssued'
    BY <1>0, <1>1, <2>1, <2>4 DEF IInv, TokensAreIssued
  <2>9. FilesAreOwned'
    BY <1>0, <1>1, <2>4, <2>7 DEF IInv, FilesAreOwned, WritersAreAlone
  <2>10. WritersAreAlone'
    BY <1>0, <1>1, <1>2, <2>1, <2>4 DEF IInv, WritersAreAlone, Writes, Closing
  <2>11. ReadersAreRight' /\ PublishersAreReady'
    BY <1>1, <1>3, <2>1 DEF IInv, ReadersAreRight, PublishersAreReady, Stored, Key
  <2>12. SucceededRow(Key(w))'
    <3>1. /\ Key(w)' = Key(w) /\ file' = file
      BY <1>3, <2>1 DEF Key
    <3>2. worker[w].result = Key(w).input /\ worker[w].result # NoResult
      BY <1>0, IdleFacts, StateFacts DEF Sound, Closing, Key, Keys
    <3> QED BY <1>0, <2>4, <3>1, <3>2 DEF SucceededRow, Stored
  <2>13. \A k \in Keys \ {Key(w)} : SucceededRow(k)'
    BY <1>3, <2>4 DEF IInv, SucceededRow, Stored
  <2>14. \A k \in Keys : SucceededRow(k)'
    <3>1. Key(w)' = Key(w)
      BY <2>1 DEF Key
    <3> QED BY <2>12, <2>13, <3>1
  <2> QED BY <2>1, <2>5, <2>6, <2>8, <2>9, <2>10, <2>11, <2>14 DEF IInv
<1>4. CASE /\ file' = [file EXCEPT ![worker[w].token] = NoResult]
           /\ Goto(w, "failing") /\ UNCHANGED partial
  <2>1. /\ worker' \in [Workers -> Worker]
        /\ \A v \in Workers \ {w} : worker'[v] = worker[v]
        /\ worker'[w].phase = "failing" /\ worker'[w].key = worker[w].key
        /\ worker'[w].token = worker[w].token /\ worker'[w].result = worker[w].result
        /\ worker'[w].read = worker[w].read
    BY <1>0, <1>4, GotoFacts DEF Phase
  <2>2. /\ file' \in [Tokens -> Result]
        /\ \A t \in Tokens \ {worker[w].token} : file'[t] = file[t]
    BY <1>0, <1>4, IdleFacts DEF TypeOK
  <2>3. TypeOK'
    BY <1>0, <1>1, <1>4, <2>1, <2>2 DEF TypeOK
  <2>4. Sound(worker'[w])
    BY <1>0, <2>1 DEF Sound, Closing
  <2>5. TokensAreIssued' /\ FilesAreOwned'
    BY <1>1, <1>4, <2>1 DEF IInv, TokensAreIssued, FilesAreOwned
  <2>6. \A v \in Workers : worker'[v].phase = "reading" => v # w
    BY <2>1
  <2>7. WritersAreAlone'
    BY <1>0, <1>1, <1>4, <2>1, <2>6 DEF IInv, WritersAreAlone, Writes, Closing
  <2>8. ReadersAreRight'
    <3> SUFFICES ASSUME NEW v \in Workers, worker'[v].phase = "reading"
                 PROVE  /\ worker'[v].path \in Tokens /\ worker'[v].path <= issued
                        /\ file'[worker'[v].path] # NoResult =>
                             file'[worker'[v].path] = worker'[v].key.input
      BY <1>1 DEF ReadersAreRight, Stored, Key
    <3>1. v # w /\ worker'[v] = worker[v]
      BY <2>1
    <3>2. worker[v].path # worker[w].token
      BY <1>0, <3>1 DEF IInv, WritersAreAlone
    <3>3. /\ worker[v].path \in Tokens /\ worker[v].path <= issued
          /\ file[worker[v].path] # NoResult => file[worker[v].path] = worker[v].key.input
      BY <3>1 DEF IInv, ReadersAreRight, Stored, Key
    <3>4. file'[worker[v].path] = file[worker[v].path]
      BY <2>2, <3>2, <3>3
    <3> QED BY <3>1, <3>3, <3>4
  <2>9. PublishersAreReady'
    <3>1. \A v \in Workers \ {w} : worker[v].phase = "publishing" =>
            worker[v].token \in Tokens \ {worker[w].token}
      BY <1>2, StateFacts DEF IInv, Sound, Worker
    <3> QED BY <2>1, <2>2, <3>1 DEF IInv, PublishersAreReady
  <2>10. \A k \in Keys : SucceededRow(k)'
    BY <1>0, <1>4, <2>2 DEF IInv, SucceededRow, WritersAreAlone, Stored
  <2> QED BY <2>1, <2>3, <2>4, <2>5, <2>7, <2>8, <2>9, <2>10 DEF IInv
<1> QED BY <1>3, <1>4 DEF Publish, FileName

-----------------------------------------------------------------------------
(* The steps beside the workers *)

LEMMA EditKeeps ==
  ASSUME IInv, Edit
  PROVE  IInv'
<1>1. TypeOK'
  BY BoundAssumption DEF IInv, TypeOK, Edit
<1>2. \A v \in Workers : QuietMove(v)
  BY DEF Edit, QuietMove, IInv
<1>3. \A k \in Keys : QuietRow(k)
  BY DEF Edit, QuietRow
<1> QED BY <1>1, <1>2, <1>3, QuietStep DEF Edit

LEMMA CrashKeeps ==
  ASSUME IInv, Crash
  PROVE  IInv'
<1>1. Idle \in Worker /\ \A v \in Workers : worker'[v] = Idle
  BY IdleFacts DEF Crash
<1>2. TypeOK'
  <2> HIDE DEF Idle
  <2> QED BY <1>1 DEF IInv, TypeOK, Crash, outside
<1>3. \A v \in Workers : QuietMove(v)
  BY <1>1, IdleFacts DEF QuietMove
<1>4. \A k \in Keys : QuietRow(k)
  BY DEF Crash, QuietRow
<1> QED BY <1>2, <1>3, <1>4, QuietStep DEF Crash, outside

LEMMA LeaseExpiresKeeps ==
  ASSUME IInv, NEW k \in Keys, LeaseExpires(k)
  PROVE  IInv'
<1>0. TypeOK /\ partial[k] \in Row
  BY DEF IInv, TypeOK
<1>1. PICK b \in BOOLEAN : partial' = [partial EXCEPT ![k].leased = b]
  BY DEF LeaseExpires
<1> DEFINE row == [partial[k] EXCEPT !.leased = b]
<1>2. row \in Row /\ row.path = partial[k].path /\ row.state = "running"
  BY <1>0 DEF Row, LeaseExpires
<1>3. partial' = [partial EXCEPT ![k] = row]
  BY <1>0, <1>1 DEF TypeOK
<1> HIDE DEF row
<1>4. partial' \in [Keys -> Row] /\ \A l \in Keys : QuietRow(l)
  BY <1>0, <1>2, <1>3, OneRow
<1>5. \A v \in Workers : QuietMove(v)
  BY DEF LeaseExpires, QuietMove, IInv
<1>6. TypeOK'
  BY <1>0, <1>4 DEF LeaseExpires, TypeOK, outside
<1> QED BY <1>4, <1>5, <1>6, QuietStep DEF LeaseExpires, outside

LEMMA RetainKeeps ==
  ASSUME IInv, Retain
  PROVE  IInv'
<1>0. TypeOK
  BY DEF IInv
<1> DEFINE Freed(k) ==
             [partial[k] EXCEPT !.state = "stale", !.owner = 0, !.leased = FALSE, !.path = 0]
<1>1. PICK gone \in SUBSET Keys :
        /\ partial' = [k \in Keys |-> IF k \in gone THEN Freed(k) ELSE partial[k]]
        /\ doomed' = doomed \cup ({partial[k].path : k \in gone} \ {0})
  BY DEF Retain
<1>2. UNCHANGED <<text, file, worker, issued, edits>>
  BY DEF Retain
<1>3. \A k \in Keys : Freed(k) \in Row /\ Freed(k).path = 0 /\ Freed(k).state = "stale"
  <2>1. PICK b \in BOOLEAN : b = FALSE
    OBVIOUS
  <2>2. \A k \in Keys :
          LET r == [partial[k] EXCEPT !.state = "stale", !.owner = 0, !.leased = b, !.path = 0]
          IN  r \in Row /\ r.path = 0 /\ r.state = "stale"
    BY ZenonT(40), <1>0 DEF TypeOK, Row
  <2> QED BY <2>1, <2>2
<1> HIDE DEF Freed
<1>4. /\ partial' \in [Keys -> Row]
      /\ \A k \in gone : partial'[k].path = 0 /\ partial'[k].state = "stale"
      /\ \A k \in Keys \ gone : partial'[k] = partial[k]
  BY <1>0, <1>1, <1>3 DEF TypeOK
<1>5. \A t \in doomed' : t \in doomed \/ (t # 0 /\ \E k \in gone : t = partial[k].path)
  BY <1>1
<1>6. cleanups' \in 0 .. MaxCleanups
  <2>1. cleanups < MaxCleanups /\ cleanups' = cleanups + 1
    BY DEF Retain
  <2> QED BY <1>0, <2>1, BoundAssumption DEF TypeOK
<1>7. doomed' \subseteq Tokens
  <2>1. \A k \in gone : partial[k].path \in Tokens \cup {0}
    BY <1>0 DEF TypeOK, Row
  <2> QED BY <1>0, <1>5, <2>1 DEF TypeOK
<1>8. TypeOK'
  BY <1>0, <1>2, <1>4, <1>6, <1>7 DEF TypeOK
<1>9. TokensAreIssued'
  <2>1. 0 <= issued
    BY <1>0, StateFacts
  <2> QED BY <1>2, <1>4, <1>5, <2>1 DEF IInv, TokensAreIssued
<1>10. FilesAreOwned'
  <2>1. \A k, l \in Keys : partial'[k].path # 0 /\ partial'[k].path = partial'[l].path => k = l
    BY <1>4 DEF IInv, FilesAreOwned
  <2>2. \A k \in Keys : partial'[k].path \notin doomed'
    <3> SUFFICES ASSUME NEW k \in Keys, partial'[k].path \in doomed' PROVE FALSE
      OBVIOUS
    <3>1. CASE k \in gone
      BY <1>4, <1>7, <3>1 DEF Tokens
    <3>2. CASE k \notin gone
      <4>1. partial'[k].path = partial[k].path /\ partial[k].path \notin doomed
        BY <1>4, <3>2 DEF IInv, FilesAreOwned
      <4>2. PICK l \in gone : partial[k].path = partial[l].path /\ partial[k].path # 0
        BY <1>5, <4>1
      <4> QED BY <3>2, <4>2 DEF IInv, FilesAreOwned
    <3> QED BY <3>1, <3>2
  <2> QED BY <2>1, <2>2 DEF FilesAreOwned
<1>11. WritersAreAlone'
  <2> SUFFICES ASSUME NEW w \in Workers, Writes(w)
               PROVE  /\ \A k \in Keys : partial'[k].path # worker[w].token
                      /\ worker[w].token \notin doomed'
                      /\ \A v \in Workers : worker[v].phase = "reading"
                                              => worker[v].path # worker[w].token
    BY <1>2 DEF WritersAreAlone, Writes
  <2>1. /\ \A k \in Keys : partial[k].path # worker[w].token
        /\ worker[w].token \notin doomed /\ worker[w].token # 0
        /\ \A v \in Workers : worker[v].phase = "reading" => worker[v].path # worker[w].token
    BY DEF IInv, WritersAreAlone, Writes
  <2> QED BY <1>4, <1>5, <2>1
<1>12. ReadersAreRight' /\ PublishersAreReady'
  BY <1>2 DEF IInv, ReadersAreRight, PublishersAreReady, Stored, Key
<1>13. \A k \in Keys : SucceededRow(k)'
  BY <1>2, <1>4 DEF IInv, SucceededRow, Stored
<1> QED BY <1>2, <1>8, <1>9, <1>10, <1>11, <1>12, <1>13 DEF IInv

LEMMA RemoveFileKeeps ==
  ASSUME IInv, NEW t \in Tokens, RemoveFile(t)
  PROVE  IInv'
<1>0. TypeOK /\ t \in doomed
  BY DEF IInv, RemoveFile
<1>1. UNCHANGED <<text, partial, worker, issued, edits, cleanups>> /\ doomed' = doomed \ {t}
  BY DEF RemoveFile
<1>2. /\ file' \in [Tokens -> Result] /\ file'[t] = NoResult
      /\ \A u \in Tokens \ {t} : file'[u] = file[u]
  BY <1>0, IdleFacts DEF TypeOK, RemoveFile
<1>3. TypeOK'
  BY <1>0, <1>1, <1>2 DEF TypeOK
<1>4. TokensAreIssued' /\ FilesAreOwned' /\ WritersAreAlone'
  BY <1>1 DEF IInv, TokensAreIssued, FilesAreOwned, WritersAreAlone, Writes
<1>5. ReadersAreRight'
  BY <1>1, <1>2, IdleFacts DEF IInv, ReadersAreRight, Stored, Key
<1>6. PublishersAreReady'
  <2>1. \A w \in Workers : worker[w].phase = "publishing" => worker[w].token \in Tokens \ {t}
    BY <1>0, StateFacts DEF IInv, Sound, WritersAreAlone, Writes, Worker, Closing
  <2> QED BY <1>1, <1>2, <2>1 DEF IInv, PublishersAreReady
<1>7. \A k \in Keys : SucceededRow(k)'
  BY <1>0, <1>1, <1>2 DEF IInv, SucceededRow, FilesAreOwned, Stored
<1> QED BY <1>1, <1>3, <1>4, <1>5, <1>6, <1>7 DEF IInv

-----------------------------------------------------------------------------
LEMMA IInvInit ==
  ASSUME Init
  PROVE  IInv
<1>1. NoRow \in Row /\ NoRow.path = 0 /\ NoRow.state = "absent"
  BY DEF NoRow, Row
<1>2. \A k \in Keys : partial[k] = NoRow
  BY DEF Init
<1>3. \A w \in Workers : worker[w] = Idle
  BY DEF Init
<1>4. TypeOK
  <2> HIDE DEF Idle, NoRow, NoResult
  <2> QED BY <1>1, IdleFacts, TextAssumption, BoundAssumption DEF Init, TypeOK
<1>5. TokensAreIssued /\ FilesAreOwned
  BY <1>1, <1>2, <1>3, IdleFacts DEF Init, TokensAreIssued, FilesAreOwned
<1>6. WritersAreAlone /\ ReadersAreRight /\ PublishersAreReady
  BY <1>3, IdleFacts DEF WritersAreAlone, Writes, ReadersAreRight, PublishersAreReady
<1>7. \A k \in Keys : SucceededRow(k)
  BY <1>1, <1>2 DEF SucceededRow
<1> QED BY <1>3, <1>4, <1>5, <1>6, <1>7, IdleFacts DEF IInv

LEMMA IInvStep ==
  ASSUME IInv, [Next]_vars
  PROVE  IInv'
<1>1. ASSUME NEW w \in Workers, Work(w) PROVE IInv'
  BY <1>1, StartKeeps, LookKeeps, ReadKeeps, DiscardKeeps, ClaimKeeps, RequestKeeps, StoreKeeps,
     PublishKeeps, FailKeeps DEF Work
<1>2. CASE UNCHANGED vars
  BY <1>2 DEF vars, IInv, TypeOK, Sound, TokensAreIssued, FilesAreOwned, WritersAreAlone, Writes,
              ReadersAreRight, PublishersAreReady, SucceededRow, Stored, Key
<1> QED BY <1>1, <1>2, EditKeeps, CrashKeeps, RetainKeeps, LeaseExpiresKeeps, RemoveFileKeeps
        DEF Next

LEMMA Inductive == Spec => []IInv
BY IInvInit, IInvStep, PTL DEF Spec

\* The shape of the state: the budgets of requests and retries are kept, a token
\* is issued once for every claim, whatever the workers, crashes and cleanups do.
THEOREM TypeCorrect == Spec => []TypeOK
<1>1. IInv => TypeOK
  BY DEF IInv
<1> QED BY <1>1, Inductive, PTL

\* Whatever an analysis takes over - its own answer, the row of another analysis,
\* or the file of a claim a crash ended - was made from the text of the chunk it
\* read itself (analysis_partials.reuse, publish).
THEOREM ResultsAreOfTheirInput == Spec => []ResultIsOfItsInput
<1>1. IInv => ResultIsOfItsInput
  BY DEF IInv, Sound, ResultIsOfItsInput, Closing, Key
<1> QED BY <1>1, Inductive, PTL

\* A row that succeeded has its file, made from the text of its key, though the
\* losers of publications and the retention remove files at any time.
THEOREM SucceededRowsHaveTheirFile == Spec => []SucceededHasItsFile
<1>1. IInv => SucceededHasItsFile
  BY DEF IInv, SucceededRow, SucceededHasItsFile
<1> QED BY <1>1, Inductive, PTL
=============================================================================
