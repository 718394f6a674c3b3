----------------------- MODULE GenerationQueueProofs -----------------------
(***************************************************************************)
(* Theorems about GenerationQueue, for every set of jobs, consumers and     *)
(* processes and every capacity and bound.                                  *)
(***************************************************************************)
EXTENDS GenerationQueue, FiniteSetTheorems, SequenceTheorems, TLAPS

-----------------------------------------------------------------------------
(* Rows and histories *)

\* Every operator that rewrites a row of generation_jobs returns a row.
LEMMA RowOperators ==
  ASSUME NEW row \in Row
  PROVE  /\ StaleRow(row) \in Row
         /\ PromotedRow(row) \in Row
         /\ \A p \in Processes, token \in Nat : ClaimedRow(row, p, token) \in Row
         /\ \A next \in {"null", "future", "due"} : RequeuedRow(row, next) \in Row
         /\ RecoveredRow(row) \in Row
         /\ RetriedRow(row) \in Row
         /\ BlankRow \in Row
         /\ DeletedRow \in Row
<1>1. StaleRow(row) \in Row /\ PromotedRow(row) \in Row
  BY DEF StaleRow, PromotedRow, Row, Status, Terminal
<1>2. ASSUME NEW p \in Processes, NEW token \in Nat
      PROVE  ClaimedRow(row, p, token) \in Row
  <2>1. row.attempts + 1 \in Nat
    BY DEF Row
  <2> QED BY <2>1 DEF ClaimedRow, Row, Status, Terminal
<1>3. ASSUME NEW next \in {"null", "future", "due"}
      PROVE  RequeuedRow(row, next) \in Row
  BY DEF RequeuedRow, Row, Status, Terminal
<1>4. RecoveredRow(row) \in Row
  <2>1. RequeuedRow(row, "due") \in Row
    BY <1>3
  <2>2. [row EXCEPT !.status = "failed", !.lease = "null", !.category = "none"] \in Row
    BY DEF Row, Status, Terminal
  <2> QED BY <2>1, <2>2 DEF RecoveredRow
<1>5. RetriedRow(row) \in Row
  BY DEF RetriedRow, Row, Status, Terminal
<1>6. BlankRow \in Row /\ DeletedRow \in Row
  BY DEF BlankRow, DeletedRow, Row, Status, Terminal
<1> QED BY <1>1, <1>2, <1>3, <1>4, <1>5, <1>6

\* Overwriting one outcome keeps a history a history of the same length.
LEMMA HistoryUpdate ==
  ASSUME NEW h \in Seq(Outcome), NEW n \in DOMAIN h, NEW outcome \in Outcome
  PROVE  LET g == [h EXCEPT ![n] = outcome] IN
         /\ g \in Seq(Outcome)
         /\ Len(g) = Len(h)
         /\ DOMAIN g = DOMAIN h
         /\ g[n] = outcome
         /\ \A m \in DOMAIN h : m # n => g[m] = h[m]
BY DEF Outcome

\* Closing an attempt rewrites at most that entry, never one that has an
\* outcome, and leaves it closed.
LEMMA CloseAttemptFacts ==
  ASSUME attempts \in [Jobs -> Seq(Outcome)],
         NEW j \in Jobs, NEW n \in Nat, NEW outcome \in Outcome \ {"running"},
         CloseAttempt(j, n, outcome)
  PROVE  /\ attempts' \in [Jobs -> Seq(Outcome)]
         /\ \A i \in Jobs : /\ Len(attempts'[i]) = Len(attempts[i])
                            /\ DOMAIN attempts'[i] = DOMAIN attempts[i]
         /\ \A i \in Jobs : \A m \in DOMAIN attempts[i] :
              /\ attempts[i][m] # "running" => attempts'[i][m] = attempts[i][m]
              /\ i # j \/ m # n => attempts'[i][m] = attempts[i][m]
         /\ n \in DOMAIN attempts[j] => attempts'[j][n] # "running"
<1>1. CASE n \in DOMAIN attempts[j] /\ attempts[j][n] = "running"
  <2> DEFINE h == [attempts[j] EXCEPT ![n] = outcome]
  <2>1. attempts' = [attempts EXCEPT ![j] = h]
    BY <1>1 DEF CloseAttempt
  <2>2. /\ h \in Seq(Outcome) /\ Len(h) = Len(attempts[j])
        /\ DOMAIN h = DOMAIN attempts[j] /\ h[n] = outcome
        /\ \A m \in DOMAIN attempts[j] : m # n => h[m] = attempts[j][m]
    BY <1>1, HistoryUpdate
  <2> HIDE DEF h
  <2> QED BY <1>1, <2>1, <2>2
<1>2. CASE ~(n \in DOMAIN attempts[j] /\ attempts[j][n] = "running")
  BY <1>2 DEF CloseAttempt
<1> QED BY <1>1, <1>2

\* finalize_generation_job either does nothing or, under the token, ends the row
\* and closes the attempt.
LEMMA FinalizeFacts ==
  ASSUME TypeOK, NEW c \in Consumers, consumer[c].job \in Jobs,
         NEW outcome \in Terminal, Finalize(c, outcome)
  PROVE  \/ UNCHANGED rows
         \/ /\ Owns(c)
            /\ \E row \in Row :
                 /\ job' = [job EXCEPT ![consumer[c].job] = row]
                 /\ row = [job[consumer[c].job] EXCEPT !.status = row.status,
                              !.lease = "null", !.category = row.category]
                 /\ row.status = FinalOutcome(consumer[c].job, outcome)
            /\ \E final \in Terminal :
                 /\ final = FinalOutcome(consumer[c].job, outcome)
                 /\ CloseAttempt(consumer[c].job, consumer[c].token, final)
<1> DEFINE j == consumer[c].job
           final == FinalOutcome(j, outcome)
           category == IF outcome = "failed" /\ consumer[c].error = "source_changed"
                       THEN "source_changed" ELSE "none"
           row == [job[j] EXCEPT !.status = final, !.lease = "null", !.category = category]
<1>1. CASE ~Owns(c)
  BY <1>1 DEF Finalize
<1>2. CASE Owns(c)
  <2>1. final \in Terminal
    BY DEF FinalOutcome, Terminal
  <2>2. job[j] \in Row
    BY DEF TypeOK
  <2>3. row \in Row
    BY <2>1, <2>2 DEF Row, Status
  <2>4. row.status = final /\ row.category = category
    BY <2>2 DEF Row
  <2>5. job' = [job EXCEPT ![j] = row]
    BY <1>2 DEF Finalize
  <2>6. CloseAttempt(j, consumer[c].token, final)
    BY <1>2 DEF Finalize
  <2> QED BY <1>2, <2>1, <2>3, <2>4, <2>5, <2>6
<1> QED BY <1>1, <1>2

-----------------------------------------------------------------------------
(* Type correctness *)

\* A consumer that is not idle works on a job.
ActiveHasJob ==
  \A c \in Consumers : consumer[c].phase # "idle" \/ consumer[c].heart
                         => consumer[c].job \in Jobs

Typed == TypeOK /\ ActiveHasJob

LEMMA TypedInit == Init => Typed
<1> SUFFICES ASSUME Init PROVE Typed
  OBVIOUS
<1>1. BlankRow \in Row
  BY DEF BlankRow, Row, Status, Terminal
<1>2. <<>> \in Seq(Outcome)
  OBVIOUS
<1>3. Idle \in Consumer
  BY DEF Idle, Consumer, Phase, Error
<1> QED BY <1>1, <1>2, <1>3 DEF Init, Typed, TypeOK, ActiveHasJob, Idle

\* The steps of a consumer on its local state keep it typed and on a job.
LEMMA LocalSteps ==
  ASSUME Typed, NEW c \in Consumers, consumer[c].phase # "idle",
         \/ \E phase \in Phase \ {"idle"} : Goto(c, phase)
         \/ \E error \in Error : Raise(c, error)
         \/ Rest(c)
         \/ consumer' = [consumer EXCEPT ![c].heart = FALSE]
  PROVE  consumer' \in [Consumers -> Consumer] /\ ActiveHasJob'
<1>0. consumer[c] \in Consumer /\ consumer[c].job \in Jobs
  BY DEF Typed, TypeOK, ActiveHasJob
<1>1. ASSUME NEW next \in Consumer, next.phase # "idle" \/ next.heart => next.job \in Jobs,
             consumer' = [consumer EXCEPT ![c] = next]
      PROVE  consumer' \in [Consumers -> Consumer] /\ ActiveHasJob'
  BY <1>1 DEF Typed, TypeOK, ActiveHasJob
<1>2. CASE \E phase \in Phase \ {"idle"} : Goto(c, phase)
  <2>1. PICK phase \in Phase : consumer' = [consumer EXCEPT ![c] = [@ EXCEPT !.phase = phase]]
    BY <1>2 DEF Goto
  <2>2. [consumer[c] EXCEPT !.phase = phase] \in Consumer
    BY <1>0 DEF Consumer
  <2>3. [consumer[c] EXCEPT !.phase = phase].job = consumer[c].job
    BY <1>0 DEF Consumer
  <2> QED BY <1>0, <1>1, <2>1, <2>2, <2>3
<1>3. CASE \E error \in Error : Raise(c, error)
  <2>1. PICK error \in Error :
          consumer' = [consumer EXCEPT ![c] = [@ EXCEPT !.phase = "caught", !.error = error]]
    BY <1>3 DEF Raise
  <2>2. [consumer[c] EXCEPT !.phase = "caught", !.error = error] \in Consumer
    BY <1>0 DEF Consumer, Phase
  <2>3. [consumer[c] EXCEPT !.phase = "caught", !.error = error].job = consumer[c].job
    BY <1>0 DEF Consumer
  <2> QED BY <1>0, <1>1, <2>1, <2>2, <2>3
<1>4. CASE Rest(c)
  <2>1. Idle \in Consumer /\ Idle.phase = "idle" /\ ~Idle.heart
    BY DEF Idle, Consumer, Phase, Error
  <2> QED BY <1>1, <1>4, <2>1 DEF Rest
<1>5. CASE consumer' = [consumer EXCEPT ![c].heart = FALSE]
  <2>1. consumer' = [consumer EXCEPT ![c] = [@ EXCEPT !.heart = FALSE]]
    BY <1>5
  <2>2. [consumer[c] EXCEPT !.heart = FALSE] \in Consumer
    BY <1>0 DEF Consumer
  <2>3. [consumer[c] EXCEPT !.heart = FALSE].job = consumer[c].job
    BY <1>0 DEF Consumer
  <2> QED BY <1>0, <1>1, <2>1, <2>2, <2>3
<1> QED BY <1>2, <1>3, <1>4, <1>5

LEMMA ClaimTyped ==
  ASSUME Typed, NEW c \in Consumers, Claim(c)
  PROVE  Typed'
<1> USE DEF Typed
<1>1. PICK j \in Scanned(ConsumerOf[c]) :
        /\ job' = [i \in Jobs |-> RowAfterClaim(i, j, ProcessOf[c])]
        /\ attempts' = [attempts EXCEPT ![j] = Append(@, "running")]
        /\ consumer' = [consumer EXCEPT ![c] =
             [phase |-> "claimed", job |-> j, token |-> Len(attempts[j]) + 1,
              tries |-> job[j].attempts + 1, error |-> "none", heart |-> TRUE]]
  BY DEF Claim
<1>2. j \in Jobs
  BY DEF Scanned, Candidate
<1>3. Len(attempts[j]) + 1 \in Nat /\ job[j].attempts + 1 \in Nat
  BY <1>2 DEF TypeOK, Row
<1>4. ProcessOf[c] \in Processes
  BY ConsumerAssumption
<1>5. \A i \in Jobs : job[i] \in Row
  BY DEF TypeOK
<1>6. job' \in [Jobs -> Row]
  <2>1. RowAfterClaim(j, j, ProcessOf[c]) \in Row
    BY <1>2, <1>3, <1>4, <1>5, RowOperators DEF RowAfterClaim
  <2>2. ASSUME NEW i \in Jobs, i # j
        PROVE  RowAfterClaim(i, j, ProcessOf[c]) \in Row
    <3>1. StaleRow(job[i]) \in Row /\ PromotedRow(job[i]) \in Row /\ job[i] \in Row
      BY <1>3, <1>4, <1>5, RowOperators
    <3> QED BY <2>2, <3>1 DEF RowAfterClaim
  <2> QED BY <1>1, <2>1, <2>2
<1>7. attempts' \in [Jobs -> Seq(Outcome)]
  <2>1. Append(attempts[j], "running") \in Seq(Outcome)
    BY <1>2 DEF TypeOK, Outcome
  <2> QED BY <1>1, <2>1 DEF TypeOK
<1>8. consumer' \in [Consumers -> Consumer] /\ ActiveHasJob'
  <2>1. [phase |-> "claimed", job |-> j, token |-> Len(attempts[j]) + 1,
         tries |-> job[j].attempts + 1, error |-> "none", heart |-> TRUE] \in Consumer
    BY <1>2, <1>3 DEF Consumer, Phase, Error
  <2> QED BY <1>1, <1>2, <2>1 DEF TypeOK, ActiveHasJob
<1> QED BY <1>6, <1>7, <1>8 DEF Claim, TypeOK, world

LEMMA FinalizeTyped ==
  ASSUME Typed, NEW c \in Consumers, NEW phase \in Phase \ {"idle"},
         NEW outcome \in Terminal, FinalizeFrom(c, phase, outcome)
  PROVE  Typed'
<1> USE DEF Typed
<1>1. consumer[c].job \in Jobs /\ consumer[c].token \in Nat
  BY DEF FinalizeFrom, ActiveHasJob, TypeOK, Consumer
<1>2. consumer' \in [Consumers -> Consumer] /\ ActiveHasJob'
  BY LocalSteps DEF FinalizeFrom
<1>3. job' \in [Jobs -> Row] /\ attempts' \in [Jobs -> Seq(Outcome)]
  <2>1. CASE UNCHANGED rows
    BY <2>1 DEF rows, TypeOK
  <2>2. CASE /\ \E row \in Row : job' = [job EXCEPT ![consumer[c].job] = row]
             /\ \E final \in Terminal :
                  CloseAttempt(consumer[c].job, consumer[c].token, final)
    <3>1. job' \in [Jobs -> Row]
      BY <1>1, <2>2 DEF TypeOK
    <3>2. attempts' \in [Jobs -> Seq(Outcome)]
      <4>1. PICK final \in Terminal :
              CloseAttempt(consumer[c].job, consumer[c].token, final)
        BY <2>2
      <4>2. final \in Outcome \ {"running"}
        BY DEF Outcome, Terminal
      <4> QED BY <1>1, <4>1, <4>2, CloseAttemptFacts DEF TypeOK
    <3> QED BY <3>1, <3>2
  <2> QED BY <1>1, <2>1, <2>2, FinalizeFacts DEF FinalizeFrom
<1> QED BY <1>2, <1>3 DEF FinalizeFrom, TypeOK, world

LEMMA TypedStep ==
  ASSUME Typed, [Next]_vars
  PROVE  Typed'
<1> USE DEF Typed
<1>0. \A i \in Jobs : job[i] \in Row
  BY DEF TypeOK
<1>1. ASSUME NEW c \in Consumers, ConsumerStep(c) PROVE Typed'
  <2>1. CASE Claim(c)
    BY <2>1, ClaimTyped
  <2>2. CASE Begin(c)
    <3>1. consumer' \in [Consumers -> Consumer] /\ ActiveHasJob'
      <4>1. \/ \E phase \in Phase \ {"idle"} : Goto(c, phase)
            \/ \E error \in Error : Raise(c, error)
        BY <2>2 DEF Begin, Phase, Error
      <4> QED BY <2>2, <4>1, LocalSteps DEF Begin
    <3> QED BY <2>2, <3>1 DEF Begin, TypeOK, rows, world
  <2>3. CASE Execute(c)
    <3>1. consumer' \in [Consumers -> Consumer] /\ ActiveHasJob'
      <4>1. \/ \E phase \in Phase \ {"idle"} : Goto(c, phase)
            \/ \E error \in Error : Raise(c, error)
        BY <2>3 DEF Execute, Phase, Error
      <4> QED BY <2>3, <4>1, LocalSteps DEF Execute
    <3> QED BY <2>3, <3>1 DEF Execute, TypeOK, rows, world
  <2>4. CASE Decide(c)
    <3>1. consumer' \in [Consumers -> Consumer] /\ ActiveHasJob'
      <4>1. (\E phase \in Phase \ {"idle"} : Goto(c, phase)) \/ Rest(c)
        BY <2>4 DEF Decide, Phase
      <4> QED BY <2>4, <4>1, LocalSteps DEF Decide
    <3> QED BY <2>4, <3>1 DEF Decide, TypeOK, rows, world
  <2>5. CASE Finish(c)
    BY <2>5, FinalizeTyped DEF Finish, Phase, Terminal
  <2>6. CASE Fail(c)
    BY <2>6, FinalizeTyped DEF Fail, Phase, Terminal
  <2>7. CASE AcknowledgeCancel(c)
    BY <2>7, FinalizeTyped DEF AcknowledgeCancel, Phase, Terminal
  <2>8. CASE ScheduleRetry(c)
    <3>1. consumer' \in [Consumers -> Consumer] /\ ActiveHasJob'
      BY <2>8, LocalSteps DEF ScheduleRetry, Phase
    <3>2. consumer[c].job \in Jobs /\ consumer[c].token \in Nat
      BY <2>8 DEF ScheduleRetry, ActiveHasJob, TypeOK, Consumer
    <3>3. attempts' \in [Jobs -> Seq(Outcome)]
      BY <2>8, <3>2, CloseAttemptFacts DEF ScheduleRetry, TypeOK, Outcome
    <3> QED BY <2>8, <3>1, <3>3 DEF ScheduleRetry, TypeOK, world
  <2>9. CASE Requeue(c)
    <3>1. consumer' \in [Consumers -> Consumer] /\ ActiveHasJob'
      BY <2>9, LocalSteps DEF Requeue
    <3>2. job' \in [Jobs -> Row]
      <4>1. \A i \in Jobs : RequeuedRow(job[i], "future") \in Row
        BY <1>0, RowOperators
      <4> QED BY <2>9, <4>1 DEF Requeue, TypeOK
    <3> QED BY <2>9, <3>1, <3>2 DEF Requeue, TypeOK, world
  <2> QED BY <1>1, <2>1, <2>2, <2>3, <2>4, <2>5, <2>6, <2>7, <2>8, <2>9 DEF ConsumerStep
<1>2. ASSUME NEW c \in Consumers, Drop(c) PROVE Typed'
  <2>1. consumer' \in [Consumers -> Consumer] /\ ActiveHasJob'
    BY <1>2, LocalSteps DEF Drop
  <2> QED BY <1>2, <2>1 DEF Drop, TypeOK, rows, world
<1>3. ASSUME NEW c \in Consumers, Heartbeat(c) PROVE Typed'
  <2>1. CASE /\ job' = [job EXCEPT ![consumer[c].job].lease = "fresh"]
             /\ UNCHANGED consumer
    <3>1. \A i \in Jobs : [job[i] EXCEPT !.lease = "fresh"] \in Row
      BY <1>0 DEF Row
    <3>2. job' \in [Jobs -> Row]
      BY <2>1, <3>1 DEF TypeOK
    <3> QED BY <1>3, <2>1, <3>2 DEF Heartbeat, TypeOK, ActiveHasJob, world
  <2>2. CASE /\ consumer' = [consumer EXCEPT ![c].heart = FALSE]
             /\ UNCHANGED job
    <3>1. \A d \in Consumers : consumer'[d] \in Consumer
      BY <2>2 DEF TypeOK, Consumer
    <3>2. \A d \in Consumers : consumer'[d].job = consumer[d].job
                               /\ consumer'[d].phase = consumer[d].phase
                               /\ (consumer'[d].heart => consumer[d].heart)
      BY <2>2 DEF TypeOK, Consumer
    <3>3. consumer' \in [Consumers -> Consumer]
      BY <2>2, <3>1 DEF TypeOK
    <3> QED BY <1>3, <2>2, <3>2, <3>3 DEF Heartbeat, TypeOK, ActiveHasJob, world
  <2> QED BY <1>3, <2>1, <2>2 DEF Heartbeat
<1>4. ASSUME NEW j \in Jobs, Create(j) PROVE Typed'
  <2>1. ASSUME NEW h \in Revisions \cup {NoChapter}, NEW st \in {"waiting_dependency", "pending"}
        PROVE  [job[j] EXCEPT !.status = st, !.hash = h] \in Row
    BY <1>0 DEF Row, Status
  <2>2. (IF Chapter[j] = NoChapter THEN NoChapter ELSE text[Chapter[j]])
          \in Revisions \cup {NoChapter}
    BY KindAssumption DEF TypeOK
  <2>3. job' \in [Jobs -> Row]
    BY <1>4, <2>1, <2>2 DEF Create, TypeOK
  <2> QED BY <1>4, <2>3 DEF Create, TypeOK, ActiveHasJob, world
<1>5. ASSUME NEW j \in Jobs, OperatorStep(j) PROVE Typed'
  <2>1. CASE RequestCancel(j)
    <3>1. /\ [job[j] EXCEPT !.status = "cancelled", !.cancel = TRUE, !.next = "null"] \in Row
          /\ [job[j] EXCEPT !.cancel = TRUE] \in Row
      BY <1>0 DEF Row, Status, Terminal
    <3>2. job' \in [Jobs -> Row]
      BY <2>1, <3>1 DEF RequestCancel, TypeOK
    <3> QED BY <2>1, <3>2 DEF RequestCancel, TypeOK, ActiveHasJob, world
  <2>2. CASE CancelAnalysis(j)
    <3>1. [job[j] EXCEPT !.status = "cancelled"] \in Row
      BY <1>0 DEF Row, Status, Terminal
    <3>2. job' \in [Jobs -> Row]
      BY <2>2, <3>1 DEF CancelAnalysis, TypeOK
    <3> QED BY <2>2, <3>2 DEF CancelAnalysis, TypeOK, ActiveHasJob, world
  <2>3. CASE Retry(j)
    <3>1. RetriedRow(job[j]) \in Row
      BY <1>0, RowOperators
    <3>2. job' \in [Jobs -> Row]
      BY <2>3, <3>1 DEF Retry, TypeOK
    <3> QED BY <2>3, <3>2 DEF Retry, TypeOK, ActiveHasJob, world
  <2>4. CASE CheckDelete(j)
    BY <2>4 DEF CheckDelete, TypeOK, ActiveHasJob, rows, world
  <2>5. CASE Delete(j)
    <3>1. DeletedRow \in Row
      BY <1>0, RowOperators
    <3>2. job' \in [Jobs -> Row] /\ attempts' \in [Jobs -> Seq(Outcome)]
      BY <2>5, <3>1 DEF Delete, TypeOK
    <3> QED BY <2>5, <3>2 DEF Delete, TypeOK, ActiveHasJob, world
  <2> QED BY <1>5, <2>1, <2>2, <2>3, <2>4, <2>5 DEF OperatorStep
<1>6. ASSUME NEW j \in Jobs, LeaseExpires(j) \/ BecomesDue(j) PROVE Typed'
  <2>1. [job[j] EXCEPT !.lease = "expired"] \in Row /\ [job[j] EXCEPT !.next = "due"] \in Row
    BY <1>0 DEF Row
  <2>2. job' \in [Jobs -> Row]
    BY <1>6, <2>1 DEF LeaseExpires, BecomesDue, TypeOK
  <2> QED BY <1>6, <2>2 DEF LeaseExpires, BecomesDue, TypeOK, ActiveHasJob, world
<1>7. ASSUME NEW p \in Processes, Crash(p) PROVE Typed'
  <2>1. Idle \in Consumer
    BY DEF Idle, Consumer, Phase, Error
  <2>2. consumer' \in [Consumers -> Consumer] /\ ActiveHasJob'
    BY <1>7, <2>1 DEF Crash, TypeOK, ActiveHasJob, Idle
  <2>3. \A i \in Jobs : [job[i] EXCEPT !.owner = DeadProcess] \in Row
    BY <1>0 DEF Row
  <2>4. job' \in [Jobs -> Row]
    BY <1>0, <1>7, <2>3 DEF Crash
  <2> QED BY <1>7, <2>2, <2>4 DEF Crash, TypeOK, world
<1>8. ASSUME NEW p \in Processes, Boot(p) PROVE Typed'
  <2>1. \A i \in Jobs : [job[i] EXCEPT !.status = "failed"] \in Row
    BY <1>0 DEF Row, Status, Terminal
  <2>2. job' \in [Jobs -> Row]
    BY <1>0, <1>8, <2>1 DEF Boot
  <2> QED BY <1>8, <2>2 DEF Boot, TypeOK, ActiveHasJob, world
<1>9. ASSUME NEW p \in Processes, Recover(p) PROVE Typed'
  <2>1. \A i \in Jobs : RecoveredRow(job[i]) \in Row
    BY <1>0, RowOperators
  <2>2. \A i \in Jobs : RecoveredAttempts(i) \in Seq(Outcome)
    BY HistoryUpdate DEF RecoveredAttempts, TypeOK, Outcome
  <2>3. job' \in [Jobs -> Row] /\ attempts' \in [Jobs -> Seq(Outcome)]
    BY <1>0, <1>9, <2>1, <2>2 DEF Recover, TypeOK
  <2> QED BY <1>9, <2>3 DEF Recover, TypeOK, ActiveHasJob, world
<1>10. ASSUME NEW s \in Terminal, ClearStatus(s) PROVE Typed'
  <2>1. DeletedRow \in Row
    BY DEF DeletedRow, BlankRow, Row, Status, Terminal
  <2>2. job' \in [Jobs -> Row] /\ attempts' \in [Jobs -> Seq(Outcome)]
    BY <1>10, <2>1 DEF ClearStatus, TypeOK
  <2> QED BY <1>10, <2>2 DEF ClearStatus, TypeOK, ActiveHasJob, world
<1>11. ASSUME NEW c \in Chapters, EditChapter(c) PROVE Typed'
  BY <1>11 DEF EditChapter, TypeOK, ActiveHasJob, rows
<1>12. ASSUME NEW j \in Gated, DependencyChanges(j) PROVE Typed'
  BY <1>12 DEF DependencyChanges, TypeOK, ActiveHasJob, rows
<1>13. ASSUME NEW p \in Providers, ProviderChanges(p) PROVE Typed'
  BY <1>13 DEF ProviderChanges, TypeOK, ActiveHasJob, rows
<1>14. CASE UNCHANGED vars
  BY <1>14 DEF vars, TypeOK, ActiveHasJob
<1> QED BY <1>1, <1>2, <1>3, <1>4, <1>5, <1>6, <1>7, <1>8, <1>9, <1>10, <1>11, <1>12,
           <1>13, <1>14 DEF Next

\* Every reachable state is well typed.
THEOREM TypeCorrect == Spec => []TypeOK
<1>1. Init => Typed
  BY TypedInit
<1>2. Typed /\ [Next]_vars => Typed'
  BY TypedStep
<1>3. Typed => TypeOK
  BY DEF Typed
<1> QED BY <1>1, <1>2, <1>3, PTL DEF Spec

-----------------------------------------------------------------------------
(* Attempts follow their job *)

\* The token of a busy consumer is the number of an attempt of its job, unless
\* the job has been deleted with its attempts.
TokenIsAnAttempt ==
  \A c \in Consumers : consumer[c].phase # "idle" =>
    \/ consumer[c].token \in 1..Len(attempts[consumer[c].job])
    \/ job[consumer[c].job].status = "deleted"

\* A consumer about to requeue has closed its attempt.
RequeueingIsClosed ==
  \A c \in Consumers :
    /\ consumer[c].phase = "requeueing"
    /\ consumer[c].token \in DOMAIN attempts[consumer[c].job]
    => attempts[consumer[c].job][consumer[c].token] # "running"

\* The inductive invariant: an open attempt is tied to its running job, which
\* every step can only keep because a consumer closes its attempt before it
\* gives the job back, and because no token reaches beyond the history.
IInv ==
  /\ Typed
  /\ RunningHasItsAttempt
  /\ OpenAttemptIsLive
  /\ TokenIsAnAttempt
  /\ RequeueingIsClosed

LEMMA IInvInit == Init => IInv
<1> SUFFICES ASSUME Init PROVE IInv
  OBVIOUS
<1>1. Typed
  BY TypedInit
<1>2. RunningHasItsAttempt /\ OpenAttemptIsLive
  BY DEF Init, RunningHasItsAttempt, OpenAttemptIsLive, Running, BlankRow
<1>3. TokenIsAnAttempt /\ RequeueingIsClosed
  BY DEF Init, TokenIsAnAttempt, RequeueingIsClosed, Idle
<1> QED BY <1>1, <1>2, <1>3 DEF IInv

\* What a step that appends no attempt and gives no token must show.
LEMMA QuietStep ==
  ASSUME IInv, Typed',
         \A i \in Jobs : /\ Len(attempts'[i]) = job'[i].attempts
                         /\ Running(i)' => /\ job'[i].token = Len(attempts'[i])
                                           /\ job'[i].owner # NoProcess
         ,
         \A i \in Jobs : Service[i] = "TTS" => \A n \in DOMAIN attempts'[i] :
           attempts'[i][n] = "running" => Running(i)' /\ job'[i].token = n,
         \A i \in Jobs : \/ job'[i].status = "deleted" /\ attempts'[i] = <<>>
                         \/ /\ Len(attempts'[i]) = Len(attempts[i])
                            /\ job[i].status # "deleted" \/ job'[i].status = "deleted"
                            /\ \A n \in DOMAIN attempts[i] :
                                 attempts[i][n] # "running" => attempts'[i][n] # "running",
         \A c \in Consumers : consumer'[c].phase # "idle" =>
           /\ consumer[c].phase # "idle"
           /\ consumer'[c].job = consumer[c].job
           /\ consumer'[c].token = consumer[c].token
           /\ consumer'[c].phase = "requeueing" =>
                \/ consumer[c].phase = "requeueing"
                \/ consumer[c].token \in DOMAIN attempts'[consumer[c].job] =>
                     attempts'[consumer[c].job][consumer[c].token] # "running"
  PROVE  IInv'
<1> USE DEF IInv
<1>0. /\ \A c \in Consumers : consumer[c].phase # "idle" => consumer[c].job \in Jobs
      /\ \A i \in Jobs : /\ DOMAIN attempts[i] = 1..Len(attempts[i])
                         /\ DOMAIN attempts'[i] = 1..Len(attempts'[i])
                         /\ Len(attempts[i]) \in Nat /\ Len(attempts'[i]) \in Nat
  BY DEF Typed, TypeOK, ActiveHasJob
<1>1. RunningHasItsAttempt' /\ OpenAttemptIsLive'
  BY DEF RunningHasItsAttempt, OpenAttemptIsLive
<1>2. TokenIsAnAttempt'
  BY <1>0 DEF TokenIsAnAttempt
<1>3. RequeueingIsClosed'
  <2> SUFFICES ASSUME NEW c \in Consumers, consumer'[c].phase = "requeueing",
                      consumer'[c].token \in DOMAIN attempts'[consumer'[c].job]
               PROVE  attempts'[consumer'[c].job][consumer'[c].token] # "running"
    BY DEF RequeueingIsClosed
  <2>1. CASE consumer[c].phase = "requeueing"
    BY <1>0, <2>1 DEF RequeueingIsClosed
  <2>2. CASE consumer[c].phase # "requeueing"
    BY <2>2
  <2> QED BY <2>1, <2>2
<1> QED BY <1>1, <1>2, <1>3

\* A step that changes no attempt, moves no consumer into the requeueing phase,
\* and takes no TTS job out of running.
LEMMA UnclosingStep ==
  ASSUME IInv, Typed', attempts' = attempts,
         \A i \in Jobs :
           /\ job'[i].attempts = job[i].attempts
           /\ job[i].status # "deleted" \/ job'[i].status = "deleted"
           /\ Running(i)' => /\ Running(i) /\ job'[i].token = job[i].token
                             /\ job'[i].owner # NoProcess
           /\ Running(i) /\ Service[i] = "TTS" => Running(i)',
         \A c \in Consumers : consumer'[c].phase # "idle" =>
           /\ consumer[c].phase # "idle"
           /\ consumer'[c].job = consumer[c].job
           /\ consumer'[c].token = consumer[c].token
           /\ consumer'[c].phase = "requeueing" => consumer[c].phase = "requeueing"
  PROVE  IInv'
<1>1. \A i \in Jobs : /\ Len(attempts'[i]) = job'[i].attempts
                      /\ Running(i)' => /\ job'[i].token = Len(attempts'[i])
                                        /\ job'[i].owner # NoProcess
  BY DEF IInv, RunningHasItsAttempt
<1>2. \A i \in Jobs : Service[i] = "TTS" => \A n \in DOMAIN attempts'[i] :
        attempts'[i][n] = "running" => Running(i)' /\ job'[i].token = n
  BY DEF IInv, OpenAttemptIsLive
<1>3. \A i \in Jobs : \/ job'[i].status = "deleted" /\ attempts'[i] = <<>>
                      \/ /\ Len(attempts'[i]) = Len(attempts[i])
                         /\ job[i].status # "deleted" \/ job'[i].status = "deleted"
                         /\ \A n \in DOMAIN attempts[i] :
                              attempts[i][n] # "running" => attempts'[i][n] # "running"
  OBVIOUS
<1> QED BY <1>1, <1>2, <1>3, QuietStep

LEMMA ClaimKeepsIInv ==
  ASSUME IInv, Typed', NEW c \in Consumers, Claim(c)
  PROVE  IInv'
<1> USE DEF IInv
<1>1. PICK j \in Scanned(ConsumerOf[c]) :
        /\ Runnable(j)
        /\ job' = [i \in Jobs |-> RowAfterClaim(i, j, ProcessOf[c])]
        /\ attempts' = [attempts EXCEPT ![j] = Append(@, "running")]
        /\ consumer' = [consumer EXCEPT ![c] =
             [phase |-> "claimed", job |-> j, token |-> Len(attempts[j]) + 1,
              tries |-> job[j].attempts + 1, error |-> "none", heart |-> TRUE]]
  BY DEF Claim
<1>2. j \in Jobs /\ j \notin MarkedStale /\ job[j].status \in {"pending", "waiting_dependency"}
  BY DEF Scanned, Candidate
<1>3. \A i \in Jobs : job[i] \in Row /\ attempts[i] \in Seq(Outcome)
                      /\ Len(attempts[i]) = job[i].attempts
  BY DEF Typed, TypeOK, RunningHasItsAttempt
<1>4. /\ Len(attempts'[j]) = Len(attempts[j]) + 1
      /\ DOMAIN attempts'[j] = 1..(Len(attempts[j]) + 1)
      /\ attempts'[j][Len(attempts[j]) + 1] = "running"
      /\ \A n \in DOMAIN attempts[j] : n \in DOMAIN attempts'[j]
                                       /\ attempts'[j][n] = attempts[j][n]
      /\ \A i \in Jobs \ {j} : attempts'[i] = attempts[i]
  <2>1. "running" \in Outcome
    BY DEF Outcome
  <2> QED BY <1>1, <1>2, <1>3, <2>1 DEF Typed, TypeOK
<1>5. /\ job'[j].status = "running" /\ job'[j].token = Len(attempts[j]) + 1
      /\ job'[j].attempts = Len(attempts[j]) + 1 /\ job'[j].owner = ProcessOf[c]
  <2>1. job'[j] = ClaimedRow(IF Promotable(j) THEN PromotedRow(job[j]) ELSE job[j],
                             ProcessOf[c], Len(attempts[j]) + 1)
    BY <1>1, <1>2 DEF RowAfterClaim
  <2>2. PromotedRow(job[j]) \in Row /\ PromotedRow(job[j]).attempts = job[j].attempts
    BY ZenonT(40), <1>2, <1>3 DEF PromotedRow, Row, Status
  <2>3. \A row \in Row : LET after == ClaimedRow(row, ProcessOf[c], Len(attempts[j]) + 1) IN
          /\ after.status = "running" /\ after.token = Len(attempts[j]) + 1
          /\ after.attempts = row.attempts + 1 /\ after.owner = ProcessOf[c]
    BY DEF ClaimedRow, Row
  <2> QED BY <1>2, <1>3, <2>1, <2>2, <2>3
<1>6. \A i \in Jobs \ {j} :
        /\ job'[i].attempts = job[i].attempts /\ job'[i].token = job[i].token
        /\ job'[i].owner = job[i].owner
        /\ Running(i)' <=> Running(i)
        /\ job'[i].status = "deleted" <=> job[i].status = "deleted"
  <2> SUFFICES ASSUME NEW i \in Jobs \ {j}
               PROVE  /\ job'[i].attempts = job[i].attempts /\ job'[i].token = job[i].token
                      /\ job'[i].owner = job[i].owner
                      /\ Running(i)' <=> Running(i)
                      /\ job'[i].status = "deleted" <=> job[i].status = "deleted"
    OBVIOUS
  <2>1. \/ job'[i] = job[i]
        \/ job[i].status = "pending" /\ job'[i] = StaleRow(job[i])
        \/ job[i].status = "waiting_dependency" /\ job'[i] = PromotedRow(job[i])
    BY <1>1 DEF RowAfterClaim, MarkedStale, Promotable
  <2>2. job[i] \in Row
    BY <1>3
  <2> QED BY <2>1, <2>2 DEF Running, StaleRow, PromotedRow, Row
<1>7. RunningHasItsAttempt'
  <2>1. ProcessOf[c] # NoProcess
    BY ConsumerAssumption
  <2> QED BY <1>3, <1>4, <1>5, <1>6, <2>1 DEF RunningHasItsAttempt, Running
<1>8. OpenAttemptIsLive'
  <2> SUFFICES ASSUME NEW i \in Jobs, Service[i] = "TTS", NEW n \in DOMAIN attempts'[i],
                      attempts'[i][n] = "running"
               PROVE  Running(i)' /\ job'[i].token = n
    BY DEF OpenAttemptIsLive
  <2>1. CASE i # j
    BY <1>4, <1>6, <2>1 DEF OpenAttemptIsLive
  <2>2. CASE i = j
    <3>1. n \notin DOMAIN attempts[j]
      BY <1>2, <1>4, <2>2 DEF OpenAttemptIsLive, Running
    <3>2. n = Len(attempts[j]) + 1
      BY <1>2, <1>3, <1>4, <2>2, <3>1
    <3> QED BY <1>5, <2>2, <3>2 DEF Running
  <2> QED BY <2>1, <2>2
<1>9. TokenIsAnAttempt' /\ RequeueingIsClosed'
  <2>1. \A d \in Consumers \ {c} : consumer'[d] = consumer[d]
    BY <1>1 DEF Typed, TypeOK
  <2>2. /\ consumer'[c].phase = "claimed" /\ consumer'[c].job = j
        /\ consumer'[c].token = Len(attempts[j]) + 1
    BY <1>1 DEF Typed, TypeOK
  <2>3. \A d \in Consumers : consumer[d].phase # "idle" => consumer[d].job \in Jobs
    BY DEF Typed, ActiveHasJob
  <2>4. \A d \in Consumers : consumer[d].phase # "idle" =>
          \/ consumer[d].token \in DOMAIN attempts[consumer[d].job]
          \/ job[consumer[d].job].status = "deleted"
    BY <1>3, <2>3 DEF TokenIsAnAttempt
  <2>5. TokenIsAnAttempt'
    <3> SUFFICES ASSUME NEW d \in Consumers, consumer'[d].phase # "idle"
                 PROVE  \/ consumer'[d].token \in 1..Len(attempts'[consumer'[d].job])
                        \/ job'[consumer'[d].job].status = "deleted"
      BY DEF TokenIsAnAttempt
    <3>1. CASE d = c
      BY <1>2, <1>3, <1>4, <2>2, <3>1
    <3>2. CASE d # c
      BY <1>2, <1>3, <1>4, <1>6, <2>1, <2>3, <3>2 DEF TokenIsAnAttempt
    <3> QED BY <3>1, <3>2
  <2>6. RequeueingIsClosed'
    <3> SUFFICES ASSUME NEW d \in Consumers, consumer'[d].phase = "requeueing",
                        consumer'[d].token \in DOMAIN attempts'[consumer'[d].job]
                 PROVE  attempts'[consumer'[d].job][consumer'[d].token] # "running"
      BY DEF RequeueingIsClosed
    <3>1. d # c /\ consumer'[d] = consumer[d] /\ consumer[d].job \in Jobs
      BY <2>1, <2>2, <2>3
    <3>2. CASE consumer[d].job # j
      BY <1>4, <3>1, <3>2 DEF RequeueingIsClosed
    <3>3. CASE consumer[d].job = j
      <4>1. consumer[d].token \in DOMAIN attempts[j]
        BY <1>2, <2>4, <3>1, <3>3
      <4> QED BY <1>4, <3>1, <3>3, <4>1 DEF RequeueingIsClosed
    <3> QED BY <3>2, <3>3
  <2> QED BY <2>5, <2>6
<1> QED BY <1>7, <1>8, <1>9

LEMMA FinalizeKeepsIInv ==
  ASSUME IInv, Typed', NEW c \in Consumers, NEW phase \in Phase \ {"idle"},
         NEW outcome \in Terminal, FinalizeFrom(c, phase, outcome)
  PROVE  IInv'
<1> DEFINE j == consumer[c].job
           n == consumer[c].token
<1>1. /\ j \in Jobs /\ n \in Nat
      /\ \A i \in Jobs : job[i] \in Row /\ attempts[i] \in Seq(Outcome)
      /\ attempts \in [Jobs -> Seq(Outcome)]
  BY DEF FinalizeFrom, IInv, Typed, ActiveHasJob, TypeOK, Consumer
<1>2. \A d \in Consumers : consumer'[d].phase # "idle" =>
        d # c /\ consumer'[d] = consumer[d]
  BY DEF FinalizeFrom, Rest, Idle, IInv, Typed, TypeOK
<1>3. CASE UNCHANGED rows
  BY <1>2, <1>3, UnclosingStep DEF rows, IInv, RunningHasItsAttempt, Running
<1>4. CASE /\ Owns(c)
           /\ \E row \in Row : /\ job' = [job EXCEPT ![j] = row]
                               /\ row = [job[j] EXCEPT !.status = row.status,
                                           !.lease = "null", !.category = row.category]
                               /\ row.status = FinalOutcome(j, outcome)
           /\ \E final \in Terminal : /\ final = FinalOutcome(j, outcome)
                                      /\ CloseAttempt(j, n, final)
  <2>1. PICK row \in Row : /\ job' = [job EXCEPT ![j] = row]
                           /\ row = [job[j] EXCEPT !.status = row.status,
                                       !.lease = "null", !.category = row.category]
                           /\ row.status = FinalOutcome(j, outcome)
    BY <1>4
  <2>2. row.attempts = job[j].attempts /\ row.status \in Terminal
    BY <1>1, <2>1 DEF Row, FinalOutcome, Terminal
  <2>3. /\ attempts' \in [Jobs -> Seq(Outcome)]
        /\ \A i \in Jobs : /\ Len(attempts'[i]) = Len(attempts[i])
                           /\ DOMAIN attempts'[i] = DOMAIN attempts[i]
        /\ \A i \in Jobs : \A m \in DOMAIN attempts[i] :
             /\ attempts[i][m] # "running" => attempts'[i][m] = attempts[i][m]
             /\ i # j \/ m # n => attempts'[i][m] = attempts[i][m]
        /\ n \in DOMAIN attempts[j] => attempts'[j][n] # "running"
    <3>1. PICK final \in Terminal : CloseAttempt(j, n, final)
      BY <1>4
    <3>2. final \in Outcome \ {"running"}
      BY DEF Outcome, Terminal
    <3> HIDE DEF j, n
    <3> QED BY <1>1, <3>1, <3>2, CloseAttemptFacts
  <2>4. \A i \in Jobs : i # j => job'[i] = job[i]
    BY <1>1, <2>1 DEF IInv, Typed, TypeOK
  <2>5. job'[j] = row
    BY <1>1, <2>1 DEF IInv, Typed, TypeOK
  <2>6. \A i \in Jobs : /\ Len(attempts'[i]) = job'[i].attempts
                        /\ Running(i)' => /\ job'[i].token = Len(attempts'[i])
                                          /\ job'[i].owner # NoProcess
    BY <2>2, <2>3, <2>4, <2>5 DEF IInv, RunningHasItsAttempt, Running, Terminal
  <2>7. \A i \in Jobs : Service[i] = "TTS" => \A m \in DOMAIN attempts'[i] :
          attempts'[i][m] = "running" => Running(i)' /\ job'[i].token = m
    <3>1. ASSUME NEW i \in Jobs, Service[i] = "TTS", NEW m \in DOMAIN attempts'[i],
                 attempts'[i][m] = "running"
          PROVE  Running(i)' /\ job'[i].token = m
      <4>1. attempts[i][m] = "running" /\ m \in DOMAIN attempts[i]
        BY <2>3, <3>1
      <4>2. Running(i) /\ job[i].token = m
        BY <3>1, <4>1 DEF IInv, OpenAttemptIsLive
      <4>3. i # j
        BY <1>4, <2>3, <3>1, <4>1, <4>2 DEF Owns
      <4> QED BY <2>4, <4>2, <4>3 DEF Running
    <3> QED BY <3>1
  <2>8. \A i \in Jobs : job[i].status # "deleted" \/ job'[i].status = "deleted"
    BY <1>4, <2>4 DEF Owns, Running
  <2> QED BY <1>2, <2>3, <2>6, <2>7, <2>8, QuietStep
<1> QED BY <1>1, <1>3, <1>4, FinalizeFacts DEF FinalizeFrom, IInv, Typed

LEMMA IInvStep ==
  ASSUME IInv, [Next]_vars
  PROVE  IInv'
<1>0. /\ Typed' /\ Typed /\ TypeOK
      /\ \A i \in Jobs : job[i] \in Row /\ attempts[i] \in Seq(Outcome)
      /\ \A c \in Consumers : consumer[c].phase # "idle" => consumer[c].job \in Jobs
      /\ \A i \in Jobs : Running(i) => job[i].owner # NoProcess
  BY TypedStep DEF IInv, Typed, TypeOK, ActiveHasJob, RunningHasItsAttempt
<1>1. ASSUME NEW c \in Consumers, ConsumerStep(c) PROVE IInv'
  <2>1. CASE Claim(c)
    BY <1>0, <2>1, ClaimKeepsIInv
  <2>2. CASE Begin(c)
    <3>1. \A d \in Consumers : consumer'[d].phase # "idle" =>
            /\ consumer[d].phase # "idle"
            /\ consumer'[d].job = consumer[d].job
            /\ consumer'[d].token = consumer[d].token
            /\ consumer'[d].phase = "requeueing" => consumer[d].phase = "requeueing"
      <4>1. \/ \E phase \in {"executing"} : Goto(c, phase)
            \/ \E error \in Error : Raise(c, error)
        BY <2>2 DEF Begin, Error
      <4>2. CASE \E error \in Error : Raise(c, error)
        BY <1>0, <2>2, <4>2 DEF Begin, Raise, Consumer, TypeOK
      <4>3. CASE \E phase \in {"executing"} : Goto(c, phase)
        BY <1>0, <2>2, <4>3 DEF Begin, Goto, Consumer, TypeOK
      <4> QED BY <4>1, <4>2, <4>3
    <3> QED BY <1>0, <2>2, <3>1, UnclosingStep DEF Begin, Running, rows
  <2>3. CASE Execute(c)
    <3>1. \A d \in Consumers : consumer'[d].phase # "idle" =>
            /\ consumer[d].phase # "idle"
            /\ consumer'[d].job = consumer[d].job
            /\ consumer'[d].token = consumer[d].token
            /\ consumer'[d].phase = "requeueing" => consumer[d].phase = "requeueing"
      <4>1. \/ \E phase \in {"finishing", "failing"} : Goto(c, phase)
            \/ \E error \in Error : Raise(c, error)
        BY <2>3 DEF Execute, Error
      <4>2. CASE \E error \in Error : Raise(c, error)
        BY <1>0, <2>3, <4>2 DEF Execute, Raise, Consumer, TypeOK
      <4>3. CASE \E phase \in {"finishing", "failing"} : Goto(c, phase)
        BY <1>0, <2>3, <4>3 DEF Execute, Goto, Consumer, TypeOK
      <4> QED BY <4>1, <4>2, <4>3
    <3>2. /\ attempts' = attempts
          /\ \A i \in Jobs : job'[i] = job[i] /\ (Running(i)' <=> Running(i))
      BY <2>3 DEF Execute, rows, Running
    <3> QED BY <1>0, <3>1, <3>2, UnclosingStep
  <2>4. CASE Decide(c)
    <3>1. \A d \in Consumers : consumer'[d].phase # "idle" =>
            /\ consumer[d].phase # "idle"
            /\ consumer'[d].job = consumer[d].job
            /\ consumer'[d].token = consumer[d].token
            /\ consumer'[d].phase = "requeueing" => consumer[d].phase = "requeueing"
      <4>1. \/ Rest(c)
            \/ \E phase \in {"cancelling", "closing", "failing"} : Goto(c, phase)
        BY <2>4 DEF Decide
      <4>2. CASE Rest(c)
        BY <1>0, <4>2 DEF Rest, Idle, Consumer, TypeOK
      <4>3. CASE \E phase \in {"cancelling", "closing", "failing"} : Goto(c, phase)
        BY <1>0, <2>4, <4>3 DEF Decide, Goto, Consumer, TypeOK
      <4> QED BY <4>1, <4>2, <4>3
    <3> QED BY <1>0, <2>4, <3>1, UnclosingStep DEF Decide, Running, rows
  <2>5. CASE Finish(c)
    BY <1>0, <2>5, FinalizeKeepsIInv DEF Finish, Phase, Terminal
  <2>6. CASE Fail(c)
    BY <1>0, <2>6, FinalizeKeepsIInv DEF Fail, Phase, Terminal
  <2>7. CASE AcknowledgeCancel(c)
    BY <1>0, <2>7, FinalizeKeepsIInv DEF AcknowledgeCancel, Phase, Terminal
  <2>8. CASE ScheduleRetry(c)
    <3> DEFINE j == consumer[c].job
               n == consumer[c].token
    <3>1. j \in Jobs /\ n \in Nat /\ attempts \in [Jobs -> Seq(Outcome)]
      BY <1>0, <2>8 DEF ScheduleRetry, TypeOK, Consumer
    <3>2. /\ \A i \in Jobs : /\ Len(attempts'[i]) = Len(attempts[i])
                             /\ DOMAIN attempts'[i] = DOMAIN attempts[i]
          /\ \A i \in Jobs : \A m \in DOMAIN attempts[i] :
               /\ attempts[i][m] # "running" => attempts'[i][m] = attempts[i][m]
               /\ i # j \/ m # n => attempts'[i][m] = attempts[i][m]
          /\ n \in DOMAIN attempts[j] => attempts'[j][n] # "running"
      <4>1. CloseAttempt(j, n, "retry_scheduled") /\ "retry_scheduled" \in Outcome \ {"running"}
        BY <2>8 DEF ScheduleRetry, Outcome
      <4> HIDE DEF j, n
      <4> QED BY <3>1, <4>1, CloseAttemptFacts
    <3>3. \A i \in Jobs : Service[i] = "TTS" => \A m \in DOMAIN attempts'[i] :
            attempts'[i][m] = "running" => Running(i)' /\ job'[i].token = m
      BY <2>8, <3>2 DEF ScheduleRetry, IInv, OpenAttemptIsLive, Running
    <3>4. \A i \in Jobs : /\ Len(attempts'[i]) = job'[i].attempts
                          /\ Running(i)' => /\ job'[i].token = Len(attempts'[i])
                                            /\ job'[i].owner # NoProcess
      BY <2>8, <3>2 DEF ScheduleRetry, IInv, RunningHasItsAttempt, Running
    <3>5. \A i \in Jobs : \A m \in DOMAIN attempts[i] :
            attempts[i][m] # "running" => attempts'[i][m] # "running"
      BY <3>2
    <3>6. \A d \in Consumers : consumer'[d].phase # "idle" =>
            /\ consumer[d].phase # "idle"
            /\ consumer'[d].job = consumer[d].job /\ consumer'[d].token = consumer[d].token
            /\ consumer'[d].phase = "requeueing" => d = c \/ consumer[d].phase = "requeueing"
      BY <1>0, <2>8 DEF ScheduleRetry, Goto, Consumer, TypeOK
    <3> QED BY <1>0, <2>8, <3>2, <3>3, <3>4, <3>5, <3>6, QuietStep DEF ScheduleRetry
  <2>9. CASE Requeue(c)
    <3> DEFINE j == consumer[c].job
    <3>1. j \in Jobs
      BY <1>0, <2>9 DEF Requeue
    <3>2. \A d \in Consumers : consumer'[d].phase # "idle" =>
            d # c /\ consumer'[d] = consumer[d]
      BY <1>0, <2>9 DEF Requeue, Rest, Idle, TypeOK
    <3>3. CASE ~Owns(c)
      BY <1>0, <2>9, <3>2, <3>3, UnclosingStep DEF Requeue, Running
    <3>4. CASE Owns(c)
      <4>1. /\ job'[j] = RequeuedRow(job[j], "future")
            /\ \A i \in Jobs : i # j => job'[i] = job[i]
            /\ attempts' = attempts
        BY <1>0, <2>9, <3>1, <3>4 DEF Requeue, TypeOK
      <4>2. job'[j].status = "pending" /\ job'[j].attempts = job[j].attempts
        BY <1>0, <3>1, <4>1 DEF RequeuedRow, Row
      <4>3. \A i \in Jobs : /\ Len(attempts'[i]) = job'[i].attempts
                            /\ Running(i)' => /\ job'[i].token = Len(attempts'[i])
                                              /\ job'[i].owner # NoProcess
        BY <4>1, <4>2 DEF IInv, RunningHasItsAttempt, Running
      <4>4. \A i \in Jobs : Service[i] = "TTS" => \A m \in DOMAIN attempts'[i] :
              attempts'[i][m] = "running" => Running(i)' /\ job'[i].token = m
        <5>1. ASSUME NEW i \in Jobs, Service[i] = "TTS", NEW m \in DOMAIN attempts[i],
                     attempts[i][m] = "running"
              PROVE  i # j
          BY <2>9, <3>4, <5>1
          DEF Requeue, Owns, IInv, OpenAttemptIsLive, RequeueingIsClosed
        <5> QED BY <4>1, <5>1 DEF IInv, OpenAttemptIsLive, Running
      <4>5. \A i \in Jobs : job[i].status # "deleted" \/ job'[i].status = "deleted"
        BY <3>4, <4>1 DEF Owns, Running
      <4> QED BY <1>0, <3>2, <4>1, <4>3, <4>4, <4>5, QuietStep
    <3> QED BY <3>3, <3>4
  <2> QED BY <1>1, <2>1, <2>2, <2>3, <2>4, <2>5, <2>6, <2>7, <2>8, <2>9 DEF ConsumerStep
<1>2. ASSUME NEW c \in Consumers, Drop(c) PROVE IInv'
  BY <1>0, <1>2, UnclosingStep DEF Drop, Rest, Idle, Running, rows, TypeOK
<1>3. ASSUME NEW c \in Consumers, Heartbeat(c) PROVE IInv'
  <2>1. \A d \in Consumers :
          /\ consumer'[d].phase = consumer[d].phase
          /\ consumer'[d].job = consumer[d].job
          /\ consumer'[d].token = consumer[d].token
    <3>1. \/ UNCHANGED consumer
          \/ consumer' = [consumer EXCEPT ![c].heart = FALSE]
      BY <1>3 DEF Heartbeat
    <3>2. \A d \in Consumers : \/ consumer'[d] = consumer[d]
                               \/ consumer'[d] = [consumer[d] EXCEPT !.heart = FALSE]
      BY <1>0, <3>1 DEF TypeOK
    <3>3. \A d \in Consumers : consumer[d] \in Consumer
      BY <1>0 DEF TypeOK
    <3> QED BY <3>2, <3>3 DEF Consumer
  <2>2. \A i \in Jobs :
          /\ job'[i].status = job[i].status /\ job'[i].token = job[i].token
          /\ job'[i].attempts = job[i].attempts /\ job'[i].owner = job[i].owner
    <3>1. \/ UNCHANGED job
          \/ job' = [job EXCEPT ![consumer[c].job].lease = "fresh"]
      BY <1>3 DEF Heartbeat
    <3>2. \A i \in Jobs : job'[i] \in {job[i], [job[i] EXCEPT !.lease = "fresh"]}
      BY <1>0, <3>1 DEF TypeOK
    <3> QED BY <1>0, <3>2 DEF Row
  <2>3. UNCHANGED attempts
    BY <1>3 DEF Heartbeat
  <2> QED BY <1>0, <2>1, <2>2, <2>3, UnclosingStep DEF Running
<1>4. ASSUME NEW j \in Jobs, Create(j) PROVE IInv'
  <2>1. /\ \A i \in Jobs : /\ job'[i].token = job[i].token /\ job'[i].owner = job[i].owner
                           /\ job'[i].attempts = job[i].attempts
        /\ \A i \in Jobs : i # j => job'[i].status = job[i].status
        /\ job[j].status = "absent" /\ job'[j].status \in {"waiting_dependency", "pending"}
    BY <1>0, <1>4 DEF Create, TypeOK, Row
  <2> QED BY <1>0, <1>4, <2>1, UnclosingStep DEF Create, Running
<1>5. ASSUME NEW j \in Jobs, OperatorStep(j) PROVE IInv'
  <2>1. CASE RequestCancel(j)
    <3>1. \A i \in Jobs :
            /\ job'[i].token = job[i].token /\ job'[i].owner = job[i].owner
            /\ job'[i].attempts = job[i].attempts
            /\ \/ job'[i].status = job[i].status
               \/ job[i].status = "pending" /\ job'[i].status = "cancelled"
      <4>1. \A i \in Jobs :
              \/ job'[i] = job[i]
              \/ job[i].status = "pending"
                 /\ job'[i] = [job[i] EXCEPT !.status = "cancelled", !.cancel = TRUE,
                                            !.next = "null"]
              \/ job'[i] = [job[i] EXCEPT !.cancel = TRUE]
        <5>1. CASE /\ job[j].status = "pending"
                   /\ job' = [job EXCEPT ![j] = [@ EXCEPT !.status = "cancelled",
                                                        !.cancel = TRUE, !.next = "null"]]
          BY <1>0, <5>1 DEF TypeOK
        <5>2. CASE job' = [job EXCEPT ![j].cancel = TRUE]
          BY <1>0, <5>2 DEF TypeOK
        <5> QED BY <2>1, <5>1, <5>2 DEF RequestCancel
      <4>2. ASSUME NEW row \in Row
            PROVE  /\ LET r == [row EXCEPT !.status = "cancelled", !.cancel = TRUE, !.next = "null"]
                      IN  /\ r.token = row.token /\ r.owner = row.owner
                          /\ r.attempts = row.attempts /\ r.status = "cancelled"
                   /\ LET r == [row EXCEPT !.cancel = TRUE]
                      IN  /\ r.token = row.token /\ r.owner = row.owner
                          /\ r.attempts = row.attempts /\ r.status = row.status
        BY DEF Row
      <4> SUFFICES ASSUME NEW i \in Jobs
                   PROVE  /\ job'[i].token = job[i].token /\ job'[i].owner = job[i].owner
                          /\ job'[i].attempts = job[i].attempts
                          /\ \/ job'[i].status = job[i].status
                             \/ job[i].status = "pending" /\ job'[i].status = "cancelled"
        OBVIOUS
      <4>3. job[i] \in Row
        BY <1>0
      <4>4. CASE job'[i] = job[i]
        BY <4>4
      <4>5. CASE /\ job[i].status = "pending"
                 /\ job'[i] = [job[i] EXCEPT !.status = "cancelled", !.cancel = TRUE,
                                            !.next = "null"]
        BY <4>2, <4>3, <4>5
      <4>6. CASE job'[i] = [job[i] EXCEPT !.cancel = TRUE]
        BY <4>2, <4>3, <4>6
      <4> QED BY <4>1, <4>4, <4>5, <4>6
    <3>2. UNCHANGED <<attempts, consumer>>
      BY <2>1 DEF RequestCancel
    <3> QED BY <1>0, <3>1, <3>2, UnclosingStep DEF Running
  <2>2. CASE CancelAnalysis(j)
    <3>1. /\ \A i \in Jobs :
               /\ job'[i].token = job[i].token /\ job'[i].owner = job[i].owner
               /\ job'[i].attempts = job[i].attempts
               /\ i # j => job'[i].status = job[i].status
          /\ job[j].status \in {"pending", "running"} /\ job'[j].status = "cancelled"
          /\ Service[j] # "TTS"
      BY <1>0, <2>2 DEF CancelAnalysis, TypeOK, Row
    <3> QED BY <1>0, <2>2, <3>1, UnclosingStep DEF CancelAnalysis, Running
  <2>3. CASE Retry(j)
    <3>1. /\ \A i \in Jobs :
               /\ job'[i].token = job[i].token /\ job'[i].owner = job[i].owner
               /\ job'[i].attempts = job[i].attempts
               /\ i # j => job'[i].status = job[i].status
          /\ job[j].status \in {"failed", "stale"} /\ job'[j].status = "pending"
      BY <1>0, <2>3 DEF Retry, CanRetry, RetriedRow, TypeOK, Row
    <3> QED BY <1>0, <2>3, <3>1, UnclosingStep DEF Retry, Running
  <2>4. CASE CheckDelete(j)
    BY <1>0, <2>4, UnclosingStep DEF CheckDelete, Running, rows
  <2>5. CASE Delete(j)
    <3>1. /\ job'[j] = DeletedRow /\ attempts'[j] = <<>>
          /\ \A i \in Jobs : i # j => job'[i] = job[i] /\ attempts'[i] = attempts[i]
      BY <1>0, <2>5 DEF Delete, TypeOK
    <3>2. DeletedRow.status = "deleted" /\ DeletedRow.attempts = 0
      BY DEF DeletedRow, BlankRow
    <3>3. \A i \in Jobs : /\ Len(attempts'[i]) = job'[i].attempts
                          /\ Running(i)' => /\ job'[i].token = Len(attempts'[i])
                                            /\ job'[i].owner # NoProcess
      BY <3>1, <3>2 DEF IInv, RunningHasItsAttempt, Running
    <3>4. \A i \in Jobs : Service[i] = "TTS" => \A m \in DOMAIN attempts'[i] :
            attempts'[i][m] = "running" => Running(i)' /\ job'[i].token = m
      BY <3>1 DEF IInv, OpenAttemptIsLive, Running
    <3>5. \A i \in Jobs : \/ job'[i].status = "deleted" /\ attempts'[i] = <<>>
                          \/ job'[i] = job[i] /\ attempts'[i] = attempts[i]
      BY <3>1, <3>2
    <3> QED BY <1>0, <2>5, <3>3, <3>4, <3>5, QuietStep DEF Delete
  <2> QED BY <1>5, <2>1, <2>2, <2>3, <2>4, <2>5 DEF OperatorStep
<1>6. ASSUME NEW j \in Jobs, LeaseExpires(j) \/ BecomesDue(j) PROVE IInv'
  <2>1. \A i \in Jobs :
          /\ job'[i].status = job[i].status /\ job'[i].token = job[i].token
          /\ job'[i].attempts = job[i].attempts /\ job'[i].owner = job[i].owner
    <3>1. \A i \in Jobs : job'[i] \in {job[i], [job[i] EXCEPT !.lease = "expired"],
                                       [job[i] EXCEPT !.next = "due"]}
      BY <1>0, <1>6 DEF LeaseExpires, BecomesDue, TypeOK
    <3> QED BY <1>0, <3>1 DEF Row
  <2>2. UNCHANGED <<attempts, consumer>>
    BY <1>6 DEF LeaseExpires, BecomesDue
  <2> QED BY <1>0, <2>1, <2>2, UnclosingStep DEF Running
<1>7. ASSUME NEW p \in Processes, Crash(p) PROVE IInv'
  <2>1. \A i \in Jobs :
          /\ job'[i].status = job[i].status /\ job'[i].token = job[i].token
          /\ job'[i].attempts = job[i].attempts
          /\ job'[i].owner \in {job[i].owner, DeadProcess}
    BY <1>0, <1>7 DEF Crash, Row
  <2>2. DeadProcess # NoProcess
    BY ConsumerAssumption
  <2>3. \A d \in Consumers : consumer'[d].phase # "idle" => consumer'[d] = consumer[d]
    BY <1>7 DEF Crash, Idle
  <2> QED BY <1>0, <1>7, <2>1, <2>2, <2>3, UnclosingStep DEF Crash, Running
<1>8. ASSUME NEW p \in Processes, Boot(p) PROVE IInv'
  <2>1. \A i \in Jobs :
          /\ job'[i].token = job[i].token /\ job'[i].owner = job[i].owner
          /\ job'[i].attempts = job[i].attempts
          /\ \/ job'[i].status = job[i].status
             \/ job[i].status = "running" /\ job'[i].status = "failed" /\ Service[i] # "TTS"
    BY <1>0, <1>8 DEF Boot, Running, Row
  <2> QED BY <1>0, <1>8, <2>1, UnclosingStep DEF Boot, Running
<1>9. ASSUME NEW p \in Processes, Recover(p) PROVE IInv'
  <2>1. \A i \in Jobs :
          /\ Len(RecoveredAttempts(i)) = Len(attempts[i])
          /\ DOMAIN RecoveredAttempts(i) = DOMAIN attempts[i]
          /\ \A m \in DOMAIN attempts[i] :
               /\ attempts[i][m] # "running" => RecoveredAttempts(i)[m] # "running"
               /\ m = job[i].token => RecoveredAttempts(i)[m] # "running"
               /\ m # job[i].token => RecoveredAttempts(i)[m] = attempts[i][m]
    BY <1>0, HistoryUpdate DEF RecoveredAttempts, Outcome
  <2>2. \A i \in Jobs : RecoveredRow(job[i]).status \in {"pending", "failed"}
                        /\ RecoveredRow(job[i]).attempts = job[i].attempts
    BY <1>0 DEF RecoveredRow, RequeuedRow, Row
  <2>3. \A i \in Jobs :
          \/ /\ Running(i) /\ ~Running(i)' /\ job'[i].status # "deleted"
             /\ job'[i].attempts = job[i].attempts
             /\ attempts'[i] = RecoveredAttempts(i)
          \/ job'[i] = job[i] /\ attempts'[i] = attempts[i]
    BY <1>9, <2>2 DEF Recover, Expired, Running
  <2>4. \A i \in Jobs : /\ Len(attempts'[i]) = job'[i].attempts
                        /\ Running(i)' => /\ job'[i].token = Len(attempts'[i])
                                          /\ job'[i].owner # NoProcess
    BY <2>1, <2>3 DEF IInv, RunningHasItsAttempt, Running
  <2>5. \A i \in Jobs : Service[i] = "TTS" => \A m \in DOMAIN attempts'[i] :
          attempts'[i][m] = "running" => Running(i)' /\ job'[i].token = m
    BY <2>1, <2>3 DEF IInv, OpenAttemptIsLive, Running
  <2>6. \A i \in Jobs : /\ Len(attempts'[i]) = Len(attempts[i])
                        /\ DOMAIN attempts'[i] = DOMAIN attempts[i]
                        /\ job[i].status # "deleted" \/ job'[i].status = "deleted"
                        /\ \A m \in DOMAIN attempts[i] :
                             attempts[i][m] # "running" => attempts'[i][m] # "running"
    BY <2>1, <2>3 DEF Running
  <2> QED BY <1>0, <1>9, <2>4, <2>5, <2>6, QuietStep DEF Recover
<1>10. ASSUME NEW s \in Terminal, ClearStatus(s) PROVE IInv'
  <2>1. \A i \in Jobs : \/ job'[i] = DeletedRow /\ attempts'[i] = <<>>
                        \/ job'[i] = job[i] /\ attempts'[i] = attempts[i]
    BY <1>10 DEF ClearStatus
  <2>2. DeletedRow.status = "deleted" /\ DeletedRow.attempts = 0
    BY DEF DeletedRow, BlankRow
  <2>3. \A i \in Jobs : /\ Len(attempts'[i]) = job'[i].attempts
                        /\ Running(i)' => /\ job'[i].token = Len(attempts'[i])
                                          /\ job'[i].owner # NoProcess
    BY <2>1, <2>2 DEF IInv, RunningHasItsAttempt, Running
  <2>4. \A i \in Jobs : Service[i] = "TTS" => \A m \in DOMAIN attempts'[i] :
          attempts'[i][m] = "running" => Running(i)' /\ job'[i].token = m
    BY <2>1 DEF IInv, OpenAttemptIsLive, Running
  <2> QED BY <1>0, <1>10, <2>1, <2>2, <2>3, <2>4, QuietStep DEF ClearStatus
<1>11. ASSUME NEW c \in Chapters, EditChapter(c) PROVE IInv'
  BY <1>0, <1>11, UnclosingStep DEF EditChapter, Running, rows
<1>12. ASSUME NEW j \in Gated, DependencyChanges(j) PROVE IInv'
  BY <1>0, <1>12, UnclosingStep DEF DependencyChanges, Running, rows
<1>13. ASSUME NEW p \in Providers, ProviderChanges(p) PROVE IInv'
  BY <1>0, <1>13, UnclosingStep DEF ProviderChanges, Running, rows
<1>14. CASE UNCHANGED vars
  BY <1>0, <1>14, UnclosingStep DEF vars, Running
<1> QED BY <1>1, <1>2, <1>3, <1>4, <1>5, <1>6, <1>7, <1>8, <1>9, <1>10, <1>11, <1>12,
           <1>13, <1>14 DEF Next

LEMMA Inductive == Spec => []IInv
<1>1. Init => IInv
  BY IInvInit
<1>2. IInv /\ [Next]_vars => IInv'
  BY IInvStep
<1> QED BY <1>1, <1>2, PTL DEF Spec

\* The attempts of every job are numbered without gaps, and a running job
\* carries the token of the last one.
THEOREM RunningJobsHoldTheirAttempt == Spec => []RunningHasItsAttempt
<1>1. IInv => RunningHasItsAttempt
  BY DEF IInv
<1> QED BY <1>1, Inductive, PTL

\* No retry, recovery, cancellation or late consumer leaves a TTS attempt open.
THEOREM OpenAttemptsAreLive == Spec => []OpenAttemptIsLive
<1>1. IInv => OpenAttemptIsLive
  BY DEF IInv
<1> QED BY <1>1, Inductive, PTL

-----------------------------------------------------------------------------
(* What a step may do to a history and to a cancelled job *)

\* A job keeps the outcomes its attempts have, unless it is deleted.
KeepsOutcomes(i) ==
  job'[i].status # "deleted" =>
    \A n \in DOMAIN attempts[i] :
      /\ n \in DOMAIN attempts'[i]
      /\ attempts[i][n] # "running" => attempts'[i][n] = attempts[i][n]

\* Success is written only by a consumer that owns a job not asked to cancel.
KeepsCancelled(i) ==
  job[i].cancel /\ job[i].status # "success" => job'[i].status # "success"

LEMMA FinalizeKeeps ==
  ASSUME Typed, NEW c \in Consumers, NEW phase \in Phase \ {"idle"},
         NEW outcome \in Terminal, FinalizeFrom(c, phase, outcome), NEW i \in Jobs
  PROVE  KeepsOutcomes(i) /\ KeepsCancelled(i)
<1> DEFINE j == consumer[c].job
           n == consumer[c].token
<1>1. /\ j \in Jobs /\ n \in Nat /\ job \in [Jobs -> Row]
      /\ attempts \in [Jobs -> Seq(Outcome)]
  BY DEF FinalizeFrom, Typed, ActiveHasJob, TypeOK, Consumer
<1>2. CASE UNCHANGED rows
  BY <1>2 DEF rows, KeepsOutcomes, KeepsCancelled
<1>3. CASE /\ \E row \in Row : /\ job' = [job EXCEPT ![j] = row]
                               /\ row.status = FinalOutcome(j, outcome)
           /\ \E final \in Terminal : CloseAttempt(j, n, final)
  <2>1. KeepsCancelled(i)
    BY <1>1, <1>3 DEF KeepsCancelled, FinalOutcome
  <2>2. PICK final \in Terminal : CloseAttempt(j, n, final)
    BY <1>3
  <2>3. final \in Outcome \ {"running"}
    BY DEF Outcome, Terminal
  <2>4. KeepsOutcomes(i)
    <3> HIDE DEF j, n
    <3> QED BY <1>1, <2>2, <2>3, CloseAttemptFacts DEF KeepsOutcomes
  <2> QED BY <2>1, <2>4
<1> QED BY <1>1, <1>2, <1>3, FinalizeFacts DEF FinalizeFrom, Typed

LEMMA StepKeeps ==
  ASSUME Typed, [Next]_vars, NEW i \in Jobs
  PROVE  KeepsOutcomes(i) /\ KeepsCancelled(i)
<1> USE DEF KeepsOutcomes, KeepsCancelled
<1>0. /\ TypeOK
      /\ \A k \in Jobs : job[k] \in Row /\ attempts[k] \in Seq(Outcome)
      /\ \A c \in Consumers : consumer[c].phase # "idle" => consumer[c].job \in Jobs
  BY DEF Typed, TypeOK, ActiveHasJob
<1>1. ASSUME NEW c \in Consumers, ConsumerStep(c)
      PROVE  KeepsOutcomes(i) /\ KeepsCancelled(i)
  <2>1. CASE Claim(c)
    <3>1. PICK j \in Scanned(ConsumerOf[c]) :
            /\ job' = [k \in Jobs |-> RowAfterClaim(k, j, ProcessOf[c])]
            /\ attempts' = [attempts EXCEPT ![j] = Append(@, "running")]
      BY <2>1 DEF Claim
    <3>2. j \in Jobs /\ "running" \in Outcome
      BY DEF Scanned, Candidate, Outcome
    <3>3. KeepsOutcomes(i)
      BY <1>0, <3>1, <3>2 DEF TypeOK
    <3>4. job'[i].status = "success" => job[i].status = "success"
      <4>1. job'[i] = RowAfterClaim(i, j, ProcessOf[c])
        BY <3>1
      <4>2. ASSUME NEW row \in Row, NEW token \in Nat
            PROVE  /\ ClaimedRow(row, ProcessOf[c], token).status = "running"
                   /\ StaleRow(row).status = "stale"
                   /\ PromotedRow(row) \in Row /\ PromotedRow(row).status = "pending"
        BY DEF ClaimedRow, StaleRow, PromotedRow, Row, Status
      <4>3. Len(attempts[j]) + 1 \in Nat
        BY <1>0, <3>2
      <4> QED BY <1>0, <3>2, <4>1, <4>2, <4>3 DEF RowAfterClaim
    <3> QED BY <3>3, <3>4
  <2>2. CASE Begin(c) \/ Execute(c) \/ Decide(c)
    BY <2>2 DEF Begin, Execute, Decide, rows
  <2>3. CASE Finish(c)
    BY <2>3, FinalizeKeeps DEF Finish, Phase, Terminal
  <2>4. CASE Fail(c)
    BY <2>4, FinalizeKeeps DEF Fail, Phase, Terminal
  <2>5. CASE AcknowledgeCancel(c)
    BY <2>5, FinalizeKeeps DEF AcknowledgeCancel, Phase, Terminal
  <2>6. CASE ScheduleRetry(c)
    <3>1. consumer[c].job \in Jobs /\ consumer[c].token \in Nat
      BY <1>0, <2>6 DEF ScheduleRetry, TypeOK, Consumer
    <3> QED BY <1>0, <2>6, <3>1, CloseAttemptFacts DEF ScheduleRetry, TypeOK, Outcome
  <2>7. CASE Requeue(c)
    <3>1. \A row \in Row : RequeuedRow(row, "future").status = "pending"
      BY DEF RequeuedRow, Row
    <3>2. \A k \in Jobs : job'[k] = job[k] \/ job'[k] = RequeuedRow(job[k], "future")
      BY <1>0, <2>7 DEF Requeue, TypeOK
    <3> QED BY <1>0, <2>7, <3>1, <3>2 DEF Requeue
  <2> QED BY <1>1, <2>1, <2>2, <2>3, <2>4, <2>5, <2>6, <2>7 DEF ConsumerStep
<1>2. ASSUME NEW c \in Consumers, Drop(c) \/ Heartbeat(c)
      PROVE  KeepsOutcomes(i) /\ KeepsCancelled(i)
  <2>1. \A k \in Jobs : job'[k] \in {job[k], [job[k] EXCEPT !.lease = "fresh"]}
    BY <1>0, <1>2 DEF Drop, Heartbeat, rows, TypeOK
  <2>2. UNCHANGED attempts
    BY <1>2 DEF Drop, Heartbeat, rows
  <2> QED BY <1>0, <2>1, <2>2 DEF Row
<1>3. ASSUME NEW j \in Jobs, OperatorStep(j)
      PROVE  KeepsOutcomes(i) /\ KeepsCancelled(i)
  <2>1. CASE Delete(j)
    <3>1. DeletedRow.status = "deleted"
      BY DEF DeletedRow, BlankRow
    <3> QED BY <1>0, <2>1, <3>1 DEF Delete, TypeOK
  <2>2. CASE RequestCancel(j) \/ CancelAnalysis(j) \/ Retry(j) \/ CheckDelete(j)
    <3>1. \A k \in Jobs : job'[k] \in {job[k], RetriedRow(job[k]), [job[k] EXCEPT !.cancel = TRUE],
            [job[k] EXCEPT !.status = "cancelled"],
            [job[k] EXCEPT !.status = "cancelled", !.cancel = TRUE, !.next = "null"]}
      BY <1>0, <2>2 DEF RequestCancel, CancelAnalysis, Retry, CheckDelete, rows, TypeOK
    <3>2. ASSUME NEW row \in Row
          PROVE  /\ RetriedRow(row).status = "pending"
                 /\ [row EXCEPT !.cancel = TRUE].status = row.status
                 /\ [row EXCEPT !.status = "cancelled"].status = "cancelled"
                 /\ [row EXCEPT !.status = "cancelled", !.cancel = TRUE,
                                !.next = "null"].status = "cancelled"
      BY DEF RetriedRow, Row
    <3>3. UNCHANGED attempts
      BY <2>2 DEF RequestCancel, CancelAnalysis, Retry, CheckDelete, rows
    <3>4. job[i] \in Row
      BY <1>0
    <3>5. job'[i].status \in {job[i].status, "pending", "cancelled"}
      <4>1. CASE job'[i] = job[i] \/ job'[i] = RetriedRow(job[i])
        BY <3>2, <3>4, <4>1
      <4>2. CASE job'[i] = [job[i] EXCEPT !.cancel = TRUE]
        BY <3>2, <3>4, <4>2
      <4>3. CASE job'[i] = [job[i] EXCEPT !.status = "cancelled"]
        BY <3>2, <3>4, <4>3
      <4>4. CASE job'[i] = [job[i] EXCEPT !.status = "cancelled", !.cancel = TRUE,
                                          !.next = "null"]
        BY <3>2, <3>4, <4>4
      <4> QED BY <3>1, <4>1, <4>2, <4>3, <4>4
    <3> QED BY <3>3, <3>5
  <2> QED BY <1>3, <2>1, <2>2 DEF OperatorStep
<1>4. ASSUME NEW j \in Jobs, Create(j) \/ LeaseExpires(j) \/ BecomesDue(j)
      PROVE  KeepsOutcomes(i) /\ KeepsCancelled(i)
  <2>1. CASE Create(j)
    <3>1. \A k \in Jobs : job'[k].status \in {job[k].status, "waiting_dependency", "pending"}
      BY <1>0, <2>1 DEF Create, TypeOK, Row
    <3> QED BY <2>1, <3>1 DEF Create
  <2>2. CASE LeaseExpires(j) \/ BecomesDue(j)
    <3>1. \A k \in Jobs : job'[k] \in {job[k], [job[k] EXCEPT !.lease = "expired"],
                                       [job[k] EXCEPT !.next = "due"]}
      BY <1>0, <2>2 DEF LeaseExpires, BecomesDue, TypeOK
    <3>2. UNCHANGED attempts
      BY <2>2 DEF LeaseExpires, BecomesDue
    <3>3. \A row \in Row : /\ [row EXCEPT !.lease = "expired"].status = row.status
                           /\ [row EXCEPT !.next = "due"].status = row.status
      BY DEF Row
    <3>4. job'[i].status = job[i].status
      BY <1>0, <3>1, <3>3
    <3> QED BY <3>2, <3>4
  <2> QED BY <1>4, <2>1, <2>2
<1>5. ASSUME NEW p \in Processes, Crash(p) \/ Boot(p)
      PROVE  KeepsOutcomes(i) /\ KeepsCancelled(i)
  <2>1. \A k \in Jobs : job'[k] \in {job[k], [job[k] EXCEPT !.owner = DeadProcess],
                                     [job[k] EXCEPT !.status = "failed"]}
    BY <1>5 DEF Crash, Boot
  <2>2. UNCHANGED attempts
    BY <1>5 DEF Crash, Boot
  <2> QED BY <1>0, <2>1, <2>2 DEF Row
<1>6. ASSUME NEW p \in Processes, Recover(p)
      PROVE  KeepsOutcomes(i) /\ KeepsCancelled(i)
  <2>1. RecoveredRow(job[i]).status \in {"pending", "failed"}
    BY <1>0 DEF RecoveredRow, RequeuedRow, Row
  <2>2. /\ DOMAIN RecoveredAttempts(i) = DOMAIN attempts[i]
        /\ \A m \in DOMAIN attempts[i] :
             attempts[i][m] # "running" => RecoveredAttempts(i)[m] = attempts[i][m]
    BY <1>0, HistoryUpdate DEF RecoveredAttempts, Outcome
  <2> QED BY <1>6, <2>1, <2>2 DEF Recover
<1>7. ASSUME NEW s \in Terminal, ClearStatus(s)
      PROVE  KeepsOutcomes(i) /\ KeepsCancelled(i)
  <2>1. DeletedRow.status = "deleted"
    BY DEF DeletedRow, BlankRow
  <2> QED BY <1>7, <2>1 DEF ClearStatus
<1>8. ASSUME UNCHANGED rows
      PROVE  KeepsOutcomes(i) /\ KeepsCancelled(i)
  BY <1>8 DEF rows
<1>9. \/ \E c \in Chapters : EditChapter(c)
      \/ \E j \in Gated : DependencyChanges(j)
      \/ \E p \in Providers : ProviderChanges(p)
      \/ UNCHANGED vars
      => UNCHANGED rows
  BY DEF EditChapter, DependencyChanges, ProviderChanges, vars, rows
<1> QED BY <1>1, <1>2, <1>3, <1>4, <1>5, <1>6, <1>7, <1>8, <1>9 DEF Next

\* An attempt that has an outcome keeps it until its job is deleted.
THEOREM HistoryIsAppendOnly == Spec => AttemptsAppendOnly
<1>1. Typed /\ [Next]_vars => \A j \in Jobs : KeepsOutcomes(j)
  BY StepKeeps
<1>2. IInv => Typed
  BY DEF IInv
<1>3. (\A j \in Jobs : KeepsOutcomes(j)) =>
        [\A j \in Jobs : job'[j].status # "deleted" =>
           \A n \in DOMAIN attempts[j] :
             /\ n \in DOMAIN attempts'[j]
             /\ attempts[j][n] # "running" => attempts'[j][n] = attempts[j][n]]_vars
  BY DEF KeepsOutcomes
<1> QED BY <1>1, <1>2, <1>3, Inductive, PTL DEF Spec, AttemptsAppendOnly

\* A job asked to cancel does not become a success, in whatever state it is
\* when it is asked and whichever consumer reports on it.
THEOREM CancellationHolds == Spec => CancelledNeverSucceeds
<1>1. Typed /\ [Next]_vars => \A j \in Jobs : KeepsCancelled(j)
  BY StepKeeps
<1>2. IInv => Typed
  BY DEF IInv
<1>3. (\A j \in Jobs : KeepsCancelled(j)) =>
        [\A j \in Jobs : job[j].cancel /\ job[j].status # "success"
           => job'[j].status # "success"]_vars
  BY DEF KeepsCancelled
<1> QED BY <1>1, <1>2, <1>3, Inductive, PTL DEF Spec, CancelledNeverSucceeds

-----------------------------------------------------------------------------
(***************************************************************************)
(* What the outcomes of GenerationQueue amount to: a success belongs to the *)
(* last attempt of its job, the running jobs stay within capacity, and the  *)
(* queue implements JobLifecycle.  The argument rests on what one step may  *)
(* do to one consumer, to one row and to one history, stated first.         *)
(***************************************************************************)


-----------------------------------------------------------------------------
(* What a step may do to a consumer *)

Busy(c) == consumer[c].phase # "idle"

\* A consumer comes to rest, claims a job, or keeps the job, token and tries of
\* its claim; it schedules a retry only below the retry budget, and from then on
\* can only requeue.
ConsumerMove(d) ==
  \/ consumer'[d].phase = "idle"
  \/ Claim(d)
  \/ /\ Busy(d)
     /\ consumer'[d].job = consumer[d].job
     /\ consumer'[d].token = consumer[d].token
     /\ consumer'[d].tries = consumer[d].tries
     /\ consumer'[d].phase = "closing" =>
          consumer[d].phase = "closing" \/ consumer[d].tries < MaxAttempts
     /\ consumer'[d].phase = "requeueing" => consumer[d].phase \in {"closing", "requeueing"}
     /\ consumer[d].phase = "requeueing" => consumer'[d].phase = "requeueing"

LEMMA LocalMoves ==
  ASSUME Typed, NEW c \in Consumers, NEW d \in Consumers, consumer[c].phase # "idle",
         \/ \E phase \in Phase \ {"idle"} :
              /\ Goto(c, phase)
              /\ phase = "closing" => consumer[c].tries < MaxAttempts
              /\ phase = "requeueing" => consumer[c].phase = "closing"
              /\ consumer[c].phase # "requeueing"
         \/ consumer[c].phase # "requeueing" /\ \E error \in Error : Raise(c, error)
         \/ Rest(c)
  PROVE  ConsumerMove(d)
<1>0. \A e \in Consumers : consumer[e] \in Consumer
  BY DEF Typed, TypeOK
<1>1. CASE d # c
  <2>1. consumer'[d] = consumer[d]
    BY <1>1 DEF Goto, Raise, Rest, Typed, TypeOK
  <2> QED BY <2>1 DEF ConsumerMove, Busy
<1>2. CASE d = c /\ Rest(c)
  BY <1>2 DEF Rest, Idle, Typed, TypeOK, ConsumerMove
<1>3. ASSUME NEW phase \in Phase, d = c, Goto(c, phase),
             phase = "closing" => consumer[c].tries < MaxAttempts,
             phase = "requeueing" => consumer[c].phase = "closing",
             consumer[c].phase # "requeueing"
      PROVE  ConsumerMove(d)
  <2>1. consumer'[c] = [consumer[c] EXCEPT !.phase = phase]
    BY <1>3 DEF Goto, Typed, TypeOK
  <2>2. /\ consumer'[c].phase = phase /\ consumer'[c].job = consumer[c].job
        /\ consumer'[c].token = consumer[c].token /\ consumer'[c].tries = consumer[c].tries
    BY <1>0, <2>1 DEF Consumer
  <2> QED BY <1>3, <2>2 DEF ConsumerMove, Busy
<1>4. ASSUME NEW error \in Error, d = c, Raise(c, error), consumer[c].phase # "requeueing"
      PROVE  ConsumerMove(d)
  <2>1. consumer'[c] = [consumer[c] EXCEPT !.phase = "caught", !.error = error]
    BY <1>4 DEF Raise, Typed, TypeOK
  <2>2. /\ consumer'[c].phase = "caught" /\ consumer'[c].job = consumer[c].job
        /\ consumer'[c].token = consumer[c].token /\ consumer'[c].tries = consumer[c].tries
    BY <1>0, <2>1 DEF Consumer
  <2> QED BY <1>4, <2>2 DEF ConsumerMove, Busy
<1> QED BY <1>1, <1>2, <1>3, <1>4

LEMMA ConsumerMoves ==
  ASSUME Typed, [Next]_vars, NEW d \in Consumers
  PROVE  ConsumerMove(d)
<1>0. consumer \in [Consumers -> Consumer]
  BY DEF Typed, TypeOK
<1>1. ASSUME NEW c \in Consumers, ConsumerStep(c) PROVE ConsumerMove(d)
  <2>1. CASE Claim(c)
    <3>1. CASE d = c
      BY <2>1, <3>1 DEF ConsumerMove
    <3>2. CASE d # c
      <4>1. consumer'[d] = consumer[d]
        BY <1>0, <2>1, <3>2 DEF Claim
      <4> QED BY <4>1 DEF ConsumerMove, Busy
    <3> QED BY <3>1, <3>2
  <2>2. CASE Begin(c)
    <3>1. \/ \E phase \in {"executing"} : Goto(c, phase)
          \/ \E error \in Error : Raise(c, error)
      BY <2>2 DEF Begin, Error
    <3> QED BY <2>2, <3>1, LocalMoves DEF Begin, Phase
  <2>3. CASE Execute(c)
    <3>1. \/ \E phase \in {"finishing", "failing"} : Goto(c, phase)
          \/ \E error \in Error : Raise(c, error)
      BY <2>3 DEF Execute, Error
    <3> QED BY <2>3, <3>1, LocalMoves DEF Execute, Phase
  <2>4. CASE Decide(c)
    <3>1. \/ Rest(c)
          \/ \E phase \in {"cancelling", "closing", "failing"} :
               /\ Goto(c, phase)
               /\ phase = "closing" => consumer[c].tries < MaxAttempts
      BY <2>4 DEF Decide
    <3> QED BY <2>4, <3>1, LocalMoves DEF Decide, Phase
  <2>5. CASE Finish(c) \/ Fail(c) \/ AcknowledgeCancel(c)
    BY <2>5, LocalMoves DEF Finish, Fail, AcknowledgeCancel, FinalizeFrom
  <2>6. CASE ScheduleRetry(c)
    BY <2>6, LocalMoves DEF ScheduleRetry, Phase
  <2>7. CASE Requeue(c)
    BY <2>7, LocalMoves DEF Requeue
  <2> QED BY <1>1, <2>1, <2>2, <2>3, <2>4, <2>5, <2>6, <2>7 DEF ConsumerStep
<1>2. ASSUME NEW c \in Consumers, Drop(c) PROVE ConsumerMove(d)
  BY <1>2, LocalMoves DEF Drop
<1>3. ASSUME NEW c \in Consumers, Heartbeat(c) PROVE ConsumerMove(d)
  <2>1. \/ consumer'[d] = consumer[d]
        \/ consumer'[d] = [consumer[d] EXCEPT !.heart = FALSE]
    BY <1>0, <1>3 DEF Heartbeat
  <2>2. /\ consumer'[d].phase = consumer[d].phase /\ consumer'[d].job = consumer[d].job
        /\ consumer'[d].token = consumer[d].token /\ consumer'[d].tries = consumer[d].tries
    BY <1>0, <2>1 DEF Consumer
  <2> QED BY <2>2 DEF ConsumerMove, Busy
<1>4. ASSUME NEW p \in Processes, Crash(p) PROVE ConsumerMove(d)
  <2>1. consumer'[d] = Idle \/ consumer'[d] = consumer[d]
    BY <1>4 DEF Crash
  <2> QED BY <2>1 DEF ConsumerMove, Busy, Idle
<1>5. ASSUME UNCHANGED consumer PROVE ConsumerMove(d)
  BY <1>5 DEF ConsumerMove, Busy
<1>6. \/ \E j \in Jobs : Create(j) \/ OperatorStep(j) \/ LeaseExpires(j) \/ BecomesDue(j)
      \/ \E p \in Processes : Boot(p) \/ Recover(p)
      \/ \E s \in Terminal : ClearStatus(s)
      \/ \E c \in Chapters : EditChapter(c)
      \/ \E j \in Gated : DependencyChanges(j)
      \/ \E p \in Providers : ProviderChanges(p)
      \/ UNCHANGED vars
      => UNCHANGED consumer
  BY DEF Create, OperatorStep, RequestCancel, CancelAnalysis, Retry, CheckDelete, Delete,
         LeaseExpires, BecomesDue, Boot, Recover, ClearStatus, EditChapter,
         DependencyChanges, ProviderChanges, vars
<1> QED BY <1>1, <1>2, <1>3, <1>4, <1>5, <1>6 DEF Next

\* Two claims never share a job and a token; a consumer's count of tries is the
\* number of the attempt it runs; a retry is scheduled only below the budget.
TokensAreDistinct ==
  \A c, d \in Consumers :
    c # d /\ Busy(c) /\ Busy(d) /\ consumer[c].job = consumer[d].job
      => \/ consumer[c].token # consumer[d].token
         \/ job[consumer[c].job].status = "deleted"

TriesAreTokens == \A c \in Consumers : Busy(c) => consumer[c].tries = consumer[c].token

RetriesAreAllowed ==
  \A c \in Consumers :
    consumer[c].phase \in {"closing", "requeueing"} => consumer[c].tries < MaxAttempts

\* A stale row stays bound to a source that changed, a deleted row has no
\* attempts, and an operator clears only rows that were created.
StaleIsOfItsSource ==
  \A j \in Jobs : job[j].status = "stale" => job[j].category = "source_changed"

DeletedIsEmpty == \A j \in Jobs : job[j].status = "deleted" => job[j].attempts = 0

ClearedIsCreated == \A j \in clearing : job[j].status # "absent"

\* What is needed to tell which moves a row can make.
Bookkeeping ==
  /\ TriesAreTokens
  /\ RetriesAreAllowed
  /\ StaleIsOfItsSource
  /\ DeletedIsEmpty
  /\ ClearedIsCreated

-----------------------------------------------------------------------------
(* What a step may do to a row *)

\* The status, attempts, token and (when stale) category stay, and a requested
\* cancellation is not taken back.
Still(i) ==
  /\ job'[i].status = job[i].status
  /\ job'[i].attempts = job[i].attempts
  /\ job'[i].token = job[i].token
  /\ job[i].status = "stale" => job'[i].category = job[i].category
  /\ job[i].cancel => job'[i].cancel

Moves(i, from, to) ==
  /\ job[i].status \in from
  /\ job'[i].status \in to
  /\ job'[i].attempts = job[i].attempts

Taken(i) ==
  /\ \E c \in Consumers : Claim(c)
  /\ job[i].status \in {"pending", "waiting_dependency"}
  /\ job'[i].status = "running"
  /\ job'[i].attempts = job[i].attempts + 1

Reported(i) == (\E c \in Consumers : ConsumerStep(c)) /\ Moves(i, {"running"}, Terminal)

\* Only a consumer's report makes a job succeed.
RowMove(i) ==
  \/ Still(i)
  \/ Create(i) /\ Moves(i, {"absent"}, {"pending", "waiting_dependency"})
  \/ Moves(i, {"waiting_dependency"}, {"pending"})
  \/ Moves(i, {"pending"}, {"stale"}) /\ job'[i].category = "source_changed"
  \/ Taken(i)
  \/ Reported(i)
  \/ Moves(i, {"running"}, {"failed", "cancelled"})
  \/ Moves(i, {"running"}, {"pending"}) /\ job[i].attempts < MaxAttempts
  \/ Moves(i, {"pending"}, {"cancelled"})
  \/ Moves(i, {"failed"}, {"pending"})
  \/ job[i].status # "absent" /\ job'[i] = DeletedRow

\* The fields of the rows the queue's updates write.
LEMMA WrittenRows ==
  ASSUME NEW row \in Row
  PROVE  /\ StaleRow(row).status = "stale" /\ StaleRow(row).category = "source_changed"
         /\ StaleRow(row).attempts = row.attempts
         /\ PromotedRow(row) \in Row /\ PromotedRow(row).status = "pending"
         /\ PromotedRow(row).attempts = row.attempts
         /\ \A p \in Processes, token \in Nat :
              /\ ClaimedRow(row, p, token).status = "running"
              /\ ClaimedRow(row, p, token).attempts = row.attempts + 1
              /\ ClaimedRow(row, p, token).token = token
         /\ \A next \in {"null", "future", "due"} :
              /\ RequeuedRow(row, next).status = "pending"
              /\ RequeuedRow(row, next).attempts = row.attempts
         /\ RetriedRow(row).status = "pending" /\ RetriedRow(row).attempts = row.attempts
         /\ RecoveredRow(row).attempts = row.attempts
         /\ \/ RecoveredRow(row).status = "pending" /\ row.attempts < MaxAttempts
            \/ RecoveredRow(row).status = "failed"
<1>1. StaleRow(row).status = "stale" /\ StaleRow(row).category = "source_changed"
      /\ StaleRow(row).attempts = row.attempts
  BY DEF StaleRow, Row
<1>2. PromotedRow(row) \in Row /\ PromotedRow(row).status = "pending"
      /\ PromotedRow(row).attempts = row.attempts
  BY DEF PromotedRow, Row, Status
<1>3. ASSUME NEW p \in Processes, NEW token \in Nat
      PROVE  /\ ClaimedRow(row, p, token).status = "running"
             /\ ClaimedRow(row, p, token).attempts = row.attempts + 1
             /\ ClaimedRow(row, p, token).token = token
  BY DEF ClaimedRow, Row
<1>4. ASSUME NEW next \in {"null", "future", "due"}
      PROVE  /\ RequeuedRow(row, next).status = "pending"
             /\ RequeuedRow(row, next).attempts = row.attempts
  BY DEF RequeuedRow, Row
<1>5. RetriedRow(row).status = "pending" /\ RetriedRow(row).attempts = row.attempts
  BY DEF RetriedRow, Row
<1>6. /\ RecoveredRow(row).attempts = row.attempts
      /\ \/ RecoveredRow(row).status = "pending" /\ row.attempts < MaxAttempts
         \/ RecoveredRow(row).status = "failed"
  <2>1. LET failed == [row EXCEPT !.status = "failed", !.lease = "null", !.category = "none"]
        IN  failed.status = "failed" /\ failed.attempts = row.attempts
    BY DEF Row
  <2> QED BY <1>4, <2>1 DEF RecoveredRow
<1> QED BY <1>1, <1>2, <1>3, <1>4, <1>5, <1>6

LEMMA ClaimMovesRow ==
  ASSUME Typed, NEW c \in Consumers, Claim(c), NEW i \in Jobs
  PROVE  RowMove(i)
<1>1. PICK j \in Scanned(ConsumerOf[c]) :
        /\ job' = [k \in Jobs |-> RowAfterClaim(k, j, ProcessOf[c])]
        /\ attempts' = [attempts EXCEPT ![j] = Append(@, "running")]
  BY DEF Claim
<1>2. j \in Jobs /\ j \notin MarkedStale /\ job[j].status \in {"pending", "waiting_dependency"}
  BY DEF Scanned, Candidate
<1>3. job[i] \in Row /\ job[j] \in Row /\ Len(attempts[j]) + 1 \in Nat /\ ProcessOf[c] \in Processes
  BY <1>2, ConsumerAssumption DEF Typed, TypeOK
<1>4. job'[i] = RowAfterClaim(i, j, ProcessOf[c])
  BY <1>1
<1>5. CASE i = j
  <2>1. job'[i] = ClaimedRow(IF Promotable(j) THEN PromotedRow(job[j]) ELSE job[j],
                             ProcessOf[c], Len(attempts[j]) + 1)
    BY <1>2, <1>4, <1>5 DEF RowAfterClaim
  <2>2. job'[i].status = "running" /\ job'[i].attempts = job[i].attempts + 1
    BY <1>3, <1>5, <2>1, WrittenRows
  <2> QED BY <1>2, <1>5, <2>2 DEF RowMove, Taken
<1>6. CASE i # j
  <2>1. \/ job'[i] = job[i]
        \/ job[i].status = "pending" /\ job'[i] = StaleRow(job[i])
        \/ job[i].status = "waiting_dependency" /\ job'[i] = PromotedRow(job[i])
    BY <1>4, <1>6 DEF RowAfterClaim, MarkedStale, Promotable
  <2> QED BY <1>3, <2>1, WrittenRows DEF RowMove, Still, Moves
<1> QED BY <1>5, <1>6

LEMMA RequeueMovesRow ==
  ASSUME IInv, Bookkeeping, NEW c \in Consumers, Requeue(c), NEW i \in Jobs
  PROVE  RowMove(i)
<1> DEFINE j == consumer[c].job
<1>1. /\ job \in [Jobs -> Row] /\ consumer[c] \in Consumer /\ Busy(c) /\ j \in Jobs
  BY DEF Requeue, IInv, Typed, TypeOK, ActiveHasJob, Busy
<1>2. CASE job' = job
  BY <1>2 DEF RowMove, Still
<1>3. CASE Owns(c) /\ i = j
  <2>1. job'[i] = RequeuedRow(job[i], "future")
    BY <1>1, <1>3 DEF Requeue
  <2>2. job[i].attempts = consumer[c].tries
    BY <1>1, <1>3 DEF IInv, RunningHasItsAttempt, Owns, Bookkeeping, TriesAreTokens
  <2>3. consumer[c].tries < MaxAttempts
    BY DEF Requeue, Bookkeeping, RetriesAreAllowed
  <2> QED BY <1>1, <1>3, <2>1, <2>2, <2>3, WrittenRows DEF RowMove, Moves, Owns, Running
<1>4. CASE Owns(c) /\ i # j
  <2>1. job'[i] = job[i]
    BY <1>1, <1>4 DEF Requeue
  <2> QED BY <2>1 DEF RowMove, Still
<1> QED BY <1>2, <1>3, <1>4 DEF Requeue

LEMMA FinalizeMovesRow ==
  ASSUME Typed, NEW c \in Consumers, ConsumerStep(c), NEW phase \in Phase \ {"idle"},
         NEW outcome \in Terminal, FinalizeFrom(c, phase, outcome), NEW i \in Jobs
  PROVE  RowMove(i)
<1> DEFINE j == consumer[c].job
<1>1. j \in Jobs /\ job \in [Jobs -> Row]
  BY DEF FinalizeFrom, Typed, ActiveHasJob, TypeOK
<1>2. CASE UNCHANGED rows
  BY <1>2 DEF rows, RowMove, Still
<1>3. ASSUME Owns(c), NEW row \in Row, job' = [job EXCEPT ![j] = row],
             row = [job[j] EXCEPT !.status = row.status, !.lease = "null",
                                  !.category = row.category],
             row.status = FinalOutcome(j, outcome)
      PROVE  RowMove(i)
  <2>1. row.attempts = job[j].attempts /\ row.status \in Terminal
    BY <1>1, <1>3 DEF Row, FinalOutcome, Terminal
  <2>2. job'[i] = IF i = j THEN row ELSE job[i]
    BY <1>1, <1>3
  <2> QED BY <1>3, <2>1, <2>2 DEF RowMove, Reported, Still, Moves, Owns, Running
<1>4. \/ UNCHANGED rows
      \/ /\ Owns(c)
         /\ \E row \in Row :
              /\ job' = [job EXCEPT ![j] = row]
              /\ row = [job[j] EXCEPT !.status = row.status, !.lease = "null",
                                      !.category = row.category]
              /\ row.status = FinalOutcome(j, outcome)
  BY <1>1, FinalizeFacts DEF FinalizeFrom, Typed
<1> QED BY <1>2, <1>3, <1>4

LEMMA RowMoves ==
  ASSUME IInv, Bookkeeping, [Next]_vars, NEW i \in Jobs
  PROVE  RowMove(i)
<1>0. /\ Typed /\ job \in [Jobs -> Row] /\ job[i] \in Row
      /\ \A k \in Jobs : job[k] \in Row
  BY DEF IInv, Typed, TypeOK
<1>1. ASSUME NEW c \in Consumers, ConsumerStep(c) PROVE RowMove(i)
  <2>1. CASE Claim(c)
    BY <1>0, <2>1, ClaimMovesRow
  <2>2. CASE Begin(c) \/ Execute(c) \/ Decide(c) \/ ScheduleRetry(c)
    BY <2>2 DEF Begin, Execute, Decide, ScheduleRetry, rows, RowMove, Still
  <2>3. CASE Finish(c)
    BY <1>0, <1>1, <2>3, FinalizeMovesRow DEF Finish, Phase, Terminal
  <2>4. CASE Fail(c)
    BY <1>0, <1>1, <2>4, FinalizeMovesRow DEF Fail, Phase, Terminal
  <2>5. CASE AcknowledgeCancel(c)
    BY <1>0, <1>1, <2>5, FinalizeMovesRow DEF AcknowledgeCancel, Phase, Terminal
  <2>6. CASE Requeue(c)
    BY <2>6, RequeueMovesRow
  <2> QED BY <1>1, <2>1, <2>2, <2>3, <2>4, <2>5, <2>6 DEF ConsumerStep
<1>2. ASSUME job'[i] \in {job[i], [job[i] EXCEPT !.lease = "fresh"],
                          [job[i] EXCEPT !.lease = "expired"], [job[i] EXCEPT !.next = "due"],
                          [job[i] EXCEPT !.owner = DeadProcess]}
      PROVE  RowMove(i)
  <2>1. Still(i)
    BY <1>0, <1>2 DEF Still, Row
  <2> QED BY <2>1 DEF RowMove
<1>3. ASSUME NEW c \in Consumers, Drop(c) \/ Heartbeat(c) PROVE RowMove(i)
  <2>1. job'[i] \in {job[i], [job[i] EXCEPT !.lease = "fresh"]}
    BY <1>0, <1>3 DEF Drop, Heartbeat, rows
  <2> QED BY <1>2, <2>1
<1>4. ASSUME NEW j \in Jobs, LeaseExpires(j) \/ BecomesDue(j) PROVE RowMove(i)
  <2>1. job'[i] \in {job[i], [job[i] EXCEPT !.lease = "expired"], [job[i] EXCEPT !.next = "due"]}
    BY <1>0, <1>4 DEF LeaseExpires, BecomesDue
  <2> QED BY <1>2, <2>1
<1>5. ASSUME NEW j \in Jobs, Create(j) PROVE RowMove(i)
  <2>1. CASE i # j
    <3>1. job'[i] = job[i]
      BY <1>0, <1>5, <2>1 DEF Create
    <3> QED BY <1>2, <3>1
  <2>2. CASE i = j
    <3>1. /\ job[i].status = "absent" /\ job'[i].status \in {"pending", "waiting_dependency"}
          /\ job'[i].attempts = job[i].attempts
      BY <1>0, <1>5, <2>2 DEF Create, Row
    <3> QED BY <1>5, <2>2, <3>1 DEF RowMove, Moves
  <2> QED BY <2>1, <2>2
<1>6. ASSUME NEW j \in Jobs, OperatorStep(j) PROVE RowMove(i)
  <2>1. CASE RequestCancel(j)
    <3>1. CASE job'[i] = job[i]
      BY <1>2, <3>1
    <3>2. CASE i = j /\ job[i].status = "pending"
               /\ job'[i] = [job[i] EXCEPT !.status = "cancelled", !.cancel = TRUE, !.next = "null"]
      <4>1. job'[i].status = "cancelled" /\ job'[i].attempts = job[i].attempts
        BY <1>0, <3>2 DEF Row
      <4> QED BY <3>2, <4>1 DEF RowMove, Moves
    <3>3. CASE job'[i] = [job[i] EXCEPT !.cancel = TRUE]
      <4>1. PICK b \in BOOLEAN : b /\ job'[i] = [job[i] EXCEPT !.cancel = b]
        BY <3>3
      <4>2. /\ job'[i].status = job[i].status /\ job'[i].attempts = job[i].attempts
            /\ job'[i].token = job[i].token /\ job'[i].category = job[i].category
        BY <1>0, <4>1 DEF Row
      <4>3. job'[i].cancel
        BY <1>0, <4>1 DEF Row
      <4> QED BY <4>2, <4>3 DEF RowMove, Still
    <3> QED BY <1>0, <2>1, <3>1, <3>2, <3>3 DEF RequestCancel
  <2>2. CASE CancelAnalysis(j)
    <3>1. CASE i # j
      <4>1. job'[i] = job[i]
        BY <1>0, <2>2, <3>1 DEF CancelAnalysis
      <4> QED BY <1>2, <4>1
    <3>2. CASE i = j
      <4>1. /\ job[i].status \in {"pending", "running"} /\ job'[i].status = "cancelled"
            /\ job'[i].attempts = job[i].attempts
        BY <1>0, <2>2, <3>2 DEF CancelAnalysis, Row
      <4> QED BY <4>1 DEF RowMove, Moves, Terminal
    <3> QED BY <3>1, <3>2
  <2>3. CASE Retry(j)
    <3>1. CASE i # j
      <4>1. job'[i] = job[i]
        BY <1>0, <2>3, <3>1 DEF Retry
      <4> QED BY <1>2, <4>1
    <3>2. CASE i = j
      <4>1. job'[i] = RetriedRow(job[i]) /\ job[i].status = "failed"
        BY <1>0, <2>3, <3>2 DEF Retry, CanRetry, Bookkeeping, StaleIsOfItsSource
      <4> QED BY <1>0, <4>1, WrittenRows DEF RowMove, Moves
    <3> QED BY <3>1, <3>2
  <2>4. CASE CheckDelete(j)
    BY <1>2, <2>4 DEF CheckDelete, rows
  <2>5. CASE Delete(j)
    <3>1. \/ job'[i] = job[i]
          \/ i \in clearing /\ job'[i] = DeletedRow
      BY <1>0, <2>5 DEF Delete
    <3> QED BY <1>2, <3>1 DEF RowMove, Bookkeeping, ClearedIsCreated
  <2> QED BY <1>6, <2>1, <2>2, <2>3, <2>4, <2>5 DEF OperatorStep
<1>7. ASSUME NEW p \in Processes, Crash(p) PROVE RowMove(i)
  BY <1>2, <1>7 DEF Crash
<1>8. ASSUME NEW p \in Processes, Boot(p) PROVE RowMove(i)
  <2>1. \/ job'[i] = job[i]
        \/ Running(i) /\ job'[i] = [job[i] EXCEPT !.status = "failed"]
    BY <1>8 DEF Boot
  <2>2. LET failed == [job[i] EXCEPT !.status = "failed"]
        IN  failed.status = "failed" /\ failed.attempts = job[i].attempts
    BY <1>0 DEF Row
  <2> QED BY <1>2, <2>1, <2>2 DEF RowMove, Moves, Running, Terminal
<1>9. ASSUME NEW p \in Processes, Recover(p) PROVE RowMove(i)
  <2>1. \/ job'[i] = job[i]
        \/ Running(i) /\ job'[i] = RecoveredRow(job[i])
    BY <1>9 DEF Recover, Expired
  <2> QED BY <1>0, <1>2, <2>1, WrittenRows DEF RowMove, Moves, Running, Terminal
<1>10. ASSUME NEW s \in Terminal, ClearStatus(s) PROVE RowMove(i)
  <2>1. \/ job'[i] = job[i]
        \/ job[i].status \in Terminal /\ job'[i] = DeletedRow
    BY <1>10 DEF ClearStatus
  <2> QED BY <1>2, <2>1 DEF RowMove, Terminal
<1>11. ASSUME UNCHANGED job PROVE RowMove(i)
  BY <1>2, <1>11
<1>12. \/ \E c \in Chapters : EditChapter(c)
       \/ \E j \in Gated : DependencyChanges(j)
       \/ \E p \in Providers : ProviderChanges(p)
       \/ UNCHANGED vars
       => UNCHANGED job
  BY DEF EditChapter, DependencyChanges, ProviderChanges, vars, rows
<1> QED BY <1>1, <1>3, <1>4, <1>5, <1>6, <1>7, <1>8, <1>9, <1>10, <1>11, <1>12 DEF Next

\* What a claim takes: a queued job with capacity, in a new last attempt.
LEMMA ClaimFacts ==
  ASSUME IInv, NEW c \in Consumers, Claim(c)
  PROVE  \E j \in Jobs :
           /\ job[j].status \in {"pending", "waiting_dependency"}
           /\ HasCapacity(j)
           /\ job'[j].status = "running" /\ job'[j].token = Len(attempts[j]) + 1
           /\ \A i \in Jobs \ {j} :
                \/ job'[i] = job[i]
                \/ job'[i].status \in {"stale", "pending"}
           /\ attempts' = [attempts EXCEPT ![j] = Append(@, "running")]
           /\ \A d \in Consumers \ {c} : consumer'[d] = consumer[d]
           /\ consumer[c].phase = "idle"
           /\ consumer'[c].phase = "claimed" /\ consumer'[c].job = j
           /\ consumer'[c].token = Len(attempts[j]) + 1
           /\ consumer'[c].tries = Len(attempts[j]) + 1
<1>1. PICK j \in Scanned(ConsumerOf[c]) :
        /\ Runnable(j)
        /\ job' = [i \in Jobs |-> RowAfterClaim(i, j, ProcessOf[c])]
        /\ attempts' = [attempts EXCEPT ![j] = Append(@, "running")]
        /\ consumer' = [consumer EXCEPT ![c] =
             [phase |-> "claimed", job |-> j, token |-> Len(attempts[j]) + 1,
              tries |-> job[j].attempts + 1, error |-> "none", heart |-> TRUE]]
  BY DEF Claim
<1>2. j \in Jobs /\ j \notin MarkedStale /\ job[j].status \in {"pending", "waiting_dependency"}
  BY DEF Scanned, Candidate
<1>3. /\ \A i \in Jobs : job[i] \in Row
      /\ Len(attempts[j]) + 1 \in Nat /\ ProcessOf[c] \in Processes
      /\ consumer \in [Consumers -> Consumer]
      /\ job[j].attempts = Len(attempts[j])
  BY <1>2, ConsumerAssumption DEF IInv, Typed, TypeOK, RunningHasItsAttempt
<1>4. job'[j].status = "running" /\ job'[j].token = Len(attempts[j]) + 1
  <2>1. job'[j] = ClaimedRow(IF Promotable(j) THEN PromotedRow(job[j]) ELSE job[j],
                             ProcessOf[c], Len(attempts[j]) + 1)
    BY <1>1, <1>2 DEF RowAfterClaim
  <2> QED BY <1>2, <1>3, <2>1, WrittenRows
<1>5. ASSUME NEW i \in Jobs \ {j}
      PROVE  job'[i] = job[i] \/ job'[i].status \in {"stale", "pending"}
  <2>1. job'[i] \in {job[i], StaleRow(job[i]), PromotedRow(job[i])}
    BY <1>1, <1>5 DEF RowAfterClaim
  <2> QED BY <1>3, <1>5, <2>1, WrittenRows
<1>6. /\ \A d \in Consumers \ {c} : consumer'[d] = consumer[d]
      /\ consumer'[c].phase = "claimed" /\ consumer'[c].job = j
      /\ consumer'[c].token = Len(attempts[j]) + 1
      /\ consumer'[c].tries = Len(attempts[j]) + 1
  BY <1>1, <1>3
<1>7. HasCapacity(j) /\ consumer[c].phase = "idle"
  BY <1>1 DEF Runnable, Claim
<1> QED BY <1>1, <1>2, <1>4, <1>5, <1>6, <1>7

LEMMA BookkeepingInit == Init => Bookkeeping /\ TokensAreDistinct
BY DEF Init, Idle, BlankRow, Busy, Bookkeeping, TriesAreTokens, RetriesAreAllowed,
       StaleIsOfItsSource, DeletedIsEmpty, ClearedIsCreated, TokensAreDistinct

LEMMA BookkeepingStep ==
  ASSUME IInv, Bookkeeping, [Next]_vars
  PROVE  Bookkeeping'
<1>0. /\ Typed
      /\ \A c \in Consumers : ConsumerMove(c)
      /\ \A i \in Jobs : RowMove(i)
  BY ConsumerMoves, RowMoves DEF IInv
<1>1. ASSUME NEW c \in Consumers
      PROVE  /\ Busy(c)' => consumer'[c].tries = consumer'[c].token
             /\ consumer'[c].phase \in {"closing", "requeueing"} => consumer'[c].tries < MaxAttempts
  <2>1. CASE consumer'[c].phase = "idle"
    BY <2>1 DEF Busy
  <2>2. CASE Claim(c)
    BY <2>2, ClaimFacts
  <2>3. CASE /\ Busy(c)
             /\ consumer'[c].token = consumer[c].token
             /\ consumer'[c].tries = consumer[c].tries
             /\ consumer'[c].phase = "closing" =>
                  consumer[c].phase = "closing" \/ consumer[c].tries < MaxAttempts
             /\ consumer'[c].phase = "requeueing" => consumer[c].phase \in {"closing", "requeueing"}
    BY <2>3 DEF Bookkeeping, TriesAreTokens, RetriesAreAllowed
  <2> QED BY <1>0, <2>1, <2>2, <2>3 DEF ConsumerMove
<1>2. DeletedRow.status = "deleted" /\ DeletedRow.attempts = 0
  BY DEF DeletedRow, BlankRow
<1>3. ASSUME NEW i \in Jobs
      PROVE  /\ job'[i].status = "stale" => job'[i].category = "source_changed"
             /\ job'[i].status = "deleted" => job'[i].attempts = 0
             /\ job[i].status # "absent" => job'[i].status # "absent"
  <2>1. RowMove(i) /\ (job[i].status = "stale" => job[i].category = "source_changed")
        /\ (job[i].status = "deleted" => job[i].attempts = 0)
    BY <1>0 DEF Bookkeeping, StaleIsOfItsSource, DeletedIsEmpty
  <2> QED BY <1>2, <2>1 DEF RowMove, Reported, Still, Moves, Taken, Terminal
<1>4. \A j \in clearing' : j \in clearing \/ (j \in Jobs /\ job[j].status # "absent")
  <2>1. (\E j \in Jobs : CheckDelete(j) \/ Delete(j)) \/ UNCHANGED clearing
    BY DEF Next, ConsumerStep, Claim, Begin, Execute, Decide, Finish, Fail, AcknowledgeCancel,
           FinalizeFrom, ScheduleRetry, Requeue, Drop, Heartbeat, Create, OperatorStep,
           RequestCancel, CancelAnalysis, Retry, LeaseExpires, BecomesDue, Crash, Boot, Recover,
           ClearStatus, EditChapter, DependencyChanges, ProviderChanges, vars
  <2> QED BY <2>1 DEF CheckDelete, Delete, Terminal
<1>5. ClearedIsCreated'
  BY <1>0, <1>3, <1>4 DEF Bookkeeping, ClearedIsCreated, Typed, TypeOK
<1> QED BY <1>1, <1>3, <1>5 DEF Bookkeeping, TriesAreTokens, RetriesAreAllowed,
             StaleIsOfItsSource, DeletedIsEmpty

LEMMA TokensStep ==
  ASSUME IInv, Bookkeeping, TokensAreDistinct, [Next]_vars
  PROVE  TokensAreDistinct'
<1>0. /\ \A c \in Consumers : ConsumerMove(c)
      /\ \A i \in Jobs : RowMove(i)
      /\ \A c \in Consumers : Busy(c) => consumer[c].job \in Jobs
  BY ConsumerMoves, RowMoves DEF IInv, Typed, ActiveHasJob, Busy
<1>1. \A i \in Jobs : job[i].status = "deleted" => job'[i].status = "deleted"
  <2>1. DeletedRow.status = "deleted"
    BY DEF DeletedRow, BlankRow
  <2> QED BY <1>0, <2>1 DEF RowMove, Reported, Still, Moves, Taken
<1>2. ASSUME NEW c \in Consumers, NEW d \in Consumers, c # d, Claim(c),
             consumer'[d].phase # "idle",
             consumer'[c].job = consumer'[d].job
      PROVE  consumer'[c].token # consumer'[d].token
  <2>1. PICK j \in Jobs :
          /\ job[j].status \in {"pending", "waiting_dependency"}
          /\ \A e \in Consumers \ {c} : consumer'[e] = consumer[e]
          /\ consumer'[c].job = j /\ consumer'[c].token = Len(attempts[j]) + 1
    BY <1>2, ClaimFacts
  <2>2. consumer'[d] = consumer[d]
    BY <1>2, <2>1
  <2>3. Busy(d) /\ consumer[d].job = j /\ consumer'[d].token = consumer[d].token
    <3>1. consumer[d].phase # "idle"
      BY <1>2, <2>2
    <3>2. consumer'[c].job = j /\ consumer'[c].job = consumer'[d].job
      BY <1>2, <2>1
    <3>3. consumer[d].job = j
      BY <2>2, <3>2
    <3> QED BY <2>2, <3>1, <3>3 DEF Busy
  <2>4. consumer[d].token \in 1..Len(attempts[j])
    BY <2>1, <2>3 DEF IInv, TokenIsAnAttempt, Busy
  <2> QED BY <2>1, <2>3, <2>4
<1>3. ASSUME NEW c \in Consumers, NEW d \in Consumers, c # d,
             consumer'[c].phase # "idle", consumer'[d].phase # "idle",
             consumer'[c].job = consumer'[d].job
      PROVE  consumer'[c].token # consumer'[d].token \/ job'[consumer'[c].job].status = "deleted"
  <2>1. CASE Claim(c) \/ Claim(d)
    BY <1>2, <1>3, <2>1
  <2>2. CASE ~Claim(c) /\ ~Claim(d)
    <3>1. /\ Busy(c) /\ Busy(d)
          /\ consumer'[c].job = consumer[c].job /\ consumer'[c].token = consumer[c].token
          /\ consumer'[d].job = consumer[d].job /\ consumer'[d].token = consumer[d].token
      BY <1>0, <1>3, <2>2 DEF ConsumerMove, Busy
    <3> QED BY <1>0, <1>1, <1>3, <3>1 DEF TokensAreDistinct
  <2> QED BY <2>1, <2>2
<1> QED BY <1>3 DEF TokensAreDistinct, Busy

LEMMA BooksInductive == Spec => [](IInv /\ Bookkeeping /\ TokensAreDistinct)
<1>1. Init => IInv /\ Bookkeeping /\ TokensAreDistinct
  BY IInvInit, BookkeepingInit
<1>2. (IInv /\ Bookkeeping /\ TokensAreDistinct) /\ [Next]_vars
        => (IInv /\ Bookkeeping /\ TokensAreDistinct)'
  BY IInvStep, BookkeepingStep, TokensStep
<1> QED BY <1>1, <1>2, PTL DEF Spec

-----------------------------------------------------------------------------
(* The queue implements the lifecycle *)

LEMMA RowMovesAreLifecycleMoves ==
  ASSUME IInv, Bookkeeping, NEW i \in Jobs, RowMove(i), job'[i] \in Row
  PROVE  Lifecycle!Move(i)
<1>1. /\ Lifecycle!Move(i) <=>
           \/ StageOf(job[i])' = StageOf(job[i]) /\ job'[i].attempts = job[i].attempts
           \/ /\ StageOf(job[i]) = "absent" /\ StageOf(job[i])' = "queued"
              /\ job'[i].attempts = job[i].attempts
           \/ /\ StageOf(job[i]) = "queued" /\ StageOf(job[i])' = "held"
              /\ job'[i].attempts = job[i].attempts + 1
           \/ /\ StageOf(job[i]) = "held" /\ job[i].attempts < MaxAttempts
              /\ StageOf(job[i])' = "queued" /\ job'[i].attempts = job[i].attempts
           \/ /\ StageOf(job[i]) = "held" /\ StageOf(job[i])' = "succeeded"
              /\ job'[i].attempts = job[i].attempts
           \/ /\ StageOf(job[i]) = "held" /\ StageOf(job[i])' = "failed"
              /\ job'[i].attempts = job[i].attempts
           \/ /\ StageOf(job[i]) \in {"queued", "held"} /\ StageOf(job[i])' = "abandoned"
              /\ job'[i].attempts = job[i].attempts
           \/ /\ StageOf(job[i]) = "failed" /\ StageOf(job[i])' = "queued"
              /\ job'[i].attempts = job[i].attempts
           \/ /\ StageOf(job[i]) \notin {"absent", "gone"} /\ StageOf(job[i])' = "gone"
              /\ job'[i].attempts = 0
  BY DEF Lifecycle!Move, Lifecycle!Keep, Lifecycle!Submit, Lifecycle!Hold, Lifecycle!GiveBack,
         Lifecycle!Succeed, Lifecycle!Fail, Lifecycle!Abandon, Lifecycle!Reopen, Lifecycle!Remove
<1>2. DeletedRow.status = "deleted" /\ DeletedRow.attempts = 0
  BY DEF DeletedRow, BlankRow
<1>3. job[i].status = "deleted" => job[i].attempts = 0
  BY DEF Bookkeeping, DeletedIsEmpty
<1>4. job[i].status \in Status /\ job'[i].status \in Status
  BY DEF IInv, Typed, TypeOK, Row
<1> QED BY <1>1, <1>2, <1>3, <1>4
        DEF RowMove, Reported, Still, Moves, Taken, StageOf, Status, Terminal

\* Every step of the queue moves every job as JobLifecycle allows: one holder at
\* a time, turns without gaps, back to the queue only within the retry budget,
\* and back from the end only by an operator's retry of a failure.
THEOREM QueueImplementsLifecycle == Spec => ImplementsLifecycle
<1> DEFINE stage == [j \in Jobs |-> StageOf(job[j])]
           turn == [j \in Jobs |-> job[j].attempts]
<1>1. Init => Lifecycle!Init
  <2>1. BlankRow.status = "absent" /\ BlankRow.attempts = 0
    BY DEF BlankRow
  <2> QED BY <2>1 DEF Init, Lifecycle!Init, StageOf
<1>2. IInv' => stage' \in [Jobs -> Lifecycle!Stage] /\ turn' \in [Jobs -> Nat]
  <2> SUFFICES ASSUME IInv', NEW j \in Jobs
               PROVE  StageOf(job[j])' \in Lifecycle!Stage /\ job'[j].attempts \in Nat
    OBVIOUS
  <2>1. job'[j].status \in Status /\ job'[j].attempts \in Nat
    BY DEF IInv, Typed, TypeOK, Row
  <2> QED BY <2>1 DEF StageOf, Lifecycle!Stage, Status, Terminal
<1>3. ASSUME IInv, Bookkeeping, IInv', [Next]_vars
      PROVE  Lifecycle!Next
  <2>1. stage' \in [Jobs -> Lifecycle!Stage] /\ turn' \in [Jobs -> Nat]
    BY <1>2, <1>3
  <2>2. \A j \in Jobs : Lifecycle!Move(j)
    <3>1. ASSUME NEW j \in Jobs PROVE Lifecycle!Move(j)
      <4>1. RowMove(j)
        BY <1>3, RowMoves
      <4>2. job'[j] \in Row
        BY <1>3 DEF IInv, Typed, TypeOK
      <4> QED BY <1>3, <4>1, <4>2, RowMovesAreLifecycleMoves
    <3> QED BY <3>1
  <2> QED BY <2>1, <2>2 DEF Lifecycle!Next
<1>4. IInv /\ Bookkeeping /\ IInv' /\ [Next]_vars => [Lifecycle!Next]_<<stage, turn>>
  BY <1>3
<1> QED BY <1>1, <1>4, BooksInductive, PTL DEF Spec, ImplementsLifecycle, Lifecycle!Spec

-----------------------------------------------------------------------------
(* The success of a job is that of its last attempt *)

\* A consumer that still owns its job and has not scheduled a retry runs an open
\* attempt.
OwnedIsOpen ==
  \A c \in Consumers :
    Busy(c) /\ consumer[c].phase # "requeueing" /\ Owns(c)
      => attempts[consumer[c].job][consumer[c].token] = "running"

\* A step that closes an attempt of a job without ending its run is the first
\* half of a retry; one that ends a run reports for the consumer that owns it;
\* all others leave the history alone, extend it by a claim, or delete it.
HistoryMove(i) ==
  \/ attempts'[i] = attempts[i] /\ (job'[i].status = "success" => job[i].status = "success")
  \/ attempts'[i] = <<>> /\ job'[i].status = "deleted"
  \/ /\ \E c \in Consumers : Claim(c) /\ consumer'[c].job = i
     /\ attempts'[i] = Append(attempts[i], "running")
     /\ job[i].status \in {"pending", "waiting_dependency"} /\ job'[i].status = "running"
  \/ \E c \in Consumers, n \in Nat :
       /\ consumer[c].job = i /\ consumer[c].token = n /\ Busy(c)
       /\ \/ /\ consumer'[c].phase = "requeueing"
             /\ job'[i] = job[i]
             /\ CloseAttempt(i, n, "retry_scheduled")
          \/ /\ consumer[c].phase # "requeueing" /\ Owns(c)
             /\ job'[i].status \in Terminal
             /\ CloseAttempt(i, n, job'[i].status)
  \/ /\ Running(i) /\ ~Running(i)' /\ job'[i].status # "success"
     /\ attempts'[i] = RecoveredAttempts(i)

LEMMA FinalizeMovesHistory ==
  ASSUME Typed, NEW c \in Consumers, NEW phase \in Phase \ {"idle", "requeueing"},
         NEW outcome \in Terminal, FinalizeFrom(c, phase, outcome), NEW i \in Jobs
  PROVE  HistoryMove(i)
<1> DEFINE j == consumer[c].job
           n == consumer[c].token
<1>1. /\ j \in Jobs /\ n \in Nat /\ Busy(c) /\ consumer[c].phase # "requeueing"
      /\ job \in [Jobs -> Row] /\ attempts \in [Jobs -> Seq(Outcome)]
  BY DEF FinalizeFrom, Typed, ActiveHasJob, TypeOK, Consumer, Busy
<1>2. CASE UNCHANGED rows
  BY <1>2 DEF rows, HistoryMove
<1>3. CASE ~UNCHANGED rows
  <2>1. /\ Owns(c)
        /\ \E row \in Row : /\ job' = [job EXCEPT ![j] = row]
                            /\ row.status = FinalOutcome(j, outcome)
        /\ \E final \in Terminal : /\ final = FinalOutcome(j, outcome)
                                   /\ CloseAttempt(j, n, final)
    BY <1>1, <1>3, FinalizeFacts DEF FinalizeFrom, Typed
  <2>2. /\ job'[j].status \in Terminal
        /\ CloseAttempt(j, n, job'[j].status)
        /\ \A k \in Jobs \ {j} : job'[k] = job[k]
    BY <1>1, <2>1
  <2>3. CASE i = j
    BY <1>1, <2>1, <2>2, <2>3 DEF HistoryMove
  <2>4. CASE i # j
    <3>1. attempts'[i] = attempts[i]
      BY <1>1, <2>2, <2>4 DEF CloseAttempt
    <3> QED BY <2>2, <2>4, <3>1 DEF HistoryMove
  <2> QED BY <2>3, <2>4
<1> QED BY <1>2, <1>3

LEMMA HistoryMoves ==
  ASSUME IInv, Bookkeeping, [Next]_vars, NEW i \in Jobs
  PROVE  HistoryMove(i)
<1>0. /\ Typed /\ job \in [Jobs -> Row] /\ attempts \in [Jobs -> Seq(Outcome)]
      /\ RowMove(i)
  BY RowMoves DEF IInv, Typed, TypeOK

<1>1. ASSUME UNCHANGED attempts, job'[i].status = "success" => job[i].status = "success"
      PROVE  HistoryMove(i)
  BY <1>1 DEF HistoryMove
<1>2. ASSUME NEW c \in Consumers, ConsumerStep(c) PROVE HistoryMove(i)
  <2>1. CASE Claim(c)
    <3>1. PICK j \in Jobs :
            /\ job[j].status \in {"pending", "waiting_dependency"}
            /\ job'[j].status = "running"
            /\ \A k \in Jobs \ {j} : job'[k] = job[k] \/ job'[k].status \in {"stale", "pending"}
            /\ attempts' = [attempts EXCEPT ![j] = Append(@, "running")]
            /\ consumer'[c].job = j
      BY <2>1, ClaimFacts
    <3>2. CASE i = j
      BY <1>0, <2>1, <3>1, <3>2 DEF HistoryMove
    <3>3. CASE i # j
      <4>1. /\ attempts'[i] = attempts[i]
            /\ job'[i].status = "success" => job[i].status = "success"
        BY <1>0, <3>1, <3>3
      <4> QED BY <4>1 DEF HistoryMove
    <3> QED BY <3>2, <3>3
  <2>2. CASE Begin(c) \/ Execute(c) \/ Decide(c)
    BY <1>1, <2>2 DEF Begin, Execute, Decide, rows
  <2>3. CASE Finish(c)
    BY <1>0, <2>3, FinalizeMovesHistory DEF Finish, Phase, Terminal
  <2>4. CASE Fail(c)
    BY <1>0, <2>4, FinalizeMovesHistory DEF Fail, Phase, Terminal
  <2>5. CASE AcknowledgeCancel(c)
    BY <1>0, <2>5, FinalizeMovesHistory DEF AcknowledgeCancel, Phase, Terminal
  <2>6. CASE ScheduleRetry(c)
    <3> DEFINE j == consumer[c].job
               n == consumer[c].token
    <3>1. /\ j \in Jobs /\ n \in Nat /\ Busy(c) /\ CloseAttempt(j, n, "retry_scheduled")
          /\ job' = job
      BY <1>0, <2>6 DEF ScheduleRetry, Typed, ActiveHasJob, TypeOK, Consumer, Busy
    <3>2. consumer'[c].phase = "requeueing"
      BY <1>0, <2>6 DEF ScheduleRetry, Goto, Typed, TypeOK, Consumer
    <3>3. CASE i = j
      BY <3>1, <3>2, <3>3 DEF HistoryMove
    <3>4. CASE i # j
      <4>1. attempts'[i] = attempts[i]
        BY <1>0, <3>1, <3>4 DEF CloseAttempt
      <4> QED BY <3>1, <4>1 DEF HistoryMove
    <3> QED BY <3>3, <3>4
  <2>7. CASE Requeue(c)
    <3>1. /\ UNCHANGED attempts
          /\ job'[i] = job[i] \/ job'[i] = RequeuedRow(job[i], "future")
      BY <1>0, <2>7 DEF Requeue
    <3> QED BY <1>0, <1>1, <3>1, WrittenRows
  <2> QED BY <1>2, <2>1, <2>2, <2>3, <2>4, <2>5, <2>6, <2>7 DEF ConsumerStep
<1>3. ASSUME UNCHANGED attempts, ~ \E c \in Consumers : ConsumerStep(c) PROVE HistoryMove(i)
  <2>1. DeletedRow.status = "deleted"
    BY DEF DeletedRow, BlankRow
  <2>2. ~ \E c \in Consumers : Claim(c)
    BY <1>3 DEF ConsumerStep
  <2>3. job'[i].status = "success" => job[i].status = "success"
    BY <1>0, <1>3, <2>1, <2>2 DEF RowMove, Reported, Still, Moves, Taken
  <2> QED BY <1>1, <1>3, <2>3
<1>4. ASSUME NEW p \in Processes, Recover(p), ~ \E c \in Consumers : ConsumerStep(c)
      PROVE  HistoryMove(i)
  <2>1. CASE Expired(i)
    <3>1. job'[i] = RecoveredRow(job[i]) /\ attempts'[i] = RecoveredAttempts(i)
      BY <1>4, <2>1 DEF Recover
    <3>2. job'[i].status \in {"pending", "failed"}
      BY <1>0, <3>1, WrittenRows
    <3> QED BY <2>1, <3>1, <3>2 DEF HistoryMove, Expired, Running
  <2>2. CASE ~Expired(i)
    BY <1>4, <2>2 DEF Recover, HistoryMove
  <2> QED BY <2>1, <2>2
<1>5. DeletedRow.status = "deleted"
  BY DEF DeletedRow, BlankRow
<1>6. ASSUME NEW j \in Jobs, Delete(j) PROVE HistoryMove(i)
  <2>1. \/ job'[i] = DeletedRow /\ attempts'[i] = <<>>
        \/ job'[i] = job[i] /\ attempts'[i] = attempts[i]
    BY <1>0, <1>6 DEF Delete
  <2> QED BY <1>5, <2>1 DEF HistoryMove
<1>7. ASSUME NEW s \in Terminal, ClearStatus(s) PROVE HistoryMove(i)
  <2>1. \/ job'[i] = DeletedRow /\ attempts'[i] = <<>>
        \/ job'[i] = job[i] /\ attempts'[i] = attempts[i]
    BY <1>7 DEF ClearStatus
  <2> QED BY <1>5, <2>1 DEF HistoryMove
<1>8. \/ \E c \in Consumers : ConsumerStep(c)
      \/ \E p \in Processes : Recover(p)
      \/ \E j \in Jobs : Delete(j)
      \/ \E s \in Terminal : ClearStatus(s)
      \/ UNCHANGED attempts
  BY DEF Next, OperatorStep, Drop, Heartbeat, Create, RequestCancel, CancelAnalysis, Retry,
         CheckDelete, LeaseExpires, BecomesDue, Crash, Boot, EditChapter, DependencyChanges,
         ProviderChanges, vars, rows
<1> QED BY <1>2, <1>3, <1>4, <1>6, <1>7, <1>8

LEMMA OwnedStep ==
  ASSUME IInv, Bookkeeping, TokensAreDistinct, OwnedIsOpen, [Next]_vars
  PROVE  OwnedIsOpen'
<1>0. /\ \A c \in Consumers : ConsumerMove(c)
      /\ \A i \in Jobs : RowMove(i) /\ HistoryMove(i)
      /\ \A c \in Consumers : Busy(c) => consumer[c].job \in Jobs
      /\ attempts \in [Jobs -> Seq(Outcome)]
      /\ DeletedRow.status = "deleted"
  BY ConsumerMoves, RowMoves, HistoryMoves
     DEF IInv, Typed, TypeOK, ActiveHasJob, Busy, DeletedRow, BlankRow
<1> SUFFICES ASSUME NEW c \in Consumers, consumer'[c].phase # "idle",
                    consumer'[c].phase # "requeueing",
                    job'[consumer'[c].job].status = "running",
                    job'[consumer'[c].job].token = consumer'[c].token
             PROVE  attempts'[consumer'[c].job][consumer'[c].token] = "running"
  BY DEF OwnedIsOpen, Busy, Owns, Running
<1>1. CASE Claim(c)
  <2>1. PICK j \in Jobs : /\ attempts' = [attempts EXCEPT ![j] = Append(@, "running")]
                          /\ consumer'[c].job = j
                          /\ consumer'[c].token = Len(attempts[j]) + 1
    BY <1>1, ClaimFacts
  <2>2. attempts'[j] = Append(attempts[j], "running") /\ attempts[j] \in Seq(Outcome)
    BY <1>0, <2>1
  <2>3. Append(attempts[j], "running")[Len(attempts[j]) + 1] = "running"
    BY <2>2
  <2> QED BY <2>1, <2>2, <2>3
<1>2. CASE ~Claim(c)
  <2> DEFINE j == consumer[c].job
             n == consumer[c].token
  <2>1. /\ Busy(c) /\ consumer[c].phase # "requeueing"
        /\ consumer'[c].job = j /\ consumer'[c].token = n /\ j \in Jobs
    BY <1>0, <1>2 DEF ConsumerMove
  <2>2. n \in 1..Len(attempts[j]) \/ job[j].status = "deleted"
    BY <2>1 DEF IInv, TokenIsAnAttempt, Busy
  <2>3. RowMove(j) /\ HistoryMove(j) /\ job'[j].status = "running" /\ job'[j].token = n
    BY <1>0, <2>1
  <2>4. CASE Taken(j)
    <3>1. PICK d \in Consumers : Claim(d)
      BY <2>4 DEF Taken
    <3>2. PICK k \in Jobs :
            /\ job'[k].status = "running" /\ job'[k].token = Len(attempts[k]) + 1
            /\ \A i \in Jobs \ {k} : job'[i] = job[i] \/ job'[i].status \in {"stale", "pending"}
      BY <3>1, ClaimFacts
    <3>3. k = j
      BY <2>1, <2>3, <2>4, <3>2 DEF Taken
    <3>4. n \in 1..Len(attempts[j])
      BY <2>2, <2>4 DEF Taken
    <3> QED BY <1>0, <2>1, <2>3, <3>2, <3>3, <3>4
  <2>5. CASE Still(j)
    <3>1. Owns(c) /\ attempts[j][n] = "running" /\ n \in 1..Len(attempts[j])
      BY <2>1, <2>2, <2>3, <2>5 DEF Owns, Running, OwnedIsOpen, Still
    <3>2. CASE attempts'[j] = attempts[j]
      BY <2>1, <3>1, <3>2
    <3>3. ASSUME NEW d \in Consumers, NEW m \in Nat,
                 consumer[d].job = j, consumer[d].token = m, Busy(d),
                 consumer'[d].phase = "requeueing",
                 CloseAttempt(j, m, "retry_scheduled")
          PROVE  attempts'[j][n] = "running"
      <4>1. m # n
        BY <2>1, <2>3, <2>5, <3>3 DEF TokensAreDistinct, Still
      <4> HIDE DEF j, n
      <4>2. attempts'[j][n] = attempts[j][n]
        <5>1. n \in DOMAIN attempts[j] /\ "retry_scheduled" \in Outcome \ {"running"} /\ j \in Jobs
          BY <1>0, <2>1, <3>1 DEF Outcome
        <5> QED BY <1>0, <3>3, <4>1, <5>1, CloseAttemptFacts
      <4> QED BY <3>1, <4>2
    <3> QED BY <1>0, <2>1, <2>3, <2>5, <3>1, <3>2, <3>3
            DEF HistoryMove, Still, Running, Terminal
  <2> QED BY <1>0, <2>1, <2>3, <2>4, <2>5 DEF RowMove, Reported, Moves, Terminal
<1> QED BY <1>1, <1>2

LEMMA SuccessStep ==
  ASSUME IInv, Bookkeeping, OwnedIsOpen, SuccessIsOfLastAttempt, [Next]_vars, IInv'
  PROVE  SuccessIsOfLastAttempt'
<1> SUFFICES ASSUME NEW i \in Jobs, NEW m \in DOMAIN attempts'[i]
             PROVE  attempts'[i][m] = "success" <=>
                      (job'[i].status = "success" /\ m = Len(attempts'[i]))
  BY DEF SuccessIsOfLastAttempt
<1>0. /\ RowMove(i) /\ HistoryMove(i)
      /\ attempts \in [Jobs -> Seq(Outcome)] /\ attempts[i] \in Seq(Outcome)
      /\ DOMAIN attempts[i] = 1..Len(attempts[i]) /\ Len(attempts[i]) \in Nat
      /\ DeletedRow.status = "deleted"
      /\ \A k \in DOMAIN attempts[i] :
           attempts[i][k] = "success" <=> (job[i].status = "success" /\ k = Len(attempts[i]))
  BY RowMoves, HistoryMoves
     DEF IInv, Typed, TypeOK, DeletedRow, BlankRow, SuccessIsOfLastAttempt
<1>1. CASE attempts'[i] = attempts[i] /\ (job'[i].status = "success" => job[i].status = "success")
  <2>1. CASE job[i].status = "success" /\ job'[i].status # "success"
    <3>1. job'[i].status = "deleted"
      BY <1>0, <2>1 DEF RowMove, Reported, Still, Moves, Taken
    <3>2. Len(attempts'[i]) = 0
      <4>1. DeletedRow.attempts = 0
        BY DEF DeletedRow, BlankRow
      <4>2. job'[i] = DeletedRow
        BY <1>0, <2>1, <3>1 DEF RowMove, Reported, Still, Moves, Taken, Terminal
      <4> QED BY <4>1, <4>2 DEF IInv, RunningHasItsAttempt
    <3> QED BY <1>0, <1>1, <3>2
  <2>2. CASE job[i].status = "success" <=> job'[i].status = "success"
    BY <1>0, <1>1, <2>2
  <2> QED BY <1>1, <2>1, <2>2
<1>2. CASE attempts'[i] = <<>>
  BY <1>2
<1>3. CASE /\ attempts'[i] = Append(attempts[i], "running")
           /\ job[i].status \in {"pending", "waiting_dependency"} /\ job'[i].status = "running"
  <2>1. attempts'[i][m] # "success"
    <3>1. CASE m \in DOMAIN attempts[i]
      <4>1. attempts'[i][m] = attempts[i][m]
        BY <1>0, <1>3, <3>1
      <4> QED BY <1>0, <1>3, <3>1, <4>1
    <3>2. CASE m \notin DOMAIN attempts[i]
      <4>1. m = Len(attempts[i]) + 1
        BY <1>0, <1>3, <3>2
      <4>2. attempts'[i][m] = "running"
        BY <1>0, <1>3, <4>1
      <4> QED BY <4>2
    <3> QED BY <3>1, <3>2
  <2> QED BY <1>3, <2>1
<1>4. ASSUME NEW c \in Consumers, NEW n \in Nat, job'[i] = job[i],
             CloseAttempt(i, n, "retry_scheduled")
      PROVE  attempts'[i][m] = "success" <=>
               (job'[i].status = "success" /\ m = Len(attempts'[i]))
  <2>1. CASE n \in DOMAIN attempts[i] /\ attempts[i][n] = "running"
    <3> DEFINE h == [attempts[i] EXCEPT ![n] = "retry_scheduled"]
    <3>1. attempts'[i] = h
      BY <1>0, <1>4, <2>1 DEF CloseAttempt
    <3>2. /\ Len(h) = Len(attempts[i]) /\ DOMAIN h = DOMAIN attempts[i]
          /\ h[n] = "retry_scheduled" /\ \A k \in DOMAIN attempts[i] : k # n => h[k] = attempts[i][k]
      BY <1>0, <2>1, HistoryUpdate DEF Outcome
    <3> HIDE DEF h
    <3> QED BY <1>0, <1>4, <2>1, <3>1, <3>2
  <2>2. CASE ~(n \in DOMAIN attempts[i] /\ attempts[i][n] = "running")
    BY <1>0, <1>4, <2>2 DEF CloseAttempt
  <2> QED BY <2>1, <2>2
<1>5. ASSUME NEW c \in Consumers, NEW n \in Nat,
             consumer[c].job = i, consumer[c].token = n, Busy(c),
             consumer[c].phase # "requeueing", Owns(c),
             job'[i].status \in Terminal, CloseAttempt(i, n, job'[i].status)
      PROVE  attempts'[i][m] = "success" <=>
               (job'[i].status = "success" /\ m = Len(attempts'[i]))
  <2> DEFINE h == [attempts[i] EXCEPT ![n] = job'[i].status]
  <2>1. /\ attempts[i][n] = "running" /\ n \in 1..Len(attempts[i]) /\ n = Len(attempts[i])
        /\ job[i].status = "running"
    BY <1>0, <1>5 DEF OwnedIsOpen, Owns, Running, IInv, RunningHasItsAttempt, TokenIsAnAttempt, Busy
  <2>2. attempts'[i] = h
    BY <1>0, <1>5, <2>1 DEF CloseAttempt
  <2>3. /\ Len(h) = Len(attempts[i]) /\ DOMAIN h = DOMAIN attempts[i]
        /\ h[n] = job'[i].status /\ \A k \in DOMAIN attempts[i] : k # n => h[k] = attempts[i][k]
    BY <1>0, <1>5, <2>1, HistoryUpdate DEF Outcome, Terminal
  <2> HIDE DEF h
  <2> QED BY <1>0, <2>1, <2>2, <2>3
<1>6. CASE Running(i) /\ job'[i].status # "success" /\ attempts'[i] = RecoveredAttempts(i)
  <2>1. /\ DOMAIN RecoveredAttempts(i) = DOMAIN attempts[i]
        /\ \A k \in DOMAIN attempts[i] : RecoveredAttempts(i)[k] \in {attempts[i][k], "worker_lost"}
    BY <1>0, HistoryUpdate DEF RecoveredAttempts, Outcome
  <2> QED BY <1>0, <1>6, <2>1 DEF Running
<1> QED BY <1>0, <1>1, <1>2, <1>3, <1>4, <1>5, <1>6 DEF HistoryMove

\* Whatever late consumers report, a success is the outcome of the last attempt
\* of a job that succeeded, and of no other.
THEOREM SuccessesAreOfLastAttempts == Spec => []SuccessIsOfLastAttempt
<1> DEFINE Inv == OwnedIsOpen /\ SuccessIsOfLastAttempt
<1>1. Init => Inv
  BY DEF Init, OwnedIsOpen, Busy, Idle, SuccessIsOfLastAttempt
<1>2. /\ Inv /\ (IInv /\ Bookkeeping /\ TokensAreDistinct)
      /\ (IInv /\ Bookkeeping /\ TokensAreDistinct)' /\ [Next]_vars
      => Inv'
  BY OwnedStep, SuccessStep
<1>3. Inv => SuccessIsOfLastAttempt
  OBVIOUS
<1> QED BY <1>1, <1>2, <1>3, BooksInductive, PTL DEF Spec

-----------------------------------------------------------------------------
(* The running jobs stay within capacity *)

\* Jobs are created one by one, so those that exist are finitely many.
FinitelyCreated == IsFiniteSet({j \in Jobs : job[j].status # "absent"})

LEMMA CreatedStep ==
  ASSUME IInv, Bookkeeping, FinitelyCreated, [Next]_vars
  PROVE  FinitelyCreated'
<1> DEFINE created == {j \in Jobs : job[j].status # "absent"}
<1>1. IsFiniteSet(created)
  BY DEF FinitelyCreated
<1>2. ASSUME NEW j \in Jobs, Create(j) PROVE FinitelyCreated'
  <2>1. \A i \in Jobs \ {j} : job'[i] = job[i]
    BY <1>2 DEF Create, IInv, Typed, TypeOK
  <2>2. created' \subseteq created \cup {j}
    BY <2>1
  <2>3. IsFiniteSet(created \cup {j})
    BY <1>1, FS_AddElement
  <2>4. IsFiniteSet(created')
    BY <2>2, <2>3, FS_Subset
  <2> QED BY <2>4 DEF FinitelyCreated
<1>3. ASSUME ~ \E j \in Jobs : Create(j) PROVE FinitelyCreated'
  <2>1. ASSUME NEW i \in Jobs, job[i].status = "absent" PROVE job'[i].status = "absent"
    <3>1. RowMove(i)
      BY RowMoves
    <3> QED BY <1>3, <2>1, <3>1 DEF RowMove, Reported, Still, Moves, Taken
  <2>2. created' \subseteq created
    BY <2>1
  <2>3. IsFiniteSet(created')
    BY <1>1, <2>2, FS_Subset
  <2> QED BY <2>3 DEF FinitelyCreated
<1> QED BY <1>2, <1>3

\* A set of jobs that share a limit stays within it, when the claim of one of
\* them requires a free place.
LEMMA LimitKept ==
  ASSUME IInv, Bookkeeping, FinitelyCreated, [Next]_vars,
         NEW K \in SUBSET Jobs, NEW limit \in Nat,
         Cardinality({i \in K : Occupying(i)}) <= limit,
         \A j \in K : HasCapacity(j) => Cardinality({i \in K : Occupying(i)}) < limit
  PROVE  Cardinality({i \in K : Occupying(i)'}) <= limit
<1> DEFINE S == {i \in K : Occupying(i)}
           T == {i \in K : Occupying(i)'}
<1>0. \A i \in Jobs : RowMove(i)
  BY RowMoves
<1>1. IsFiniteSet(S) /\ Cardinality(S) \in Nat
  <2>1. S \subseteq {j \in Jobs : job[j].status # "absent"}
    BY DEF Occupying, Running
  <2> QED BY <2>1, FS_Subset, FS_CardinalityType DEF FinitelyCreated
<1>2. ASSUME NEW i \in Jobs, Occupying(i)' PROVE Occupying(i) \/ Taken(i)
  <2>1. job'[i].status = "running" /\ ~job'[i].cancel
    BY <1>2 DEF Occupying, Running
  <2>2. DeletedRow.status = "deleted"
    BY DEF DeletedRow, BlankRow
  <2>3. Still(i) \/ Taken(i)
    BY <1>0, <2>1, <2>2 DEF RowMove, Reported, Moves, Terminal
  <2> QED BY <2>1, <2>3 DEF Still, Occupying, Running
<1>3. CASE \E c \in Consumers : Claim(c)
  <2>1. PICK c \in Consumers : Claim(c)
    BY <1>3
  <2>2. PICK j \in Jobs :
          /\ HasCapacity(j)
          /\ \A i \in Jobs \ {j} : job'[i] = job[i] \/ job'[i].status \in {"stale", "pending"}
    BY <2>1, ClaimFacts
  <2>3. T \subseteq S \cup {j}
    BY <2>2 DEF Occupying, Running
  <2>4. CASE j \in K
    <3>1. Cardinality(S) < limit
      BY <2>2, <2>4
    <3>2. IsFiniteSet(S \cup {j}) /\ Cardinality(S \cup {j}) \in {Cardinality(S), Cardinality(S) + 1}
      BY <1>1, FS_AddElement
    <3>3. Cardinality(T) <= Cardinality(S \cup {j}) /\ Cardinality(T) \in Nat
      BY <2>3, <3>2, FS_Subset, FS_CardinalityType
    <3> QED BY <1>1, <3>1, <3>2, <3>3
  <2>5. CASE j \notin K
    <3>1. T \subseteq S
      BY <2>3, <2>5
    <3>2. Cardinality(T) <= Cardinality(S) /\ Cardinality(T) \in Nat
      BY <1>1, <3>1, FS_Subset, FS_CardinalityType
    <3> QED BY <1>1, <3>2
  <2> QED BY <2>4, <2>5
<1>4. CASE ~ \E c \in Consumers : Claim(c)
  <2>1. T \subseteq S
    BY <1>2, <1>4 DEF Taken
  <2>2. Cardinality(T) <= Cardinality(S) /\ Cardinality(T) \in Nat
    BY <1>1, <2>1, FS_Subset, FS_CardinalityType
  <2> QED BY <1>1, <2>2
<1> QED BY <1>3, <1>4

LEMMA CapacityStep ==
  ASSUME IInv, Bookkeeping, FinitelyCreated, WithinCapacity, [Next]_vars
  PROVE  WithinCapacity'
<1>1. ASSUME NEW s \in Services
      PROVE  Cardinality({j \in Jobs : Occupying(j)' /\ Service[j] = s}) <= ServiceCapacity[s]
  <2> DEFINE K == {j \in Jobs : Service[j] = s}
  <2>1. ServiceCapacity[s] \in Nat /\ K \in SUBSET Jobs
    BY CapacityAssumption
  <2>2. /\ {j \in Jobs : Occupying(j) /\ Service[j] = s} = {i \in K : Occupying(i)}
        /\ {j \in Jobs : Occupying(j)' /\ Service[j] = s} = {i \in K : Occupying(i)'}
    OBVIOUS
  <2>3. Cardinality({i \in K : Occupying(i)}) <= ServiceCapacity[s]
    BY <2>2 DEF WithinCapacity
  <2>4. \A j \in K : HasCapacity(j) => Cardinality({i \in K : Occupying(i)}) < ServiceCapacity[s]
    BY <2>2 DEF HasCapacity
  <2> HIDE DEF K
  <2>5. Cardinality({i \in K : Occupying(i)'}) <= ServiceCapacity[s]
    BY <2>1, <2>3, <2>4, LimitKept
  <2> QED BY <2>2, <2>5
<1>2. ASSUME NEW p \in Providers, NEW s \in Services
      PROVE  Cardinality({j \in Jobs : Occupying(j)' /\ Provider[j] = p /\ Service[j] = s})
               <= ProviderCapacity[p]
  <2> DEFINE K == {j \in Jobs : Provider[j] = p /\ Service[j] = s}
  <2>1. ProviderCapacity[p] \in Nat /\ K \in SUBSET Jobs
    BY CapacityAssumption
  <2>2. /\ {j \in Jobs : Occupying(j) /\ Provider[j] = p /\ Service[j] = s}
             = {i \in K : Occupying(i)}
        /\ {j \in Jobs : Occupying(j)' /\ Provider[j] = p /\ Service[j] = s}
             = {i \in K : Occupying(i)'}
    OBVIOUS
  <2>3. Cardinality({i \in K : Occupying(i)}) <= ProviderCapacity[p]
    BY <2>2 DEF WithinCapacity
  <2>4. ASSUME NEW j \in K, HasCapacity(j)
        PROVE  Cardinality({i \in K : Occupying(i)}) < ProviderCapacity[p]
    <3>1. {i \in Jobs : Occupying(i) /\ Service[i] = Service[j] /\ Provider[i] = Provider[j]}
            = {i \in K : Occupying(i)}
      OBVIOUS
    <3> QED BY <2>4, <3>1 DEF HasCapacity
  <2> HIDE DEF K
  <2>5. Cardinality({i \in K : Occupying(i)'}) <= ProviderCapacity[p]
    BY <2>1, <2>3, <2>4, LimitKept
  <2> QED BY <2>2, <2>5
<1> QED BY <1>1, <1>2 DEF WithinCapacity

\* However consumers interleave, the running jobs not asked to cancel stay within
\* the capacity of their service and of their provider.
THEOREM CapacityHolds == Spec => []WithinCapacity
<1> DEFINE Inv == FinitelyCreated /\ WithinCapacity
<1>1. Init => Inv
  <2> SUFFICES ASSUME Init PROVE Inv
    OBVIOUS
  <2>1. \A j \in Jobs : job[j].status = "absent"
    BY DEF Init, BlankRow
  <2>2. {j \in Jobs : job[j].status # "absent"} = {}
    BY <2>1
  <2>3. /\ \A s \in Services : {j \in Jobs : Occupying(j) /\ Service[j] = s} = {}
        /\ \A p \in Providers, s \in Services :
             {j \in Jobs : Occupying(j) /\ Provider[j] = p /\ Service[j] = s} = {}
    BY <2>1 DEF Occupying, Running
  <2>4. IsFiniteSet({}) /\ Cardinality({}) = 0
    BY FS_EmptySet
  <2>5. FinitelyCreated
    BY <2>2, <2>4 DEF FinitelyCreated
  <2>6. ASSUME NEW s \in Services
        PROVE  Cardinality({j \in Jobs : Occupying(j) /\ Service[j] = s}) <= ServiceCapacity[s]
    BY <2>3, <2>4, CapacityAssumption
  <2>7. ASSUME NEW p \in Providers, NEW s \in Services
        PROVE  Cardinality({j \in Jobs : Occupying(j) /\ Provider[j] = p /\ Service[j] = s})
                 <= ProviderCapacity[p]
    BY <2>3, <2>4, CapacityAssumption
  <2> QED BY <2>5, <2>6, <2>7 DEF WithinCapacity
<1>2. /\ Inv /\ (IInv /\ Bookkeeping /\ TokensAreDistinct) /\ [Next]_vars
      => Inv'
  BY CreatedStep, CapacityStep
<1>3. Inv => WithinCapacity
  OBVIOUS
<1> QED BY <1>1, <1>2, <1>3, BooksInductive, PTL DEF Spec
=============================================================================
