-------------------------- MODULE GenerationQueue --------------------------
(***************************************************************************)
(* The persistent AI/TTS generation queue: the rows of generation_jobs and  *)
(* generation_job_attempts (backend/db.py) and the consumer threads that    *)
(* claim, run and finalize them (backend/jobs.py).                          *)
(*                                                                          *)
(* One SQLite transaction is one action: db.py holds WRITE_LOCK and BEGIN   *)
(* IMMEDIATE around each of them.  What a consumer does between two         *)
(* transactions (reading the row again, calling a provider, deciding to     *)
(* retry) is a separate step, so every interleaving of consumers,           *)
(* operators, crashes and restarts between two transactions is explored.    *)
(*                                                                          *)
(* Time is abstracted: lease_until is "fresh" or "expired", next_attempt_at *)
(* is "null", "future" or "due", and a step of its own lets time pass.      *)
(***************************************************************************)
EXTENDS Naturals, Sequences, FiniteSets

CONSTANTS
  Jobs,          \* ids of generation_jobs, in creation order (AUTOINCREMENT)
  Consumers,     \* consumer threads
  Processes,     \* backend processes (worker_instances)
  Providers,     \* rows of ai_providers / tts_providers
  Chapters,      \* chapters some job is bound to
  Revisions,     \* content hashes a chapter text can have
  NoChapter,     \* a job without chapter_id / source_text_hash
  NoProcess,     \* worker_instance_id is NULL
  DeadProcess,   \* worker_instance_id names a process that has exited
  Service,       \* [Jobs -> {"AI", "TTS"}]
  Provider,      \* [Jobs -> Providers]
  Chapter,       \* [Jobs -> Chapters \cup {NoChapter}]
  Gated,         \* jobs created behind dependencies_ready (audiobook parents)
  ConsumerOf,    \* [Consumers -> {"AI", "TTS"}]: the loop's service type
  ProcessOf,     \* [Consumers -> Processes]
  ServiceCapacity,  \* [{"AI", "TTS"} -> Nat]: GENERATION_*_MAX_CONCURRENCY
  ProviderCapacity, \* [Providers -> Nat]: max_concurrency
  MaxAttempts,   \* min(MAX_ATTEMPTS, max_attempts)
  ScanLimit,     \* LIMIT of the candidate scan (100 in the code)
  RetryBound,    \* bound of the model: no operator retry beyond so many attempts
  MaxFaults      \* bound of the model: process crashes and dropped jobs

Services == {"AI", "TTS"}

ASSUME JobsAssumption == Jobs \subseteq Nat \ {0}
ASSUME KindAssumption ==
  /\ Service \in [Jobs -> Services]
  /\ Provider \in [Jobs -> Providers]
  /\ Chapter \in [Jobs -> Chapters \cup {NoChapter}]
  /\ Gated \subseteq {j \in Jobs : Service[j] = "TTS" /\ Chapter[j] = NoChapter}
  /\ NoChapter \notin Chapters
ASSUME ConsumerAssumption ==
  /\ ConsumerOf \in [Consumers -> Services]
  /\ ProcessOf \in [Consumers -> Processes]
  /\ NoProcess \notin Processes
  /\ DeadProcess \notin Processes \cup {NoProcess}
ASSUME CapacityAssumption ==
  /\ ServiceCapacity \in [Services -> Nat \ {0}]
  /\ ProviderCapacity \in [Providers -> Nat \ {0}]
ASSUME BoundAssumption ==
  /\ MaxAttempts \in Nat \ {0}
  /\ ScanLimit \in Nat \ {0}
  /\ RetryBound \in Nat
  /\ MaxFaults \in Nat

VARIABLES
  job,       \* the rows of generation_jobs
  attempts,  \* attempts[j]: outcomes of the generation_job_attempts of j
  consumer,  \* local state of each run_pending_once
  process,   \* state of each backend process
  text,      \* chapters.text_hash
  ready,     \* what dependencies_ready(j) answers
  enabled,   \* _provider_capacity > 0: enabled and not cooling down
  clearing,  \* rows an operator has read as terminal and is about to DELETE
  faults     \* faults spent so far (bound of the model)

vars == <<job, attempts, consumer, process, text, ready, enabled, clearing, faults>>
rows == <<job, attempts>>
world == <<text, ready, enabled>>

Terminal == {"success", "failed", "cancelled"}
Status == {"absent", "pending", "waiting_dependency", "running", "stale",
           "deleted"} \cup Terminal
Outcome == {"running", "retry_scheduled", "worker_lost"} \cup Terminal
Error == {"none", "retryable", "permanent", "source_changed", "cancelled"}
Phase == {"idle", "claimed", "executing", "finishing", "caught", "cancelling",
          "closing", "requeueing", "failing"}

Row == [status : Status, attempts : Nat, cancel : BOOLEAN, token : Nat,
        owner : Processes \cup {NoProcess, DeadProcess},
        lease : {"null", "fresh", "expired"},
        next : {"null", "future", "due"},
        category : {"none", "source_changed"},
        hash : Revisions \cup {NoChapter}]

BlankRow == [status |-> "absent", attempts |-> 0, cancel |-> FALSE, token |-> 0,
             owner |-> NoProcess, lease |-> "null", next |-> "null",
             category |-> "none", hash |-> NoChapter]

Consumer == [phase : Phase, job : Jobs \cup {0}, token : Nat, tries : Nat,
             error : Error, heart : BOOLEAN]

Idle == [phase |-> "idle", job |-> 0, token |-> 0, tries |-> 0, error |-> "none",
         heart |-> FALSE]

TypeOK ==
  /\ job \in [Jobs -> Row]
  /\ attempts \in [Jobs -> Seq(Outcome)]
  /\ consumer \in [Consumers -> Consumer]
  /\ process \in [Processes -> {"down", "starting", "up"}]
  /\ text \in [Chapters -> Revisions]
  /\ ready \in [Gated -> BOOLEAN]
  /\ enabled \in [Providers -> BOOLEAN]
  /\ clearing \subseteq Jobs
  /\ faults \in Nat

Init ==
  /\ job = [j \in Jobs |-> BlankRow]
  /\ attempts = [j \in Jobs |-> <<>>]
  /\ consumer = [c \in Consumers |-> Idle]
  /\ process = [p \in Processes |-> "down"]
  /\ text \in [Chapters -> Revisions]
  /\ ready \in [Gated -> BOOLEAN]
  /\ enabled = [p \in Providers |-> TRUE]
  /\ clearing = {}
  /\ faults = 0

-----------------------------------------------------------------------------
(* What the rows say *)

Running(j) == job[j].status = "running"

\* Mutant: the fence forgets the claim token.
UnfencedOwns(c) == Running(consumer[c].job)

\* status='running' AND worker_claim_token=?
Owns(c) == Running(consumer[c].job) /\ job[consumer[c].job].token = consumer[c].token

\* A chapter text no longer hashes to what the job was created from.
SourceChanged(j) == Chapter[j] # NoChapter /\ job[j].hash # text[Chapter[j]]

\* The capacity counts of the claim leave out jobs asked to cancel.
Occupying(j) == Running(j) /\ ~job[j].cancel

\* Mutant: an off-by-one in the comparison with GENERATION_TTS_MAX_CONCURRENCY.
HasLooseCapacity(j) ==
  /\ Cardinality({i \in Jobs : Occupying(i) /\ Service[i] = Service[j]})
       <= ServiceCapacity[Service[j]]
  /\ enabled[Provider[j]]
  /\ Cardinality({i \in Jobs : Occupying(i) /\ Service[i] = Service[j]
                                            /\ Provider[i] = Provider[j]})
       < ProviderCapacity[Provider[j]]

HasCapacity(j) ==
  /\ Cardinality({i \in Jobs : Occupying(i) /\ Service[i] = Service[j]})
       < ServiceCapacity[Service[j]]
  /\ enabled[Provider[j]]
  /\ Cardinality({i \in Jobs : Occupying(i) /\ Service[i] = Service[j]
                                            /\ Provider[i] = Provider[j]})
       < ProviderCapacity[Provider[j]]

-----------------------------------------------------------------------------
(* Creation *)

\* create_generation_job; an audiobook parent whose dependencies are missing is
\* set waiting in the same transaction.
Create(j) ==
  /\ job[j].status = "absent"
  /\ \A i \in Jobs : i < j => job[i].status # "absent"
  /\ job' = [job EXCEPT
       ![j].status = IF j \in Gated /\ ~ready[j] THEN "waiting_dependency" ELSE "pending",
       ![j].hash = IF Chapter[j] = NoChapter THEN NoChapter ELSE text[Chapter[j]]]
  /\ UNCHANGED <<attempts, consumer, process, world, clearing, faults>>

-----------------------------------------------------------------------------
(* The claim: one transaction that marks stale jobs, scans the first        *)
(* ScanLimit candidates in queue order, promotes the waiting jobs it passes *)
(* whose dependencies are ready, and takes the first one with capacity.     *)
(* When it takes none it rolls everything back, which is a stuttering step. *)

MarkedStale == {j \in Jobs : job[j].status = "pending" /\ ~job[j].cancel /\ SourceChanged(j)}

\* Mutant: rescheduled jobs are never scanned again.
UnscheduledCandidate(service) ==
  {j \in Jobs \ MarkedStale :
     /\ job[j].status \in {"pending", "waiting_dependency"}
     /\ ~job[j].cancel
     /\ job[j].next = "null"
     /\ Service[j] = service}

Candidate(service) ==
  {j \in Jobs \ MarkedStale :
     /\ job[j].status \in {"pending", "waiting_dependency"}
     /\ ~job[j].cancel
     /\ job[j].next # "future"
     /\ Service[j] = service}

\* Never-scheduled jobs come first, in creation order; the order of the
\* rescheduled ones depends on times that are abstracted.
Ahead(i, j) == job[i].next = "null" /\ (job[j].next # "null" \/ i < j)

Scanned(service) ==
  {j \in Candidate(service) :
     Cardinality({i \in Candidate(service) : Ahead(i, j)}) < ScanLimit}

Promotable(j) == job[j].status = "waiting_dependency" /\ ready[j]
Runnable(j) == (job[j].status = "pending" \/ Promotable(j)) /\ HasCapacity(j)

StaleRow(row) == [row EXCEPT !.status = "stale", !.category = "source_changed"]
PromotedRow(row) == [row EXCEPT !.status = "pending", !.next = "null", !.category = "none"]
ClaimedRow(row, p, token) ==
  [row EXCEPT !.status = "running", !.attempts = @ + 1, !.token = token,
              !.owner = p, !.lease = "fresh", !.cancel = FALSE]

PassedOver(i, j) == i \in Scanned(Service[j]) /\ Ahead(i, j)

RowAfterClaim(i, j, p) ==
  CASE i = j ->
         ClaimedRow(IF Promotable(j) THEN PromotedRow(job[j]) ELSE job[j],
                    p, Len(attempts[j]) + 1)
    [] i \in MarkedStale -> StaleRow(job[i])
    [] i # j /\ i \notin MarkedStale /\ PassedOver(i, j) /\ Promotable(i) -> PromotedRow(job[i])
    [] OTHER -> job[i]

Claim(c) ==
  /\ process[ProcessOf[c]] = "up"
  /\ consumer[c].phase = "idle"
  /\ \E j \in Scanned(ConsumerOf[c]) :
       /\ Runnable(j)
       /\ \A i \in Jobs : PassedOver(i, j) => ~Runnable(i)
       /\ job' = [i \in Jobs |-> RowAfterClaim(i, j, ProcessOf[c])]
       /\ attempts' = [attempts EXCEPT ![j] = Append(@, "running")]
       /\ consumer' = [consumer EXCEPT ![c] =
            [phase |-> "claimed", job |-> j, token |-> Len(attempts[j]) + 1,
             tries |-> job[j].attempts + 1, error |-> "none", heart |-> TRUE]]
  /\ UNCHANGED <<process, world, clearing, faults>>

-----------------------------------------------------------------------------
(* Running a claimed job: run_pending_once, step by step *)

Goto(c, phase) == consumer' = [consumer EXCEPT ![c].phase = phase]
Raise(c, error) ==
  consumer' = [consumer EXCEPT ![c].phase = "caught", ![c].error = error]
Rest(c) == consumer' = [consumer EXCEPT ![c] = Idle]

\* _run reads the row again.  The read does not look at the token, so it also
\* passes when another consumer has claimed the job meanwhile.
Begin(c) ==
  LET j == consumer[c].job IN
  /\ consumer[c].phase = "claimed"
  /\ CASE Running(j) -> Goto(c, "executing")
       [] job[j].status = "cancelled" /\ Service[j] = "AI" -> Raise(c, "cancelled")
       [] OTHER -> Raise(c, IF Service[j] = "AI" THEN "retryable" ELSE "permanent")
  /\ UNCHANGED <<rows, process, world, clearing, faults>>

\* The executor returns, returns a failed analysis, or raises.
Execute(c) ==
  LET j == consumer[c].job IN
  /\ consumer[c].phase = "executing"
  /\ \/ Goto(c, "finishing")
     \/ Service[j] = "AI" /\ Goto(c, "failing")
     \/ \E error \in {"retryable", "permanent", "source_changed"} : Raise(c, error)
     \/ Service[j] = "AI" /\ job[j].status = "cancelled" /\ Raise(c, "cancelled")
  /\ UNCHANGED <<rows, process, world, clearing, faults>>

\* The except branch reads the row once and decides; what it has read may be
\* out of date by the time it acts.
Decide(c) ==
  LET j == consumer[c].job
      error == consumer[c].error
      row == job[j]
  IN
  /\ consumer[c].phase = "caught"
  /\ \/ row.status = "cancelled" /\ Rest(c)
     \/ /\ row.status # "cancelled"
        /\ Goto(c, CASE error = "cancelled" \/ row.cancel -> "cancelling"
                     [] consumer[c].tries < MaxAttempts /\ error = "retryable" -> "closing"
                     [] OTHER -> "failing")
  /\ UNCHANGED <<rows, process, world, clearing, faults>>

\* Mutant: a retry leaves its attempt to the next one.
LeaveRetried(j, n, outcome) ==
  attempts' = IF n \in DOMAIN attempts[j] /\ attempts[j][n] = "running" /\ outcome # "retry_scheduled"
              THEN [attempts EXCEPT ![j][n] = outcome]
              ELSE attempts

\* UPDATE generation_job_attempts ... WHERE id=? AND finished_at IS NULL
CloseAttempt(j, n, outcome) ==
  attempts' = IF n \in DOMAIN attempts[j] /\ attempts[j][n] = "running"
              THEN [attempts EXCEPT ![j][n] = outcome]
              ELSE attempts

\* Mutant: a cancellation requested meanwhile is ignored.
ReportedOutcome(j, outcome) == outcome

FinalOutcome(j, outcome) == IF job[j].cancel THEN "cancelled" ELSE outcome

\* finalize_generation_job: fenced by the token, and a requested cancellation
\* overrides the outcome the consumer reports.
Finalize(c, outcome) ==
  LET j == consumer[c].job
      final == FinalOutcome(j, outcome)
  IN
  IF Owns(c)
  THEN /\ job' = [job EXCEPT
            ![j].status = final, ![j].lease = "null",
            ![j].category = IF outcome = "failed" /\ consumer[c].error = "source_changed"
                            THEN "source_changed" ELSE "none"]
       /\ CloseAttempt(j, consumer[c].token, final)
  ELSE UNCHANGED rows

FinalizeFrom(c, phase, outcome) ==
  /\ consumer[c].phase = phase
  /\ Finalize(c, outcome)
  /\ Rest(c)
  /\ UNCHANGED <<process, world, clearing, faults>>

Finish(c) == FinalizeFrom(c, "finishing", "success")
Fail(c) == FinalizeFrom(c, "failing", "failed")
AcknowledgeCancel(c) == FinalizeFrom(c, "cancelling", "cancelled")

\* finish_generation_attempt(outcome="retry_scheduled"): a transaction of its
\* own, before the one that requeues the job.
ScheduleRetry(c) ==
  /\ consumer[c].phase = "closing"
  /\ CloseAttempt(consumer[c].job, consumer[c].token, "retry_scheduled")
  /\ Goto(c, "requeueing")
  /\ UNCHANGED <<job, process, world, clearing, faults>>

RequeuedRow(row, next) ==
  [row EXCEPT !.status = "pending", !.token = 0, !.owner = NoProcess,
              !.lease = "null", !.next = next, !.category = "none"]

\* requeue_generation_job: fenced by the token; cancel_requested stays as it is.
Requeue(c) ==
  LET j == consumer[c].job IN
  /\ consumer[c].phase = "requeueing"
  /\ job' = IF Owns(c) THEN [job EXCEPT ![j] = RequeuedRow(@, "future")] ELSE job
  /\ Rest(c)
  /\ UNCHANGED <<attempts, process, world, clearing, faults>>

\* A database error in the except branch reaches _loop, which logs it and goes
\* on: the job keeps the state it has and its heartbeat ends.
Drop(c) ==
  /\ faults < MaxFaults
  /\ consumer[c].phase \in {"caught", "cancelling", "closing", "requeueing", "failing"}
  /\ Rest(c)
  /\ faults' = faults + 1
  /\ UNCHANGED <<rows, process, world, clearing>>

\* The lease thread renews, or stops for good when the fenced update finds
\* nothing: the token is another one, the job has ended, or cancel was asked.
Heartbeat(c) ==
  LET j == consumer[c].job IN
  /\ consumer[c].heart
  /\ IF Owns(c) /\ ~job[j].cancel
     THEN /\ job' = [job EXCEPT ![j].lease = "fresh"]
          /\ UNCHANGED consumer
     ELSE /\ consumer' = [consumer EXCEPT ![c].heart = FALSE]
          /\ UNCHANGED job
  /\ UNCHANGED <<attempts, process, world, clearing, faults>>

-----------------------------------------------------------------------------
(* Processes: crash, restart and the recovery that runs only at startup *)

\* The process exits (a graceful stop leaves a running job the same way: its
\* daemon threads die after a bounded join).
Crash(p) ==
  /\ faults < MaxFaults
  /\ process[p] # "down"
  /\ process' = [process EXCEPT ![p] = "down"]
  /\ consumer' = [c \in Consumers |-> IF ProcessOf[c] = p THEN Idle ELSE consumer[c]]
  /\ job' = [j \in Jobs |-> IF job[j].owner = p
                            THEN [job[j] EXCEPT !.owner = DeadProcess] ELSE job[j]]
  /\ faults' = faults + 1
  /\ UNCHANGED <<attempts, world, clearing>>

\* recover_orphaned_analysis_jobs: analysis jobs whose owner process is gone are
\* failed, whatever their lease says.  Their attempt row is not touched.
Boot(p) ==
  /\ process[p] = "down"
  /\ process' = [process EXCEPT ![p] = "starting"]
  /\ job' = [j \in Jobs |->
       IF Service[j] = "AI" /\ Running(j) /\ job[j].owner = DeadProcess
       THEN [job[j] EXCEPT !.status = "failed"] ELSE job[j]]
  /\ UNCHANGED <<attempts, consumer, world, clearing, faults>>

\* recover_expired_generation_jobs, then start_worker.
Expired(j) == Running(j) /\ job[j].lease = "expired"

\* Mutant: the retry budget is not checked.
AlwaysRequeuedRow(row) == RequeuedRow(row, "due")

RecoveredRow(row) ==
  IF row.attempts < MaxAttempts
  THEN RequeuedRow(row, "due")
  ELSE [row EXCEPT !.status = "failed", !.lease = "null", !.category = "none"]

RecoveredAttempts(j) ==
  IF job[j].token \in DOMAIN attempts[j] /\ attempts[j][job[j].token] = "running"
  THEN [attempts[j] EXCEPT ![job[j].token] = "worker_lost"]
  ELSE attempts[j]

Recover(p) ==
  /\ process[p] = "starting"
  /\ process' = [process EXCEPT ![p] = "up"]
  /\ job' = [j \in Jobs |-> IF Expired(j) THEN RecoveredRow(job[j]) ELSE job[j]]
  /\ attempts' = [j \in Jobs |->
       IF Expired(j) THEN RecoveredAttempts(j) ELSE attempts[j]]
  /\ UNCHANGED <<consumer, world, clearing, faults>>

-----------------------------------------------------------------------------
(* Operators *)

\* request_generation_job_cancel.  The answers "already_terminal" and
\* "conflict" (waiting, stale, or pending with the flag set) change nothing.
RequestCancel(j) ==
  /\ \/ /\ job[j].status = "pending" /\ ~job[j].cancel
        /\ job' = [job EXCEPT ![j] =
             [@ EXCEPT !.status = "cancelled", !.cancel = TRUE, !.next = "null"]]
     \/ /\ Running(j)
        /\ job' = [job EXCEPT ![j].cancel = TRUE]
  /\ UNCHANGED <<attempts, consumer, process, world, clearing, faults>>

\* cancel_analysis_job / cancel_analysis_batch_job: an author ends an analysis
\* at once, running or not; the attempt row is not touched.
CancelAnalysis(j) ==
  /\ Service[j] = "AI"
  /\ job[j].status \in {"pending", "running"}
  /\ job' = [job EXCEPT ![j].status = "cancelled"]
  /\ UNCHANGED <<attempts, consumer, process, world, clearing, faults>>

CanRetry(j) == job[j].status \in {"failed", "stale"} /\ job[j].category # "source_changed"

\* Mutant: a retry starts the attempt count again.
RestartedRow(row) ==
  [row EXCEPT !.status = "pending", !.next = "due", !.cancel = FALSE,
              !.category = "none", !.attempts = 0]

RetriedRow(row) ==
  [row EXCEPT !.status = "pending", !.next = "due", !.cancel = FALSE, !.category = "none"]

\* retry_generation_job: attempts are kept.
Retry(j) ==
  /\ CanRetry(j)
  /\ job[j].attempts < RetryBound
  /\ job' = [job EXCEPT ![j] = RetriedRow(@)]
  /\ UNCHANGED <<attempts, consumer, process, world, clearing, faults>>

\* delete_generation_job reads the status and deletes in two transactions.
CheckDelete(j) ==
  /\ job[j].status \in Terminal
  /\ clearing' = clearing \cup {j}
  /\ UNCHANGED <<rows, consumer, process, world, faults>>

DeletedRow == [BlankRow EXCEPT !.status = "deleted"]

Delete(j) ==
  /\ j \in clearing
  /\ clearing' = clearing \ {j}
  /\ job' = [job EXCEPT ![j] = DeletedRow]
  /\ attempts' = [attempts EXCEPT ![j] = <<>>]
  /\ UNCHANGED <<consumer, process, world, faults>>

\* clear_generation_jobs_by_status: one DELETE with the status in its WHERE.
ClearStatus(status) ==
  LET cleared == {j \in Jobs : job[j].status = status} IN
  /\ cleared # {}
  /\ job' = [j \in Jobs |-> IF j \in cleared THEN DeletedRow ELSE job[j]]
  /\ attempts' = [j \in Jobs |-> IF j \in cleared THEN <<>> ELSE attempts[j]]
  /\ UNCHANGED <<consumer, process, world, clearing, faults>>

-----------------------------------------------------------------------------
(* The world around the queue *)

LeaseExpires(j) ==
  /\ job[j].lease = "fresh" /\ Running(j)
  /\ job' = [job EXCEPT ![j].lease = "expired"]
  /\ UNCHANGED <<attempts, consumer, process, world, clearing, faults>>

\* The delay of a rescheduled job is over (backoff_seconds).
BecomesDue(j) ==
  /\ job[j].next = "future"
  /\ job' = [job EXCEPT ![j].next = "due"]
  /\ UNCHANGED <<attempts, consumer, process, world, clearing, faults>>

EditChapter(c) ==
  /\ \E r \in Revisions \ {text[c]} : text' = [text EXCEPT ![c] = r]
  /\ UNCHANGED <<rows, consumer, process, ready, enabled, clearing, faults>>

\* The analyses and voices that dependencies_ready reads come and go.
DependencyChanges(j) ==
  /\ ready' = [ready EXCEPT ![j] = ~@]
  /\ UNCHANGED <<rows, consumer, process, text, enabled, clearing, faults>>

\* A provider is disabled or enabled, cools down or has cooled down.
ProviderChanges(p) ==
  /\ enabled' = [enabled EXCEPT ![p] = ~@]
  /\ UNCHANGED <<rows, consumer, process, text, ready, clearing, faults>>

-----------------------------------------------------------------------------
ConsumerStep(c) ==
  \/ Claim(c) \/ Begin(c) \/ Execute(c) \/ Decide(c) \/ Finish(c) \/ Fail(c)
  \/ AcknowledgeCancel(c) \/ ScheduleRetry(c) \/ Requeue(c)

OperatorStep(j) ==
  \/ RequestCancel(j) \/ CancelAnalysis(j) \/ Retry(j) \/ CheckDelete(j) \/ Delete(j)

Next ==
  \/ \E c \in Consumers : ConsumerStep(c) \/ Drop(c) \/ Heartbeat(c)
  \/ \E j \in Jobs : Create(j) \/ OperatorStep(j) \/ LeaseExpires(j) \/ BecomesDue(j)
  \/ \E p \in Processes : Crash(p) \/ Boot(p) \/ Recover(p)
  \/ \E s \in Terminal : ClearStatus(s)
  \/ \E c \in Chapters : EditChapter(c)
  \/ \E j \in Gated : DependencyChanges(j)
  \/ \E p \in Providers : ProviderChanges(p)

Spec == Init /\ [][Next]_vars

\* Consumer threads loop without end, time passes, and a process that has
\* stopped is started again.  Nothing forces an operator, an author, a provider
\* or a heartbeat to act.
Fairness ==
  /\ \A c \in Consumers : WF_vars(ConsumerStep(c))
  /\ \A j \in Jobs : WF_vars(BecomesDue(j)) /\ WF_vars(LeaseExpires(j))
  /\ \A p \in Processes : WF_vars(Boot(p)) /\ WF_vars(Recover(p))

FairSpec == Spec /\ Fairness

-----------------------------------------------------------------------------
(* Properties *)

\* Claims number the attempts of a job without gaps (the insert of attempt
\* attempts+1 meets UNIQUE(job_id, attempt_number)), and a running job carries
\* the token of its last attempt and the process that claimed it.
RunningHasItsAttempt ==
  \A j \in Jobs :
    /\ Len(attempts[j]) = job[j].attempts
    /\ Running(j) => job[j].token = Len(attempts[j]) /\ job[j].owner # NoProcess

\* An attempt of a TTS job is open only while the job runs under its token: no
\* retry, recovery, cancellation or late consumer leaves one behind.  (Analysis
\* jobs are excluded: ending one by cancel_analysis_job or by orphan recovery
\* leaves its attempt open.)
OpenAttemptIsLive ==
  \A j \in Jobs : Service[j] = "TTS" =>
    \A n \in DOMAIN attempts[j] :
      attempts[j][n] = "running" => Running(j) /\ job[j].token = n

\* A job that succeeded did so in its last attempt, and no other attempt of it
\* says success: a late consumer never ends the attempt of another one.
SuccessIsOfLastAttempt ==
  \A j \in Jobs : \A n \in DOMAIN attempts[j] :
    attempts[j][n] = "success" <=> (job[j].status = "success" /\ n = Len(attempts[j]))

\* The history of a job is append-only: an attempt that has an outcome keeps it
\* until the whole job is deleted.
AttemptsAppendOnly ==
  [][\A j \in Jobs : job'[j].status # "deleted" =>
       \A n \in DOMAIN attempts[j] :
         /\ n \in DOMAIN attempts'[j]
         /\ attempts[j][n] # "running" => attempts'[j][n] = attempts[j][n]]_vars

\* A job asked to cancel while it runs never becomes a success, whatever its
\* consumer reports and however often it is recovered.
CancelledNeverSucceeds ==
  [][\A j \in Jobs : job[j].cancel /\ job[j].status # "success"
       => job'[j].status # "success"]_vars

\* The running jobs not asked to cancel stay within the capacity of their
\* service and of their provider, whatever order consumers claim in.
WithinCapacity ==
  /\ \A s \in Services :
       Cardinality({j \in Jobs : Occupying(j) /\ Service[j] = s}) <= ServiceCapacity[s]
  /\ \A p \in Providers, s \in Services :
       Cardinality({j \in Jobs : Occupying(j) /\ Provider[j] = p /\ Service[j] = s})
         <= ProviderCapacity[p]

\* Why a job may stay unsettled: it is not there, an operator asked it to stop,
\* its source changed, its provider is off, or its dependencies are missing.
Excused(j) ==
  \/ job[j].status \in Terminal \cup {"absent", "stale", "deleted"}
  \/ job[j].cancel \/ SourceChanged(j) \/ ~enabled[Provider[j]]
  \/ job[j].status = "waiting_dependency" /\ ~ready[j]

\* The scan passes over a candidate whose provider is off or whose dependencies are
\* missing, and ends after ScanLimit candidates: so many of them in front of a job
\* hide it.
PassedBy(i) == ~enabled[Provider[i]] \/ (job[i].status = "waiting_dependency" /\ ~ready[i])

Hidden(j) ==
  Cardinality({i \in Candidate(Service[j]) \ {j} : PassedBy(i) /\ ~Ahead(j, i)}) >= ScanLimit

\* Without crashes every submitted job settles, unless one of those reasons keeps it
\* or a full scan of candidates that cannot run hides it: the capacity checks, the
\* two-step retry, the queue order and the limit of the scan leave no other job behind.
SubmittedJobSettles == \A j \in Jobs : []<>(Excused(j) \/ Hidden(j))

\* The job lifecycle the queue implements.
StageOf(row) ==
  CASE row.status \in {"pending", "waiting_dependency"} -> "queued"
    [] row.status = "running" -> "held"
    [] row.status = "success" -> "succeeded"
    [] row.status \in {"cancelled", "stale"} -> "abandoned"
    [] row.status = "deleted" -> "gone"
    [] OTHER -> row.status

Lifecycle == INSTANCE JobLifecycle
  WITH Limit <- MaxAttempts,
       stage <- [j \in Jobs |-> StageOf(job[j])],
       turn <- [j \in Jobs |-> job[j].attempts]

\* Every step of the queue is a step of JobLifecycle.
ImplementsLifecycle == Lifecycle!Spec
=============================================================================
