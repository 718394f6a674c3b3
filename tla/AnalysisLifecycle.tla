------------------------- MODULE AnalysisLifecycle --------------------------
(***************************************************************************)
(* One speaker analysis of one chapter: its row in chapter_analyses, its    *)
(* artifact file, the job that runs it (alone, or as a child of a job over  *)
(* the whole book), the pointer chapters.current_analysis_id and the roster *)
(* of the book (backend/services/analysis.py, analysis_executor.py, the     *)
(* analysis routes of routers/books.py, the end of backend/jobs.py).        *)
(*                                                                          *)
(* A step is one transaction or one file operation together with the reads  *)
(* before it; authors, operators, other consumers, edits and a crash of the *)
(* process come between any two of them.  The queue itself (claims, leases, *)
(* fencing) is GenerationQueue; here one process owns all consumers, so two *)
(* of them hold one job only when the first is past its finalize.           *)
(***************************************************************************)
EXTENDS Naturals, FiniteSets, FiniteSetsExt

CONSTANTS
  Analyses,    \* ids of chapter_analyses, 1..n, given in order
  Batches,     \* ids of jobs over the whole book
  Chapters,    \* chapters of the book, numbered
  Consumers,   \* AI consumer threads of the process
  Requests,    \* HTTP requests being served
  Rewrites,    \* <<chapter, old, new>>: the edits of texts that may happen
  FirstText,   \* the revision every chapter starts from
  MaxAttempts, \* min(MAX_ATTEMPTS, max_attempts)
  MaxFaults,   \* bound of the model: crashes of the process and errors it catches
  MaxActs      \* bound of the model: acts of operators and edits

Revisions == {FirstText} \cup {w[3] : w \in Rewrites}

ASSUME IdAssumption ==
  /\ Analyses \subseteq Nat \ {0} /\ Chapters \subseteq Nat \ {0}
  /\ Batches \subseteq Nat \ {0} /\ Batches \cap Analyses = {}
  /\ Revisions \subseteq Nat \ {0}
ASSUME BoundAssumption == MaxAttempts \in Nat /\ MaxFaults \in Nat /\ MaxActs \in Nat

VARIABLES
  text,      \* chapters.text_hash
  row,       \* chapter_analyses
  artifact,  \* artifact[a]: the text its artifact file was made from, 0: no file
  job,       \* generation_jobs: job[a] runs analysis a, job[b] a whole book
  current,   \* chapters.current_analysis_id, 0: NULL
  roster,    \* books.speaker_chapters: the analysis each chapter's entry is from
  run,       \* the local variables of each consumer
  request,   \* the local variables of each request that creates an analysis
  up,        \* the process runs
  crashes,   \* crashes so far (bound of the model)
  errors,    \* errors of the provider or of a set-up so far (bound of the model)
  acts,      \* acts of operators and edits so far (bound of the model)
  withdrawn  \* history: the analyses an author has cancelled

vars == <<text, row, artifact, job, current, roster, run, request, up, crashes, errors, acts, withdrawn>>
tables == <<row, job, withdrawn>>
view == <<current, roster>>
process == <<up, crashes, errors, acts>>

Jobs == Analyses \cup Batches
Active == {"queued", "running"}
Error == {"", "analysis_cancelled", "source_changed", "retrying", "failed", "stale_job_claim"}
\* History, which only the properties read: what has befallen an analysis.
Past == {"restored",    \* its text came back while its consumer worked on another
         "outrun",      \* its consumer found another text and gave up
         "unprepared"}  \* the chapter's set-up failed before the analyzer ran
Row == [status : {"absent", "ready", "failed"} \cup Active, error : Error,
        chapter : Chapters \cup {0}, hash : Revisions \cup {0}, batch : Batches \cup {0},
        past : SUBSET Past]
Job == [status : {"absent", "pending", "running", "stale", "success", "failed", "cancelled",
                  "deleted"},
        hash : Revisions \cup {0}, attempts : Nat, cancel : BOOLEAN]
Phase == {"idle", "claimed", "opening", "next", "starting", "analysing", "checking", "saving",
          "publishing", "projecting", "writing", "pointing", "finishing", "rejected",
          "caught", "noting_retry", "noting_failure"}
Run == [phase : Phase, job : Jobs \cup {0}, analysis : Analyses \cup {0},
        read : [Chapters -> Revisions \cup {0}], todo : SUBSET Chapters,
        seen : [Chapters -> Analyses \cup {0}],
        error : {"", "analysis_cancelled", "source_changed", "retryable", "permanent"}]
Request == [phase : {"idle", "checked", "inserted", "checked_batch"},
            chapter : Chapters \cup {0}, hash : Revisions \cup {0},
            analysis : Analyses \cup {0}]

NoRow == [status |-> "absent", error |-> "", chapter |-> 0, hash |-> 0, batch |-> 0,
          past |-> {}]
NoJob == [status |-> "absent", hash |-> 0, attempts |-> 0, cancel |-> FALSE]
Idle == [phase |-> "idle", job |-> 0, analysis |-> 0, read |-> [c \in Chapters |-> 0],
         todo |-> {}, seen |-> [c \in Chapters |-> 0], error |-> ""]
NoRequest == [phase |-> "idle", chapter |-> 0, hash |-> 0, analysis |-> 0]

TypeOK ==
  /\ text \in [Chapters -> Revisions]
  /\ row \in [Analyses -> Row]
  /\ artifact \in [Analyses -> Revisions \cup {0}]
  /\ job \in [Jobs -> Job]
  /\ current \in [Chapters -> Analyses \cup {0}]
  /\ roster \in [Chapters -> Analyses \cup {0}]
  /\ run \in [Consumers -> Run]
  /\ request \in [Requests -> Request]
  /\ up \in BOOLEAN /\ crashes \in Nat /\ errors \in Nat /\ acts \in Nat
  /\ withdrawn \subseteq Analyses

Init ==
  /\ text = [c \in Chapters |-> FirstText]
  /\ row = [a \in Analyses |-> NoRow]
  /\ artifact = [a \in Analyses |-> 0]
  /\ job = [j \in Jobs |-> NoJob]
  /\ current = [c \in Chapters |-> 0]
  /\ roster = [c \in Chapters |-> 0]
  /\ run = [k \in Consumers |-> Idle]
  /\ request = [u \in Requests |-> NoRequest]
  /\ up = TRUE /\ crashes = 0 /\ errors = 0 /\ acts = 0 /\ withdrawn = {}

-----------------------------------------------------------------------------
Exists(a) == row[a].status # "absent"
IsActive(a) == row[a].status \in Active
Live(j) == job[j].status \in {"pending", "running"}
Free == {a \in Analyses : ~Exists(a)}
Children(b) == {a \in Analyses : Exists(a) /\ row[a].batch = b}

\* get_ready_chapter_analysis: ready, and of the text the chapter has now.
HasReady(c) ==
  \E a \in Analyses : row[a].status = "ready" /\ row[a].chapter = c /\ row[a].hash = text[c]

Faults == crashes + errors < MaxFaults

FailedRow(r, error) == [r EXCEPT !.status = "failed", !.error = error]
Befallen(r, what) == [r EXCEPT !.past = @ \cup {what}]

-----------------------------------------------------------------------------
(* Requests that create an analysis *)

\* create_analysis looks at the newest active job of the chapter only.
Deduplicated(c) ==
  LET active == {a \in Analyses : Live(a) /\ row[a].chapter = c} IN
  active # {} /\ IsActive(Max(active))

\* create_analysis reads the chapter, then the jobs, then a ready analysis
\* (force goes on in spite of one) ...
Ask(u, c) ==
  /\ up /\ request[u].phase = "idle"
  /\ ~Deduplicated(c)
  /\ request' = [request EXCEPT ![u] =
       [phase |-> "checked", chapter |-> c, hash |-> text[c], analysis |-> 0]]
  /\ UNCHANGED <<text, artifact, tables, view, run, process>>

\* ... inserts the row ...
Insert(u) ==
  /\ request[u].phase = "checked" /\ Free # {}
  /\ row' = [row EXCEPT ![Min(Free)] =
       [status |-> "queued", error |-> "", chapter |-> request[u].chapter,
        hash |-> request[u].hash, batch |-> 0, past |-> {}]]
  /\ request' = [request EXCEPT ![u].phase = "inserted", ![u].analysis = Min(Free)]
  /\ UNCHANGED <<text, artifact, job, withdrawn, view, run, process>>

\* ... and in another transaction the job, bound to the text of that moment.
Enqueue(u) ==
  /\ request[u].phase = "inserted"
  /\ job' = [job EXCEPT ![request[u].analysis] =
       [NoJob EXCEPT !.status = "pending", !.hash = text[request[u].chapter]]]
  /\ request' = [request EXCEPT ![u] = NoRequest]
  /\ UNCHANGED <<text, artifact, row, withdrawn, view, run, process>>

\* create_analysis_batch: a check, then the job.
AskBatch(u) ==
  /\ up /\ request[u].phase = "idle"
  /\ ~\E b \in Batches : Live(b)
  /\ request' = [request EXCEPT ![u].phase = "checked_batch"]
  /\ UNCHANGED <<text, artifact, tables, view, run, process>>

EnqueueBatch(u, b) ==
  /\ request[u].phase = "checked_batch"
  /\ job[b].status = "absent"
  /\ job' = [job EXCEPT ![b].status = "pending"]
  /\ request' = [request EXCEPT ![u] = NoRequest]
  /\ UNCHANGED <<text, artifact, row, withdrawn, view, run, process>>

-----------------------------------------------------------------------------
(* Authors and operators *)

Cancellable(a) == IsActive(a)

\* cancel_analysis_job: the job and its analysis end in one transaction.
Cancel(a) ==
  /\ up /\ Live(a) /\ Cancellable(a)
  /\ job' = [job EXCEPT ![a].status = "cancelled"]
  /\ row' = [row EXCEPT ![a] = FailedRow(@, "analysis_cancelled")]
  /\ withdrawn' = withdrawn \cup {a}
  /\ UNCHANGED <<text, artifact, view, run, request, process>>

\* cancel_analysis_batch_job: the job and every active child of it.
CancelBatch(b) ==
  LET ended == {a \in Children(b) : IsActive(a)} IN
  /\ up /\ Live(b)
  /\ job' = [job EXCEPT ![b].status = "cancelled"]
  /\ row' = [a \in Analyses |-> IF a \in ended THEN FailedRow(row[a], "analysis_cancelled")
                                ELSE row[a]]
  /\ withdrawn' = withdrawn \cup ended
  /\ UNCHANGED <<text, artifact, view, run, request, process>>

Acts == up /\ acts < MaxActs /\ acts' = acts + 1

\* request_generation_job_cancel knows nothing of the analysis.
CancelJob(j) ==
  /\ Acts
  /\ \/ job[j].status = "pending" /\ job' = [job EXCEPT ![j].status = "cancelled"]
     \/ job[j].status = "running" /\ job' = [job EXCEPT ![j].cancel = TRUE]
  /\ UNCHANGED <<text, artifact, row, withdrawn, view, run, request, up, crashes, errors>>

\* retry_generation_job: the analysis row stays as it is.
RetryJob(j) ==
  /\ Acts /\ job[j].status = "failed"
  /\ job' = [job EXCEPT ![j].status = "pending", ![j].cancel = FALSE]
  /\ UNCHANGED <<text, artifact, row, withdrawn, view, run, request, up, crashes, errors>>

\* clear_generation_jobs_by_status or delete_generation_job, on a whole-book job.
DeleteJob(b) ==
  /\ Acts /\ job[b].status \in {"success", "failed", "cancelled"}
  /\ job' = [job EXCEPT ![b].status = "deleted"]
  /\ UNCHANGED <<text, artifact, row, withdrawn, view, run, request, up, crashes, errors>>

\* History: an edit to t restores the text of an analysis whose consumer has
\* read another one.
Restores(c, t, a) ==
  /\ row[a].chapter = c /\ row[a].hash = t
  /\ \E k \in Consumers : run[k].analysis = a /\ run[k].read[c] \notin {0, t}

\* An edit, also one that takes an earlier edit back: to the first text it is
\* free, so MaxActs bounds the edits that go away from it.
Edit(c) ==
  /\ up
  /\ \E w \in Rewrites :
       /\ w[1] = c /\ w[2] = text[c] /\ text' = [text EXCEPT ![c] = w[3]]
       /\ IF w[3] = FirstText THEN UNCHANGED acts ELSE Acts
       /\ row' = [a \in Analyses |->
            IF Restores(c, w[3], a) THEN Befallen(row[a], "restored") ELSE row[a]]
  /\ UNCHANGED <<artifact, job, withdrawn, view, run, request, up, crashes, errors>>

-----------------------------------------------------------------------------
(* A consumer *)

Goto(k, phase) == run' = [run EXCEPT ![k].phase = phase]
Rest(k) == run' = [run EXCEPT ![k] = Idle]

\* claim_generation_job: jobs of a changed text become stale in passing.
Outdated(j) == j \in Analyses /\ job[j].hash # text[row[j].chapter]

Claim(k) ==
  /\ up /\ run[k].phase = "idle"
  /\ \E j \in Jobs :
       /\ job[j].status = "pending" /\ ~Outdated(j)
       /\ job' = [i \in Jobs |->
            IF i = j THEN [job[i] EXCEPT !.status = "running", !.attempts = @ + 1,
                                         !.cancel = FALSE]
            ELSE IF job[i].status = "pending" /\ Outdated(i)
            THEN [job[i] EXCEPT !.status = "stale"] ELSE job[i]]
       /\ run' = [run EXCEPT ![k] = [Idle EXCEPT !.phase = "claimed", !.job = j,
                    !.analysis = IF j \in Analyses THEN j ELSE 0]]
  /\ UNCHANGED <<text, artifact, row, withdrawn, view, request, process>>

IsBatch(k) == run[k].job \in Batches
Analysis(k) == row[run[k].analysis]
Chapter(k) == Analysis(k).chapter

\* Mutant: the text the job was made from instead of the one of the analysis.
JobSourceChanged(k) ==
  text[Chapter(k)] # (IF IsBatch(k) THEN Analysis(k).hash ELSE job[run[k].job].hash)

SourceChanged(k) == text[Chapter(k)] # Analysis(k).hash

\* raise_if_cancelled, and for a child raise_if_batch_cancelled: it reads the
\* job again and takes a job that is gone for one that was not cancelled.
SeesCancel(k) ==
  \/ Analysis(k).error = "analysis_cancelled"
  \/ IsBatch(k) /\ job[run[k].job].status = "cancelled"

\* Mutant: every exception is taken for a changed source, which only returns.
SwallowedRaise(k, error) == Goto(k, "finishing") /\ UNCHANGED row

\* An exception in the run of a single analysis goes to run_pending_once; in a
\* child it fails the row, and ends the loop when it is a cancellation.
Raise(k, error) ==
  IF IsBatch(k)
  THEN /\ row' = [row EXCEPT ![run[k].analysis] =
            FailedRow(@, IF error \in Error THEN error ELSE "failed")]
       /\ Goto(k, IF error = "analysis_cancelled" THEN "finishing" ELSE "next")
  ELSE /\ run' = [run EXCEPT ![k].phase = "caught", ![k].error = error]
       /\ UNCHANGED row

\* _run reads the job again; a whole book reads the list of its chapters once ...
Begin(k) ==
  LET runs == job[run[k].job].status = "running" IN
  /\ run[k].phase = "claimed"
  /\ \/ ~runs /\ Rest(k)
     \/ runs /\ ~IsBatch(k) /\ Goto(k, "opening")
     \/ /\ runs /\ IsBatch(k)
        /\ run' = [run EXCEPT ![k].phase = "next", ![k].read = text, ![k].todo = Chapters]
  /\ UNCHANGED <<text, artifact, tables, view, request, process>>

\* ... a single analysis its chapter, and turns from queued to running.
Open(k) ==
  /\ run[k].phase = "opening"
  /\ \/ SeesCancel(k) /\ Raise(k, "analysis_cancelled")
     \/ /\ ~SeesCancel(k)
        /\ row' = [row EXCEPT ![run[k].analysis].status =
             IF @ = "queued" THEN "running" ELSE @]
        /\ run' = [run EXCEPT ![k].phase = "analysing", ![k].read[Chapter(k)] = text[Chapter(k)]]
  /\ UNCHANGED <<text, artifact, job, withdrawn, view, request, process>>

\* run_speaker_analysis_all, one round: the row of the next chapter, of the text
\* the list had ...
NextChapter(k) ==
  LET c == Min(run[k].todo) IN
  /\ run[k].phase = "next"
  /\ IF run[k].todo = {} \/ job[run[k].job].status = "cancelled"
     THEN Goto(k, "finishing") /\ UNCHANGED row
     ELSE /\ Free # {}
          /\ row' = [row EXCEPT ![Min(Free)] =
               [status |-> "queued", error |-> "", chapter |-> c,
                hash |-> run[k].read[c], batch |-> run[k].job, past |-> {}]]
          /\ run' = [run EXCEPT ![k].phase = "starting", ![k].analysis = Min(Free),
                                ![k].todo = @ \ {c}]
  /\ UNCHANGED <<text, artifact, job, withdrawn, view, request, process>>

\* ... which then is set running whatever it is by now.
StartChild(k) ==
  /\ run[k].phase = "starting"
  /\ row' = [row EXCEPT ![run[k].analysis].status = "running"]
  /\ Goto(k, "analysing")
  /\ UNCHANGED <<text, artifact, job, withdrawn, view, request, process>>

\* What comes before the try of an analysis, and of each chapter of a whole book,
\* may raise too: a text that cannot be segmented, a database that is busy.  No
\* handler of the chapter sees it, and a child stays queued or running.
SetUpFails(k) ==
  LET a == run[k].analysis IN
  /\ run[k].phase \in {"opening", "next", "starting"}
  /\ Faults /\ errors' = errors + 1
  /\ \E error \in {"retryable", "permanent"} :
       run' = [run EXCEPT ![k].phase = "caught", ![k].error = error]
  /\ IF run[k].phase = "starting"
     THEN \E status \in {row[a].status, "running"} :
            row' = [row EXCEPT ![a] = Befallen([@ EXCEPT !.status = status], "unprepared")]
     ELSE UNCHANGED row
  /\ UNCHANGED <<text, artifact, job, withdrawn, view, request, up, crashes, acts>>

\* The analyzer: a chunk it takes from the partial cache or stores there has the
\* chapter compared with the analysis (one whose structured mode fell back is not
\* stored); the provider may fail.
Analyse(k) ==
  /\ run[k].phase = "analysing"
  /\ \/ Goto(k, "checking") /\ UNCHANGED <<row, errors>>
     \/ /\ Faults /\ errors' = errors + 1
        /\ \E error \in {"retryable", "permanent"} : Raise(k, error)
     \/ /\ SourceChanged(k)
        /\ row' = [row EXCEPT ![run[k].analysis] = FailedRow(@, "source_changed")]
        /\ Goto(k, IF IsBatch(k) THEN "next" ELSE "rejected")
        /\ UNCHANGED errors
  /\ UNCHANGED <<text, artifact, job, withdrawn, view, request, up, crashes, acts>>

\* Before the result is used: cancelled? of the text the chapter has now?  A
\* single analysis whose source changed here returns its row as it is.
Check(k) ==
  /\ run[k].phase = "checking"
  /\ \/ SeesCancel(k) /\ Raise(k, "analysis_cancelled")
     \/ ~SeesCancel(k) /\ ~SourceChanged(k) /\ Goto(k, "saving") /\ UNCHANGED row
     \/ /\ ~SeesCancel(k) /\ SourceChanged(k)
        /\ IF IsBatch(k) THEN Raise(k, "source_changed")
           ELSE /\ Goto(k, IF Analysis(k).status = "failed" THEN "rejected" ELSE "finishing")
                /\ row' = [row EXCEPT ![run[k].analysis] = Befallen(@, "outrun")]
  /\ UNCHANGED <<text, artifact, job, withdrawn, view, request, process>>

\* save_ready_source_faithful_analysis: the last look at the chapter, then
\* os.replace of the file ...
Save(k) ==
  /\ run[k].phase = "saving"
  /\ IF ~SourceChanged(k)
     THEN /\ artifact' = [artifact EXCEPT ![run[k].analysis] = run[k].read[Chapter(k)]]
          /\ Goto(k, "publishing") /\ UNCHANGED row
     ELSE /\ row' = [row EXCEPT ![run[k].analysis] = FailedRow(@, "source_changed")]
          /\ Goto(k, IF IsBatch(k) THEN "next" ELSE "rejected")
          /\ UNCHANGED artifact
  /\ UNCHANGED <<text, job, withdrawn, view, request, process>>

\* Mutant: mark_analysis_ready, without the condition.
AlwaysPublishes(a) == TRUE

Publishes(a) == IsActive(a)

\* ... and the pointer to it, if the row is still active; otherwise the file goes.
Publish(k) ==
  LET a == run[k].analysis IN
  /\ run[k].phase = "publishing"
  /\ IF Publishes(a)
     THEN /\ row' = [row EXCEPT ![a].status = "ready", ![a].error = ""]
          /\ Goto(k, "projecting") /\ UNCHANGED artifact
     ELSE /\ artifact' = [artifact EXCEPT ![a] = 0]
          /\ Raise(k, IF row[a].error = "analysis_cancelled" THEN "analysis_cancelled"
                      ELSE "permanent")
  /\ UNCHANGED <<text, job, withdrawn, view, request, process>>

\* retry_roster_projection: ready, with its file, of the chapter as it is.
Projects(k) ==
  Analysis(k).status = "ready" /\ artifact[run[k].analysis] # 0 /\ ~SourceChanged(k)

AfterProjection(k) == IF IsBatch(k) THEN "next" ELSE "finishing"

\* It reads the roster of the book; a refusal is only logged.
Project(k) ==
  /\ run[k].phase = "projecting"
  /\ run' = [run EXCEPT ![k].phase = IF Projects(k) THEN "writing" ELSE AfterProjection(k),
                        ![k].seen = IF Projects(k) THEN roster ELSE @]
  /\ UNCHANGED <<text, artifact, tables, view, request, process>>

\* update_book writes the whole map back ...
WriteRoster(k) ==
  /\ run[k].phase = "writing"
  /\ roster' = [run[k].seen EXCEPT ![Chapter(k)] = run[k].analysis]
  /\ run' = [run EXCEPT ![k].phase = "pointing", ![k].seen = Idle.seen]
  /\ UNCHANGED <<text, artifact, tables, current, request, process>>

\* ... and the chapter points at the analysis.
Point(k) ==
  /\ run[k].phase = "pointing"
  /\ current' = [current EXCEPT ![Chapter(k)] = run[k].analysis]
  /\ row' = [row EXCEPT ![run[k].analysis].error = ""]
  /\ Goto(k, AfterProjection(k))
  /\ UNCHANGED <<text, artifact, job, withdrawn, roster, request, process>>

-----------------------------------------------------------------------------
(* The end of run_pending_once *)

\* finalize_generation_job: only a running job, and a requested cancel wins.
Finalized(j, outcome) ==
  IF job[j].status = "running"
  THEN [job EXCEPT ![j].status = IF job[j].cancel THEN "cancelled" ELSE outcome]
  ELSE job

Finish(k) ==
  /\ \/ run[k].phase = "finishing" /\ job' = Finalized(run[k].job, "success")
     \/ run[k].phase = "rejected" /\ job' = Finalized(run[k].job, "failed")
  /\ Rest(k)
  /\ UNCHANGED <<text, artifact, row, withdrawn, view, request, process>>

\* Only a single analysis is then noted in its row.
Then(k, phase) == IF IsBatch(k) THEN Rest(k) ELSE Goto(k, phase)

\* The except branch: a cancellation closes the job, a retryable error puts it
\* back, any other fails it.
Catch(k) ==
  LET j == run[k].job IN
  /\ run[k].phase = "caught"
  /\ \/ /\ \/ job[j].status = "cancelled" \/ job[j].cancel
           \/ run[k].error = "analysis_cancelled"
        /\ job' = Finalized(j, "cancelled") /\ Rest(k)
     \/ /\ job[j].status # "cancelled" /\ ~job[j].cancel
        /\ run[k].error = "retryable" /\ job[j].attempts < MaxAttempts
        /\ job' = IF job[j].status = "running" THEN [job EXCEPT ![j].status = "pending"] ELSE job
        /\ Then(k, "noting_retry")
     \/ /\ job[j].status # "cancelled" /\ ~job[j].cancel
        /\ run[k].error # "analysis_cancelled"
        /\ run[k].error = "permanent" \/ job[j].attempts >= MaxAttempts
        /\ job' = Finalized(j, "failed")
        /\ Then(k, "noting_failure")
  /\ UNCHANGED <<text, artifact, row, withdrawn, view, request, process>>

\* What the except branch then writes into the analysis looks at nothing.
Note(k) ==
  /\ \/ /\ run[k].phase = "noting_retry"
        /\ row' = [row EXCEPT ![run[k].analysis].error = "retrying"]
     \/ /\ run[k].phase = "noting_failure"
        /\ row' = [row EXCEPT ![run[k].analysis] = FailedRow(@, "failed")]
  /\ Rest(k)
  /\ UNCHANGED <<text, artifact, job, withdrawn, view, request, process>>

-----------------------------------------------------------------------------
(* The process *)

Crash ==
  /\ up /\ Faults
  /\ up' = FALSE /\ crashes' = crashes + 1
  /\ run' = [k \in Consumers |-> Idle]
  /\ request' = [u \in Requests |-> NoRequest]
  /\ UNCHANGED <<text, artifact, tables, view, errors, acts>>

\* Mutant: the children of a lost job are forgotten.
LostChildren(b) == {}

LostRows(b) == {a \in Children(b) : IsActive(a)}

\* recover_orphaned_analysis_jobs fails what a lost worker was running, row and
\* job; requeue_stale_generation_jobs then takes the jobs whose lease has run
\* out and that the first has left (their row is not running).
Restart ==
  LET orphaned == {a \in Analyses : job[a].status = "running" /\ row[a].status = "running"}
      books == {b \in Batches : job[b].status = "running"}
      lost == orphaned \cup UNION {LostRows(b) : b \in books}
      left == {a \in Analyses : job[a].status = "running"} \ orphaned
  IN
  /\ ~up
  /\ up' = TRUE
  /\ row' = [a \in Analyses |-> IF a \in lost THEN FailedRow(row[a], "stale_job_claim")
                                ELSE row[a]]
  /\ \E expired \in SUBSET left :
       job' = [j \in Jobs |->
         IF j \in orphaned \cup books THEN [job[j] EXCEPT !.status = "failed"]
         ELSE IF j \in expired
         THEN [job[j] EXCEPT !.status =
                IF job[j].attempts < MaxAttempts THEN "pending" ELSE "failed"]
         ELSE job[j]]
  /\ UNCHANGED <<text, artifact, view, run, request, crashes, errors, acts, withdrawn>>

-----------------------------------------------------------------------------
Work(k) ==
  \/ Claim(k) \/ Begin(k) \/ Open(k) \/ NextChapter(k) \/ StartChild(k) \/ SetUpFails(k)
  \/ Analyse(k) \/ Check(k) \/ Save(k) \/ Publish(k) \/ Project(k) \/ WriteRoster(k) \/ Point(k) \/ Finish(k)
  \/ Catch(k) \/ Note(k)

Serve(u) ==
  \/ \E c \in Chapters : Ask(u, c)
  \/ Insert(u) \/ Enqueue(u) \/ AskBatch(u)
  \/ \E b \in Batches : EnqueueBatch(u, b)

Next ==
  \/ \E k \in Consumers : Work(k)
  \/ \E u \in Requests : Serve(u)
  \/ \E a \in Analyses : Cancel(a)
  \/ \E b \in Batches : CancelBatch(b) \/ DeleteJob(b)
  \/ \E j \in Jobs : CancelJob(j) \/ RetryJob(j)
  \/ \E c \in Chapters : Edit(c)
  \/ Crash \/ Restart

Spec == Init /\ [][Next]_vars

-----------------------------------------------------------------------------
(* Properties *)

\* An analysis its author has cancelled never becomes ready, and neither the
\* chapter nor the roster of the book ever shows it, whatever step its worker
\* was at (the compare-and-set of mark_analysis_ready_if_running).
CancelledHasNoEffect ==
  \A a \in withdrawn :
    row[a].status # "ready" /\ \A c \in Chapters : current[c] # a /\ roster[c] # a

\* What a ready analysis shows was made from the very text it is recorded for,
\* in every attempt, though the text is read once, compared three times and never
\* locked.  One order of steps escapes the comparisons: the text is edited before
\* it is read and edited back before it is compared.  A later attempt on a ready
\* analysis may remove its file, and never leaves another in its place.
ReadyIsOfItsSource ==
  \A a \in Analyses :
    row[a].status = "ready" =>
      \/ artifact[a] = row[a].hash
      \/ "restored" \in row[a].past
      \/ artifact[a] = 0 /\ job[a].attempts > 1

\* When a job over the whole book has ended, cancelled, lost, failed or done, and
\* no consumer is at it any more, no child of it is left active but one whose
\* set-up failed.  (Not when the process dies after the cancellation: recovery
\* passes over a cancelled job.)
EndedBookIsSettled ==
  \A b \in Batches :
    /\ job[b].status \in {"success", "failed", "cancelled"}
    /\ \A k \in Consumers : run[k].job # b
    /\ job[b].status = "cancelled" => crashes = 0
    => \A a \in Children(b) : IsActive(a) => "unprepared" \in row[a].past

\* A job that succeeded has a ready analysis, whatever its provider, its author and
\* its earlier attempts did, unless its consumer found another text and gave up, or
\* an earlier attempt has noted its own failure in the row since.
SuccessIsReady ==
  \A a \in Analyses :
    job[a].status = "success" =>
      \/ row[a].status = "ready"
      \/ "outrun" \in row[a].past
      \/ row[a].status = "failed" /\ job[a].attempts > 1
=============================================================================
