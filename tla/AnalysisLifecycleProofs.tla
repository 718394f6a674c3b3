---------------------- MODULE AnalysisLifecycleProofs -----------------------
(***************************************************************************)
(* Theorems about AnalysisLifecycle, for every set of analyses, chapters,  *)
(* consumers and requests and any number of crashes, errors and edits.     *)
(***************************************************************************)
EXTENDS AnalysisLifecycle, WellFoundedInduction, TLAPS

-----------------------------------------------------------------------------
(* The inductive invariant *)

Working == {"starting", "analysing", "checking", "saving", "publishing"}
Showing == {"projecting", "writing", "pointing"}

\* What the book may show.
Shown(a) == a \notin withdrawn /\ row[a].status \in {"ready", "failed"}

\* A job of a single analysis has its row, and a child has no job of its own.
Rows ==
  /\ \A a \in Analyses : /\ Exists(a) => row[a].chapter \in Chapters
                         /\ job[a].status # "absent" => Exists(a) /\ row[a].batch = 0
                         /\ job[a].status = "absent" => job[a].attempts = 0
  /\ withdrawn \subseteq {a \in Analyses : Exists(a)}

\* A request that has inserted its row is the only one that gives it a job.
Inserted ==
  \A u \in Requests :
    /\ request[u].phase = "checked" => request[u].chapter \in Chapters
    /\ request[u].phase = "inserted" =>
         LET a == request[u].analysis IN
         /\ a \in Analyses /\ Exists(a) /\ row[a].batch = 0 /\ job[a].status = "absent"
         /\ request[u].chapter = row[a].chapter
         /\ \A v \in Requests : request[v].phase = "inserted" /\ request[v].analysis = a => v = u

\* A consumer has a job and works on the analysis of the job, or on a child of it.
OfSingle(r) ==
  r.job \in Analyses =>
    /\ r.analysis = r.job /\ r.phase \notin {"idle", "next", "starting"}
    /\ row[r.job].batch = 0 /\ job[r.job].status # "absent" /\ job[r.job].attempts >= 1
OfBatch(r) ==
  r.job \in Batches =>
    /\ r.phase \in Working \cup Showing \cup {"claimed", "next", "finishing", "caught"}
    /\ r.phase \in Working \cup Showing => r.analysis # 0
    /\ r.phase = "claimed" => r.analysis = 0
    /\ job[r.job].status \in {"running", "cancelled", "deleted"}
    /\ r.analysis # 0 => Exists(r.analysis) /\ row[r.analysis].batch = r.job
Held ==
  \A k \in Consumers :
    /\ run[k].job = 0 => run[k] = Idle
    /\ OfSingle(run[k]) /\ OfBatch(run[k])

\* Nobody else holds the job of a whole book, or a job in its first attempt.
Alone ==
  \A k, l \in Consumers :
    /\ run[k].job = run[l].job /\ run[k].job # 0
    /\ run[k].job \in Analyses => job[run[k].job].attempts <= 1
    => k = l

Down == ~up => /\ \A k \in Consumers : run[k].job = 0
               /\ \A u \in Requests : request[u].phase = "idle"

\* What is left of a cancelled analysis.
Stopped ==
  \A a \in withdrawn :
    row[a].status = "failed" \/ (row[a].status = "running" /\ row[a].batch # 0)

\* An active analysis that its consumer is still to end.
Left(a) == IsActive(a) /\ "unprepared" \notin row[a].past

\* A consumer at a cancelled analysis: it will see the cancellation, or the
\* row will refuse the result.
Harmless(r) ==
  LET a == r.analysis IN
  /\ r.job \in Batches /\ r.phase \in {"starting", "analysing", "checking"} /\ a \in withdrawn =>
       row[a].error = "analysis_cancelled"
  /\ r.phase = "starting" => row[a].status = "queued" \/ a \in withdrawn
  /\ r.phase \in {"saving", "publishing"} /\ a \in withdrawn => row[a].status = "failed"
  /\ r.phase \in Showing => Shown(a)
  /\ r.job \in Batches /\ r.phase \in {"next", "finishing"} /\ a # 0 => ~Left(a)
  /\ \A c \in Chapters : r.seen[c] # 0 => Shown(r.seen[c])
HarmlessRuns == \A k \in Consumers : Harmless(run[k])

ShowsNothingElse ==
  \A c \in Chapters : /\ current[c] # 0 => Shown(current[c])
                      /\ roster[c] # 0 => Shown(roster[c])

\* Whoever is to end an active child of a job.
AtWork(k, b, a) == run[k].job = b /\ run[k].analysis = a /\ run[k].phase \in Working
ChildrenEnd ==
  \A b \in Batches : \A a \in Children(b) : Left(a) =>
    \/ \E k \in Consumers : AtWork(k, b, a)
    \/ job[b].status = "running" /\ ~up
    \/ job[b].status = "cancelled" /\ crashes > 0
    \/ job[b].status = "deleted"

IInv == /\ TypeOK /\ Rows /\ Inserted /\ Held /\ Alone /\ Down /\ Stopped /\ HarmlessRuns
        /\ ShowsNothingElse /\ ChildrenEnd

-----------------------------------------------------------------------------
LEMMA LeastOf ==
  ASSUME NEW S \in SUBSET Nat, S # {}
  PROVE  Min(S) \in S
<1>1. PICK x \in S : \A y \in S : ~ (<<y, x>> \in OpToRel(<, Nat))
  BY NatLessThanWellFounded, WFMin, Zenon
<1>2. \A y \in S : ~ (y < x)
  BY <1>1 DEF OpToRel
<1>3. \A y \in S : x <= y
  BY <1>2
<1> QED BY <1>3 DEF Min

LEMMA Ids ==
  /\ Analyses \subseteq Nat /\ Chapters \subseteq Nat /\ Batches \subseteq Nat
  /\ 0 \notin Analyses /\ 0 \notin Chapters /\ 0 \notin Batches /\ 0 \notin Revisions
  /\ Revisions \subseteq Nat /\ Batches \cap Analyses = {} /\ FirstText \in Revisions
BY IdAssumption DEF Revisions

LEMMA IdleFacts ==
  /\ Idle \in Run /\ Idle.phase = "idle" /\ Idle.job = 0 /\ Idle.analysis = 0
  /\ \A c \in Chapters : Idle.seen[c] = 0
BY DEF Idle, Run, Phase

LEMMA RunFacts ==
  ASSUME IInv, NEW k \in Consumers
  PROVE  /\ run[k] \in Run /\ run[k].analysis \in Analyses \cup {0}
         /\ \A c \in Chapters : run[k].seen[c] \in Analyses \cup {0}
         /\ OfSingle(run[k]) /\ OfBatch(run[k]) /\ Harmless(run[k])
         /\ run[k].job = 0 => run[k] = Idle
         /\ run[k].phase = "idle" <=> run[k].job = 0
         /\ run[k].job = 0 \/ run[k].job \in Analyses \/ run[k].job \in Batches
         /\ run[k].analysis \in Analyses =>
              /\ Exists(run[k].analysis) /\ row[run[k].analysis] \in Row
              /\ row[run[k].analysis].chapter \in Chapters
              /\ row[run[k].analysis].batch = IF run[k].job \in Batches THEN run[k].job ELSE 0
<1>1. /\ run[k] \in Run /\ OfSingle(run[k]) /\ OfBatch(run[k]) /\ Harmless(run[k])
      /\ run[k].job = 0 => run[k] = Idle
  BY DEF IInv, TypeOK, Held, HarmlessRuns
<1>2. run[k].job = 0 \/ run[k].job \in Analyses \/ run[k].job \in Batches
  BY <1>1 DEF Run, Jobs
<1>3. run[k].phase = "idle" <=> run[k].job = 0
  <2>1. Idle.phase = "idle"
    BY IdleFacts
  <2>2. run[k].job # 0 => run[k].phase # "idle"
    BY <1>1, <1>2 DEF OfSingle, OfBatch, Working, Showing
  <2> QED BY <1>1, <2>1, <2>2
<1>4. ASSUME run[k].analysis \in Analyses
      PROVE  /\ Exists(run[k].analysis) /\ row[run[k].analysis] \in Row
             /\ row[run[k].analysis].chapter \in Chapters
             /\ row[run[k].analysis].batch = IF run[k].job \in Batches THEN run[k].job ELSE 0
  <2>1. run[k].job # 0
    BY <1>1, <1>4, Ids, IdleFacts
  <2>2. /\ Exists(run[k].analysis)
        /\ row[run[k].analysis].batch = IF run[k].job \in Batches THEN run[k].job ELSE 0
    BY <1>1, <1>2, <1>4, <2>1, Ids DEF OfSingle, OfBatch, IInv, Rows
  <2> QED BY <1>4, <2>2 DEF IInv, TypeOK, Rows
<1>5. /\ run[k].analysis \in Analyses \cup {0}
      /\ \A c \in Chapters : run[k].seen[c] \in Analyses \cup {0}
  BY <1>1 DEF Run
<1> QED BY <1>1, <1>2, <1>3, <1>4, <1>5

\* Who else is at the analysis of a consumer has claimed the same single analysis.
LEMMA SharedFacts ==
  ASSUME IInv, NEW k \in Consumers, NEW l \in Consumers, k # l,
         run[l].analysis = run[k].analysis, run[k].analysis \in Analyses
  PROVE  /\ run[k].job = run[k].analysis /\ run[l].job = run[k].analysis
         /\ row[run[k].analysis].batch = 0
<1>1. run[k].job # 0 /\ run[l].job # 0
  BY RunFacts, Ids, IdleFacts
<1>2. run[k].job = run[l].job => run[k].job \in Analyses
  BY <1>1, RunFacts, Ids DEF IInv, Alone
<1> QED BY <1>1, <1>2, RunFacts, Ids DEF OfSingle

-----------------------------------------------------------------------------
(* A step of a consumer that leaves the jobs alone *)

Stays(r, next) == next.job = r.job /\ next.analysis = r.analysis

\* What becomes of the row of its analysis.
RowGoes(a, new) ==
  /\ new.chapter = row[a].chapter /\ new.hash = row[a].hash /\ new.batch = row[a].batch
  /\ new.status # "absent" /\ row[a].past \subseteq new.past
  /\ a \in withdrawn => new.status = "failed" \/ (new.status = "running" /\ row[a].batch # 0)
  /\ Shown(a) => new.status \in {"ready", "failed"}

\* Where the consumer goes, its row being as new.
PhaseGoes(r, new, phase) ==
  LET a == r.analysis IN
  /\ r.job \in Analyses => phase \notin {"idle", "next", "starting"}
  /\ r.job \in Batches =>
       /\ phase \in Working \cup Showing \cup {"next", "finishing", "caught"}
       /\ phase \in Working \cup Showing => a # 0
       /\ phase \in {"starting", "analysing", "checking"} /\ a \in withdrawn =>
            new.error = "analysis_cancelled"
       /\ a # 0 /\ new.status \in Active /\ "unprepared" \notin new.past => phase \in Working
  /\ phase = "starting" => new.status = "queued" \/ a \in withdrawn
  /\ phase \in {"saving", "publishing"} /\ a \in withdrawn => new.status = "failed"
  /\ phase \in Showing => a \notin withdrawn /\ new.status \in {"ready", "failed"}
RunGoes(r, new, next) ==
  /\ Stays(r, next) /\ PhaseGoes(r, new, next.phase)
  /\ \A c \in Chapters : next.seen[c] # 0 => Shown(next.seen[c])

Step(k, new, next) ==
  /\ row' \in [Analyses -> Row] /\ run' = [run EXCEPT ![k] = next] /\ next \in Run
  /\ \A x \in Analyses : x # run[k].analysis => row'[x] = row[x]
  /\ run[k].analysis # 0 => row'[run[k].analysis] = new /\ RowGoes(run[k].analysis, new)
  /\ UNCHANGED <<job, withdrawn, request, up, crashes>>
  /\ text' \in [Chapters -> Revisions] /\ artifact' \in [Analyses -> Revisions \cup {0}]
  /\ errors' \in Nat /\ acts' \in Nat
  /\ current' \in [Chapters -> Analyses \cup {0}] /\ roster' \in [Chapters -> Analyses \cup {0}]
  /\ \A c \in Chapters : /\ current'[c] # 0 => Shown(current'[c])
                         /\ roster'[c] # 0 => Shown(roster'[c])

LEMMA StepKeeps ==
  ASSUME IInv, NEW k \in Consumers, run[k].job # 0, NEW new, NEW next, Step(k, new, next),
         \/ RunGoes(run[k], new, next)
         \/ next = Idle /\ (run[k].job \in Batches /\ run[k].analysis # 0 /\ new.status \in Active
                           => "unprepared" \in new.past)
  PROVE  IInv'
<1> DEFINE a == run[k].analysis
<1>1. /\ run[k] \in Run /\ OfSingle(run[k]) /\ OfBatch(run[k]) /\ Harmless(run[k])
      /\ run[k].job \in Analyses \/ run[k].job \in Batches
      /\ a \in Analyses \cup {0}
  BY RunFacts DEF Run
<1>2. /\ \A x \in Analyses : x # a => row'[x] = row[x]
      /\ a # 0 => row'[a] = new /\ RowGoes(a, new)
      /\ UNCHANGED <<job, withdrawn, request, up, crashes>>
      /\ run' \in [Consumers -> Run] /\ run'[k] = next
      /\ \A l \in Consumers : l # k => run'[l] = run[l]
  BY DEF Step, IInv, TypeOK
<1>3. TypeOK'
  BY <1>2 DEF Step, IInv, TypeOK
<1>4. /\ \A x \in Analyses : /\ row'[x].chapter = row[x].chapter /\ row'[x].batch = row[x].batch
                             /\ Exists(x)' <=> Exists(x)
                             /\ Shown(x) => Shown(x)'
  <2> SUFFICES ASSUME NEW x \in Analyses
               PROVE  /\ row'[x].chapter = row[x].chapter /\ row'[x].batch = row[x].batch
                      /\ Exists(x)' <=> Exists(x)
                      /\ Shown(x) => Shown(x)'
    OBVIOUS
  <2>1. CASE x # a
    BY <1>2, <2>1 DEF Exists, Shown
  <2>2. CASE x = a
    <3>1. a # 0 /\ row'[a] = new /\ RowGoes(a, new) /\ Exists(a)
      BY <1>2, <2>2, Ids, RunFacts
    <3> QED BY <1>2, <2>2, <3>1 DEF Exists, Shown, RowGoes
  <2> QED BY <2>1, <2>2
<1>5. Rows' /\ Inserted'
  BY <1>2, <1>4 DEF IInv, Rows, Inserted
<1>6. next.job = run[k].job \/ next.job = 0
  BY IdleFacts DEF RunGoes, Stays
<1>7. Alone' /\ Down'
  <2>1. Alone'
    BY <1>2, <1>6 DEF IInv, Alone
  <2>2. Down'
    BY <1>2, <1>6 DEF IInv, Down
  <2> QED BY <2>1, <2>2
<1>8. Stopped'
  <2> SUFFICES ASSUME NEW x \in withdrawn
               PROVE  \/ row'[x].status = "failed"
                      \/ row'[x].status = "running" /\ row'[x].batch # 0
    BY <1>2 DEF Stopped
  <2>1. x \in Analyses /\ x # 0
    BY Ids DEF IInv, TypeOK
  <2>2. CASE x # a
    BY <1>2, <2>1, <2>2 DEF IInv, Stopped
  <2>3. CASE x = a
    BY <1>2, <2>1, <2>3 DEF RowGoes
  <2> QED BY <2>2, <2>3
<1>9. ShowsNothingElse'
  BY <1>3, <1>4 DEF Step, ShowsNothingElse, TypeOK
<1>10. ASSUME NEW l \in Consumers, l # k
       PROVE  /\ run'[l].job = 0 => run'[l] = Idle
              /\ OfSingle(run[l])' /\ OfBatch(run[l])' /\ Harmless(run[l])'
  <2>1. /\ run'[l] = run[l] /\ OfSingle(run[l]) /\ OfBatch(run[l]) /\ Harmless(run[l])
        /\ run[l].job = 0 => run[l] = Idle
        /\ run[l].analysis \in Analyses \cup {0}
        /\ \A c \in Chapters : run[l].seen[c] \in Analyses \cup {0}
        /\ run[l].job = 0 \/ run[l].job \in Analyses \/ run[l].job \in Batches
    BY <1>2, <1>10, RunFacts
  <2>2. OfSingle(run[l])' /\ OfBatch(run[l])'
    BY <1>2, <1>4, <2>1 DEF OfSingle, OfBatch, Exists
  <2>3. \A c \in Chapters : run[l].seen[c] # 0 =>
          run[l].seen[c] \notin withdrawn /\ row'[run[l].seen[c]].status \in {"ready", "failed"}
    BY <1>2, <1>4, <2>1 DEF Harmless, Shown
  <2> DEFINE r == run[l]
             x == r.analysis
             s == row'[x]
  <2>4. /\ r.job \in Batches /\ r.phase \in {"starting", "analysing", "checking"} /\ x \in withdrawn =>
             s.error = "analysis_cancelled"
        /\ r.phase = "starting" => s.status = "queued" \/ x \in withdrawn
        /\ r.phase \in {"saving", "publishing"} /\ x \in withdrawn => s.status = "failed"
        /\ r.phase \in Showing => x \notin withdrawn /\ s.status \in {"ready", "failed"}
        /\ /\ r.job \in Batches /\ r.phase \in {"next", "finishing"} /\ x # 0
           /\ s.status \in Active
           => "unprepared" \in s.past
    <3>1. CASE x \in Analyses /\ x # a
      <4>1. s = row[x]
        BY <1>2, <3>1
      <4> QED BY <2>1, <3>1, <4>1 DEF Harmless, IsActive, Left, Shown
    <3>2. CASE x \in Analyses /\ x = a
      <4>1. r.job = x /\ row[x].batch = 0 /\ r.phase # "starting" /\ x \notin Batches
        BY <1>10, <2>1, <3>2, SharedFacts, Ids DEF OfSingle
      <4>2. x \in withdrawn => s.status = "failed"
        BY <1>2, <3>2, <4>1, Ids DEF RowGoes
      <4>3. r.phase \in Showing => x \notin withdrawn /\ s.status \in {"ready", "failed"}
        BY <1>2, <1>4, <2>1, <3>2 DEF Harmless, Shown
      <4> QED BY <4>1, <4>2, <4>3
    <3>3. CASE x = 0
      BY <2>1, <3>3, Ids, IdleFacts DEF OfSingle, OfBatch, Working, Showing, IInv, TypeOK
    <3> QED BY <2>1, <3>1, <3>2, <3>3
  <2>5. Harmless(run[l])'
    BY <1>2, <2>1, <2>3, <2>4 DEF Harmless, Shown, IsActive, Left
  <2> QED BY <2>1, <2>2, <2>5
<1>11. /\ run'[k].job = 0 => run'[k] = Idle
       /\ OfSingle(run[k])' /\ OfBatch(run[k])' /\ Harmless(run[k])'
  <2>1. CASE next = Idle
    BY <1>2, <2>1, Ids, IdleFacts DEF OfSingle, OfBatch, Harmless, Working, Showing
  <2>2. CASE RunGoes(run[k], new, next)
    <3>1. next.job = run[k].job /\ next.analysis = a
      BY <2>2 DEF RunGoes, Stays
    <3>2. OfSingle(run[k])' /\ OfBatch(run[k])'
      BY ZenonT(40), <1>1, <1>2, <1>4, <2>2, <3>1, Ids DEF OfSingle, OfBatch, RunGoes, PhaseGoes, Exists, Working,
         Showing
    <3>3. \A c \in Chapters : next.seen[c] # 0 =>
            next.seen[c] \notin withdrawn /\ row'[next.seen[c]].status \in {"ready", "failed"}
      <4>1. \A c \in Chapters : next.seen[c] \in Analyses \cup {0}
        BY DEF Step, Run
      <4> QED BY <1>2, <1>4, <2>2, <4>1 DEF RunGoes, Shown
    <3>4. Harmless(run[k])'
      <4>1. CASE a = 0
        BY <1>1, <1>2, <2>2, <3>1, <3>3, <4>1, Ids DEF Harmless, RunGoes, PhaseGoes, OfSingle, OfBatch,
           Shown, Working, Showing
      <4>2. CASE a \in Analyses
        <5>1. row'[a] = new /\ run'[k].analysis = a /\ run'[k].job = run[k].job
          BY <1>2, <3>1, <4>2, Ids
        <5>2. next.phase = "next" \/ next.phase = "finishing" => next.phase \notin Working
          BY DEF Working
        <5> QED BY <1>2, <2>2, <3>3, <4>2, <5>1, <5>2, Ids
            DEF Harmless, RunGoes, PhaseGoes, Shown, IsActive, Left
      <4> QED BY <1>1, <4>1, <4>2
    <3> QED BY <1>1, <1>2, <3>1, <3>2, <3>4, Ids
  <2> QED BY <2>1, <2>2
<1>12. Held' /\ HarmlessRuns'
  BY <1>10, <1>11 DEF Held, HarmlessRuns
<1>13. ChildrenEnd'
  <2> SUFFICES ASSUME NEW b \in Batches, NEW x \in Analyses, Exists(x)', row'[x].batch = b, Left(x)'
               PROVE  \/ \E l \in Consumers : AtWork(l, b, x)'
                      \/ job[b].status = "running" /\ ~up
                      \/ job[b].status = "cancelled" /\ crashes > 0
                      \/ job[b].status = "deleted"
    BY <1>2 DEF ChildrenEnd, Children
  <2>1. CASE x # a
    <3>1. row'[x] = row[x] /\ Left(x) /\ x \in Children(b)
      BY <1>2, <1>4, <2>1 DEF IsActive, Left, Children
    <3>2. \A l \in Consumers : AtWork(l, b, x) => l # k /\ AtWork(l, b, x)'
      BY <1>2, <2>1 DEF AtWork
    <3> QED BY <3>1, <3>2 DEF IInv, ChildrenEnd
  <2>2. CASE x = a
    <3>1. run[k].job = b /\ a # 0
      BY <1>1, <1>4, <2>2, RunFacts, Ids
    <3>2. RunGoes(run[k], new, next) /\ next.phase \in Working
      BY <1>2, <2>2, <3>1 DEF IsActive, Left, RunGoes, PhaseGoes
    <3> QED BY <1>2, <2>2, <3>1, <3>2 DEF AtWork, RunGoes, Stays
  <2> QED BY <2>1, <2>2
<1> QED BY <1>3, <1>5, <1>7, <1>8, <1>9, <1>12, <1>13 DEF IInv

LEMMA RowFacts ==
  ASSUME IInv, NEW k \in Consumers, run[k].analysis # 0
  PROVE  LET a == run[k].analysis IN
         /\ a \in Analyses /\ run[k].job # 0 /\ row[a] \in Row /\ RowGoes(a, row[a])
         /\ \A e \in Error : /\ FailedRow(row[a], e) \in Row /\ RowGoes(a, FailedRow(row[a], e))
                             /\ FailedRow(row[a], e).status = "failed"
                             /\ FailedRow(row[a], e).error = e
<1> DEFINE a == run[k].analysis
<1>1. /\ a \in Analyses /\ run[k].job # 0 /\ row[a] \in Row /\ row[a].status # "absent"
  BY RunFacts, Ids, IdleFacts DEF Exists
<1>2. RowGoes(a, row[a])
  BY <1>1 DEF RowGoes, IInv, Stopped, Shown
<1>3. ASSUME NEW e \in Error
      PROVE  /\ FailedRow(row[a], e) \in Row /\ RowGoes(a, FailedRow(row[a], e))
             /\ FailedRow(row[a], e).status = "failed" /\ FailedRow(row[a], e).error = e
  BY <1>1 DEF FailedRow, Row, RowGoes, Error
<1> QED BY <1>1, <1>2, <1>3

LEMMA BefallenFacts ==
  ASSUME IInv, NEW k \in Consumers, run[k].analysis # 0, NEW what \in Past
  PROVE  LET a == run[k].analysis
             new == Befallen(row[a], what)
         IN /\ new \in Row /\ RowGoes(a, new) /\ what \in new.past
            /\ new.status = row[a].status /\ new.error = row[a].error
<1> DEFINE a == run[k].analysis
           past == row[a].past \cup {what}
           new == [row[a] EXCEPT !.past = past]
<1>1. row[a] \in Row /\ RowGoes(a, row[a])
  BY RowFacts
<1>2. past \in SUBSET Past /\ row[a].past \subseteq past /\ what \in past
  BY <1>1 DEF Row
<1> HIDE DEF past
<1>3. /\ new \in Row /\ new.past = past /\ new.status = row[a].status /\ new.error = row[a].error
      /\ new.chapter = row[a].chapter /\ new.hash = row[a].hash /\ new.batch = row[a].batch
  BY <1>1, <1>2 DEF Row
<1>4. RowGoes(a, new)
  BY <1>1, <1>2, <1>3 DEF RowGoes
<1> QED BY <1>2, <1>3, <1>4 DEF Befallen, past

\* Every step but those that write what the book shows.
LEMMA WorkKeeps ==
  ASSUME IInv, NEW k \in Consumers, run[k].job # 0, NEW new, NEW next \in Run,
         \/ row' = row /\ (run[k].analysis # 0 => new = row[run[k].analysis])
         \/ /\ run[k].analysis # 0 /\ new \in Row /\ RowGoes(run[k].analysis, new)
            /\ row' = [row EXCEPT ![run[k].analysis] = new],
         run' = [run EXCEPT ![k] = next],
         UNCHANGED <<text, job, withdrawn, view, request, up, crashes, acts>>,
         artifact' \in [Analyses -> Revisions \cup {0}], errors' \in Nat,
         \/ RunGoes(run[k], new, next)
         \/ next = Idle /\ (run[k].job \in Batches /\ run[k].analysis # 0 /\ new.status \in Active
                           => "unprepared" \in new.past)
  PROVE  IInv'
<1> DEFINE a == run[k].analysis
<1>1. a # 0 => a \in Analyses /\ RowGoes(a, row[a])
  BY RowFacts
<1>2. /\ row' \in [Analyses -> Row] /\ \A x \in Analyses : x # a => row'[x] = row[x]
      /\ a # 0 => row'[a] = new /\ RowGoes(a, new)
  BY <1>1 DEF IInv, TypeOK
<1>3. Step(k, new, next)
  BY <1>2 DEF Step, IInv, TypeOK, ShowsNothingElse, view
<1> QED BY <1>3, StepKeeps

LEMMA GotoFacts ==
  ASSUME IInv, NEW k \in Consumers, NEW phase \in Phase
  PROVE  LET next == [run[k] EXCEPT !.phase = phase] IN
         /\ next \in Run /\ next.phase = phase /\ Stays(run[k], next)
         /\ \A c \in Chapters : next.seen[c] # 0 => Shown(next.seen[c])
<1>1. run[k] \in Run /\ \A c \in Chapters : run[k].seen[c] # 0 => Shown(run[k].seen[c])
  BY RunFacts DEF Harmless
<1> QED BY <1>1 DEF Run, Stays

\* The aside of every step below.
Apart == UNCHANGED <<text, job, withdrawn, view, request, up, crashes, acts>>
Typed == artifact' \in [Analyses -> Revisions \cup {0}] /\ errors' \in Nat

LEMMA PhaseNames ==
  /\ {"idle", "claimed", "opening", "next", "starting", "analysing", "checking", "saving",
      "publishing", "projecting", "writing", "pointing", "finishing", "rejected",
      "caught", "noting_retry", "noting_failure"} \subseteq Phase
  /\ {"restored", "outrun", "unprepared"} \subseteq Past
  /\ {"", "analysis_cancelled", "source_changed", "retrying", "failed", "stale_job_claim"}
       \subseteq Error
BY DEF Phase, Error, Past

LEMMA GotoKeeps ==
  ASSUME IInv, NEW k \in Consumers, run[k].job # 0, NEW phase \in Phase, Goto(k, phase), NEW new,
         \/ row' = row /\ (run[k].analysis # 0 => new = row[run[k].analysis])
         \/ /\ run[k].analysis # 0 /\ new \in Row /\ RowGoes(run[k].analysis, new)
            /\ row' = [row EXCEPT ![run[k].analysis] = new],
         Apart, Typed, PhaseGoes(run[k], new, phase)
  PROVE  IInv'
<1> DEFINE next == [run[k] EXCEPT !.phase = phase]
<1>1. run' = [run EXCEPT ![k] = next]
  BY DEF Goto
<1>2. /\ next \in Run /\ next.phase = phase /\ Stays(run[k], next)
      /\ \A c \in Chapters : next.seen[c] # 0 => Shown(next.seen[c])
  BY GotoFacts
<1> HIDE DEF next
<1>3. RunGoes(run[k], new, next)
  BY <1>2 DEF RunGoes
<1> QED BY <1>1, <1>2, <1>3, WorkKeeps DEF Apart, Typed

LEMMA RaiseKeeps ==
  ASSUME IInv, NEW k \in Consumers, run[k].analysis # 0,
         NEW e \in {"analysis_cancelled", "source_changed", "retryable", "permanent"},
         Raise(k, e), Apart, Typed
  PROVE  IInv'
<1> DEFINE a == run[k].analysis
<1>1. /\ a \in Analyses /\ run[k].job # 0 /\ run[k] \in Run
      /\ \A f \in Error : /\ FailedRow(row[a], f) \in Row /\ RowGoes(a, FailedRow(row[a], f))
                          /\ FailedRow(row[a], f).status = "failed"
  BY RowFacts, RunFacts
<1>2. CASE IsBatch(k)
  <2> DEFINE f == IF e \in Error THEN e ELSE "failed"
             new == FailedRow(row[a], f)
             phase == IF e = "analysis_cancelled" THEN "finishing" ELSE "next"
  <2>1. f \in Error /\ phase \in {"finishing", "next"} /\ phase \in Phase
    BY PhaseNames
  <2>2. row' = [row EXCEPT ![a] = new] /\ Goto(k, phase)
    BY <1>2 DEF Raise
  <2> HIDE DEF f, phase
  <2>3. new \in Row /\ RowGoes(a, new) /\ new.status = "failed"
    BY <1>1, <2>1
  <2> HIDE DEF new
  <2>4. PhaseGoes(run[k], new, phase)
    BY <1>2, <2>1, <2>3, Ids DEF PhaseGoes, IsBatch, Active, Working, Showing
  <2> QED BY <1>1, <2>1, <2>2, <2>3, <2>4, GotoKeeps
<1>3. CASE ~IsBatch(k)
  <2> DEFINE next == [run[k] EXCEPT !.phase = "caught", !.error = e]
  <2>1. row' = row /\ run' = [run EXCEPT ![k] = next]
    BY <1>3 DEF Raise
  <2>2. \A c \in Chapters : run[k].seen[c] # 0 => Shown(run[k].seen[c])
    BY RunFacts DEF Harmless
  <2>3. /\ next \in Run /\ next.phase = "caught" /\ Stays(run[k], next)
        /\ \A c \in Chapters : next.seen[c] # 0 => Shown(next.seen[c])
    BY <1>1, <2>2, PhaseNames DEF Run, Stays
  <2> HIDE DEF next
  <2>4. RunGoes(run[k], row[a], next)
    BY <1>3, <2>3 DEF RunGoes, PhaseGoes, IsBatch, Working, Showing
  <2> QED BY <1>1, <2>1, <2>3, <2>4, WorkKeeps DEF Apart, Typed
<1> QED BY <1>2, <1>3

\* The source has changed: the row fails, and the consumer goes on.
LEMMA RejectKeeps ==
  ASSUME IInv, NEW k \in Consumers, run[k].analysis # 0,
         row' = [row EXCEPT ![run[k].analysis] = FailedRow(@, "source_changed")],
         Goto(k, IF IsBatch(k) THEN "next" ELSE "rejected"), Apart, Typed
  PROVE  IInv'
<1> DEFINE a == run[k].analysis
           new == FailedRow(row[a], "source_changed")
           phase == IF IsBatch(k) THEN "next" ELSE "rejected"
<1>1. /\ a \in Analyses /\ run[k].job # 0 /\ new \in Row /\ RowGoes(a, new)
      /\ new.status = "failed" /\ row' = [row EXCEPT ![a] = new]
  BY RowFacts, PhaseNames
<1>2. phase \in Phase /\ phase \in {"next", "rejected"} /\ Goto(k, phase)
      /\ (run[k].job \in Batches => phase = "next") /\ (run[k].job \in Analyses => phase = "rejected")
  BY PhaseNames, Ids DEF IsBatch
<1> HIDE DEF phase, new
<1>3. PhaseGoes(run[k], new, phase)
  BY <1>1, <1>2 DEF PhaseGoes, Active, Working, Showing
<1> QED BY <1>1, <1>2, <1>3, GotoKeeps

LEMMA BeginKeeps ==
  ASSUME IInv, NEW k \in Consumers, Begin(k)
  PROVE  IInv'
<1>1. /\ run[k].phase = "claimed" /\ row' = row /\ Apart /\ Typed
      /\ run[k] \in Run /\ run[k].job # 0
      /\ run[k].job \in Batches => run[k].analysis = 0
      /\ \A c \in Chapters : run[k].seen[c] # 0 => Shown(run[k].seen[c])
  BY RunFacts DEF Begin, Apart, Typed, tables, process, OfBatch, IInv, TypeOK, Harmless
<1>2. CASE Rest(k)
  BY <1>1, <1>2, IdleFacts, WorkKeeps DEF Rest, Apart, Typed
<1>3. CASE ~IsBatch(k) /\ Goto(k, "opening")
  <2>1. PhaseGoes(run[k], row[run[k].analysis], "opening")
    BY <1>3 DEF PhaseGoes, IsBatch, Showing
  <2> QED BY <1>1, <1>3, <2>1, PhaseNames, GotoKeeps
<1>4. CASE /\ IsBatch(k)
           /\ run' = [run EXCEPT ![k].phase = "next", ![k].read = text, ![k].todo = Chapters]
  <2> DEFINE next == [run[k] EXCEPT !.phase = "next", !.read = text, !.todo = Chapters]
  <2>1. run' = [run EXCEPT ![k] = next]
    BY <1>4
  <2>2. text \in [Chapters -> Revisions \cup {0}]
    BY DEF IInv, TypeOK
  <2>3. /\ next \in Run /\ next.phase = "next" /\ Stays(run[k], next)
        /\ \A c \in Chapters : next.seen[c] # 0 => Shown(next.seen[c])
    BY <1>1, <2>2, PhaseNames DEF Run, Stays
  <2> HIDE DEF next
  <2>4. RunGoes(run[k], row[run[k].analysis], next)
    BY <1>1, <1>4, <2>3, Ids DEF RunGoes, PhaseGoes, IsBatch, Showing, Working
  <2> QED BY <1>1, <2>1, <2>3, <2>4, WorkKeeps DEF Apart, Typed
<1> QED BY <1>2, <1>3, <1>4 DEF Begin

LEMMA OpenKeeps ==
  ASSUME IInv, NEW k \in Consumers, Open(k)
  PROVE  IInv'
<1> DEFINE a == run[k].analysis
<1>1. /\ run[k].phase = "opening" /\ Apart /\ Typed /\ run[k] \in Run /\ run[k].job \in Analyses
      /\ a \in Analyses /\ a # 0 /\ row[a].batch = 0 /\ run[k].job # 0 /\ text \in [Chapters -> Revisions]
      /\ \A c \in Chapters : run[k].seen[c] # 0 => Shown(run[k].seen[c])
      /\ row[a].chapter \in Chapters /\ row \in [Analyses -> Row]
  <2>1. /\ run[k].phase = "opening" /\ Apart /\ Typed /\ text \in [Chapters -> Revisions]
        /\ row \in [Analyses -> Row]
    BY DEF Open, Apart, Typed, IInv, TypeOK, process
  <2>2. run[k].job \in Analyses
    BY <2>1, RunFacts, IdleFacts DEF OfBatch, Working, Showing
  <2> QED BY <2>1, <2>2, RunFacts, Ids DEF OfSingle, Harmless, Working, Showing
<1>2. CASE Raise(k, "analysis_cancelled")
  BY <1>1, <1>2, RaiseKeeps
<1>3. CASE /\ row' = [row EXCEPT ![a].status = IF @ = "queued" THEN "running" ELSE @]
           /\ run' = [run EXCEPT ![k].phase = "analysing", ![k].read[Chapter(k)] = text[Chapter(k)]]
  <2> DEFINE status == IF row[a].status = "queued" THEN "running" ELSE row[a].status
             new == [row[a] EXCEPT !.status = status]
             read == [run[k].read EXCEPT ![Chapter(k)] = text[Chapter(k)]]
             next == [run[k] EXCEPT !.phase = "analysing", !.read = read]
  <2>1. row' = [row EXCEPT ![a] = new] /\ run' = [run EXCEPT ![k] = next]
    BY <1>3
  <2>2. read \in [Chapters -> Revisions \cup {0}]
    <3>1. run[k].read \in [Chapters -> Revisions \cup {0}]
      BY <1>1 DEF Run
    <3> QED BY <1>1, <3>1 DEF Chapter, Analysis
  <2> HIDE DEF read
  <2>3. /\ next \in Run /\ next.phase = "analysing" /\ Stays(run[k], next)
        /\ \A c \in Chapters : next.seen[c] # 0 => Shown(next.seen[c])
    BY <1>1, <2>2, PhaseNames DEF Run, Stays
  <2>4. new \in Row /\ new.status = status
    BY <1>1 DEF Row, Active
  <2>5. RowGoes(a, new)
    <3>1. RowGoes(a, row[a])
      BY <1>1, RowFacts
    <3>2. new.chapter = row[a].chapter /\ new.hash = row[a].hash /\ new.batch = row[a].batch
      BY <1>1 DEF Row
    <3> QED BY <1>1, <2>4, <3>1, <3>2 DEF RowGoes, Shown
  <2> HIDE DEF next, new
  <2>6. RunGoes(run[k], new, next)
    BY <1>1, <2>3, Ids DEF RunGoes, PhaseGoes, Showing
  <2> QED BY <1>1, <2>1, <2>3, <2>4, <2>5, <2>6, WorkKeeps DEF Apart, Typed
<1> QED BY <1>2, <1>3 DEF Open

LEMMA StartChildKeeps ==
  ASSUME IInv, NEW k \in Consumers, StartChild(k)
  PROVE  IInv'
<1> DEFINE a == run[k].analysis
           new == [row[a] EXCEPT !.status = "running"]
<1>1. /\ run[k].phase = "starting" /\ Apart /\ Typed /\ row' = [row EXCEPT ![a] = new]
      /\ Goto(k, "analysing")
  BY DEF StartChild, Apart, Typed, IInv, TypeOK, process
<1>2. /\ run[k].job \in Batches /\ run[k].job # 0 /\ a # 0 /\ a \in Analyses
      /\ row[a].batch = run[k].job /\ row[a] \in Row
  BY <1>1, RunFacts, IdleFacts, Ids DEF OfSingle, OfBatch, Working
<1>3. /\ row[a].status = "queued" \/ a \in withdrawn
      /\ a \in withdrawn => row[a].error = "analysis_cancelled"
  BY <1>1, <1>2, RunFacts DEF Harmless
<1>4. /\ new \in Row /\ new.status = "running" /\ new.error = row[a].error
      /\ RowGoes(a, new)
  BY <1>2, <1>3, Ids DEF Row, Active, RowGoes, Shown
<1> HIDE DEF new
<1>5. PhaseGoes(run[k], new, "analysing")
  BY <1>2, <1>3, <1>4, Ids DEF PhaseGoes, Showing, Working
<1> QED BY <1>1, <1>2, <1>4, <1>5, PhaseNames, GotoKeeps

\* The set-up of an analysis, or of a chapter of a book, fails.
LEMMA SetUpFailsKeeps ==
  ASSUME IInv, NEW k \in Consumers, SetUpFails(k)
  PROVE  IInv'
<1> DEFINE a == run[k].analysis
<1>1. /\ run[k].phase \in {"opening", "next", "starting"} /\ Apart /\ Typed /\ run[k] \in Run
      /\ run[k].job # 0 /\ Harmless(run[k])
      /\ run[k].job \in Analyses \/ run[k].job \in Batches
      /\ \A c \in Chapters : run[k].seen[c] # 0 => Shown(run[k].seen[c])
  BY RunFacts DEF SetUpFails, Faults, Apart, Typed, IInv, TypeOK, Harmless
<1>2. PICK e \in {"retryable", "permanent"} :
        run' = [run EXCEPT ![k].phase = "caught", ![k].error = e]
  BY DEF SetUpFails
<1> DEFINE next == [run[k] EXCEPT !.phase = "caught", !.error = e]
<1>3. run' = [run EXCEPT ![k] = next]
  BY <1>2
<1>4. /\ next \in Run /\ next.phase = "caught" /\ Stays(run[k], next)
      /\ \A c \in Chapters : next.seen[c] # 0 => Shown(next.seen[c])
  BY <1>1, PhaseNames DEF Run, Stays
<1> HIDE DEF next
<1>5. CASE run[k].phase = "starting"
  <2>1. /\ run[k].job \in Batches /\ a # 0 /\ a \in Analyses /\ row[a] \in Row
        /\ row[a].batch = run[k].job
    BY <1>1, <1>5, RunFacts, IdleFacts, Ids DEF OfSingle, OfBatch, Working
  <2>2. PICK status \in {row[a].status, "running"} :
          row' = [row EXCEPT ![a] = Befallen([@ EXCEPT !.status = status], "unprepared")]
    BY <1>5 DEF SetUpFails
  <2> DEFINE past == row[a].past \cup {"unprepared"}
             one == [row[a] EXCEPT !.status = status]
             new == [one EXCEPT !.past = past]
  <2>3. past \in SUBSET Past /\ row[a].past \subseteq past /\ "unprepared" \in past
    BY <2>1, PhaseNames DEF Row
  <2>4. row' = [row EXCEPT ![a] = new]
    <3>1. one.past = row[a].past
      BY <2>1 DEF Row
    <3> QED BY <2>2, <3>1 DEF Befallen
  <2> HIDE DEF past
  <2>5. /\ one \in Row /\ one.status = status
        /\ one.chapter = row[a].chapter /\ one.hash = row[a].hash /\ one.batch = row[a].batch
    BY <2>1, <2>2 DEF Row, Active
  <2> HIDE DEF one
  <2>6. /\ new \in Row /\ new.status = status /\ new.past = past
        /\ new.chapter = row[a].chapter /\ new.hash = row[a].hash /\ new.batch = row[a].batch
    BY <2>3, <2>5 DEF Row
  <2> HIDE DEF new
  <2>7. row[a].status = "queued" \/ a \in withdrawn
    BY <1>1, <1>5 DEF Harmless
  <2>8. RowGoes(a, new)
    <3>1. RowGoes(a, row[a])
      BY <2>1, RowFacts
    <3> QED BY <2>1, <2>2, <2>3, <2>6, <2>7, <3>1, Ids DEF RowGoes, Shown
  <2>9. RunGoes(run[k], new, next)
    BY <1>4, <2>1, <2>3, <2>6, Ids DEF RunGoes, PhaseGoes, Showing, Working
  <2> QED BY <1>1, <1>3, <1>4, <2>1, <2>4, <2>6, <2>8, <2>9, WorkKeeps DEF Apart, Typed
<1>6. CASE run[k].phase # "starting"
  <2>1. row' = row
    BY <1>6 DEF SetUpFails
  <2>2. run[k].job \in Batches /\ a # 0 => ~Left(a)
    BY <1>1, <1>6, RunFacts DEF OfBatch, Harmless, Working, Showing
  <2>3. RunGoes(run[k], row[a], next)
    BY <1>4, <2>2, Ids DEF RunGoes, PhaseGoes, Showing, Working, Left, IsActive
  <2> QED BY <1>1, <1>3, <1>4, <2>1, <2>3, WorkKeeps DEF Apart, Typed
<1> QED BY <1>5, <1>6

\* A consumer at work has an analysis; only a single one is noted.
LEMMA AtAnalysis ==
  ASSUME IInv, NEW k \in Consumers,
         run[k].phase \in Working \cup Showing \cup {"noting_retry", "noting_failure"}
  PROVE  /\ run[k].analysis # 0 /\ run[k].analysis \in Analyses /\ run[k].job # 0
         /\ row[run[k].analysis] \in Row
         /\ Harmless(run[k])
         /\ IsBatch(k) <=> run[k].job \in Batches
         /\ ~IsBatch(k) <=> run[k].job \in Analyses
         /\ run[k].job \in Analyses => row[run[k].analysis].batch = 0
<1>1. run[k].job # 0
  BY RunFacts DEF Working, Showing
<1>2. run[k].job \in Analyses =>
        run[k].analysis \in Analyses /\ run[k].analysis # 0 /\ row[run[k].analysis].batch = 0
  BY RunFacts, Ids DEF OfSingle
<1>3. run[k].job \in Batches => run[k].analysis # 0
  BY RunFacts DEF OfBatch, Working, Showing
<1>4. run[k].analysis # 0
  BY <1>1, <1>2, <1>3, RunFacts
<1> QED BY <1>1, <1>2, <1>4, RunFacts, RowFacts, Ids DEF IsBatch

LEMMA AnalyseKeeps ==
  ASSUME IInv, NEW k \in Consumers, Analyse(k)
  PROVE  IInv'
<1> DEFINE a == run[k].analysis
<1>1. /\ run[k].phase = "analysing" /\ Apart /\ Typed
  BY DEF Analyse, Apart, Typed, IInv, TypeOK
<1>2. /\ a # 0 /\ a \in Analyses /\ run[k].job # 0 /\ Harmless(run[k])
  BY <1>1, AtAnalysis DEF Working
<1>3. CASE Goto(k, "checking") /\ UNCHANGED row
  <2>1. PhaseGoes(run[k], row[a], "checking")
    BY <1>1, <1>2 DEF PhaseGoes, Harmless, Working, Showing
  <2> QED BY <1>1, <1>2, <1>3, <2>1, PhaseNames, GotoKeeps
<1>4. CASE \E e \in {"retryable", "permanent"} : Raise(k, e)
  BY <1>1, <1>2, <1>4, RaiseKeeps
<1>5. CASE /\ row' = [row EXCEPT ![a] = FailedRow(@, "source_changed")]
           /\ Goto(k, IF IsBatch(k) THEN "next" ELSE "rejected")
  BY <1>1, <1>2, <1>5, RejectKeeps
<1> QED BY <1>3, <1>4, <1>5 DEF Analyse

LEMMA CheckKeeps ==
  ASSUME IInv, NEW k \in Consumers, Check(k)
  PROVE  IInv'
<1> DEFINE a == run[k].analysis
<1>1. /\ run[k].phase = "checking" /\ Apart /\ Typed
  BY DEF Check, Apart, Typed, process, IInv, TypeOK
<1>2. /\ a # 0 /\ a \in Analyses /\ run[k].job # 0 /\ Harmless(run[k])
      /\ IsBatch(k) <=> run[k].job \in Batches
      /\ ~IsBatch(k) <=> run[k].job \in Analyses
      /\ run[k].job \in Analyses => row[a].batch = 0
  BY <1>1, AtAnalysis DEF Working
<1>3. CASE Raise(k, "analysis_cancelled") \/ Raise(k, "source_changed")
  BY <1>1, <1>2, <1>3, RaiseKeeps
<1>4. CASE ~SeesCancel(k) /\ Goto(k, "saving") /\ UNCHANGED row
  <2>1. a \in withdrawn => row[a].status = "failed"
    <3>1. row[a].error # "analysis_cancelled"
      BY <1>4 DEF SeesCancel, Analysis
    <3>2. run[k].job \in Batches => a \notin withdrawn
      BY <1>1, <1>2, <3>1 DEF Harmless
    <3> QED BY <1>2, <3>2 DEF IInv, Stopped
  <2>2. PhaseGoes(run[k], row[a], "saving")
    BY <1>2, <2>1 DEF PhaseGoes, Working, Showing
  <2> QED BY <1>1, <1>2, <1>4, <2>2, PhaseNames, GotoKeeps
<1>5. CASE /\ ~IsBatch(k) /\ row' = [row EXCEPT ![a] = Befallen(@, "outrun")]
           /\ Goto(k, IF Analysis(k).status = "failed" THEN "rejected" ELSE "finishing")
  <2> DEFINE phase == IF Analysis(k).status = "failed" THEN "rejected" ELSE "finishing"
             new == Befallen(row[a], "outrun")
  <2>1. /\ phase \in {"rejected", "finishing"} /\ phase \in Phase /\ Goto(k, phase)
        /\ row' = [row EXCEPT ![a] = new]
    BY <1>5, PhaseNames
  <2>2. new \in Row /\ RowGoes(a, new)
    <3>1. "outrun" \in Past
      BY DEF Past
    <3> QED BY <1>2, <3>1, BefallenFacts
  <2> HIDE DEF phase, new
  <2>3. PhaseGoes(run[k], new, phase)
    BY <1>2, <1>5, <2>1 DEF PhaseGoes, Working, Showing, IsBatch
  <2> QED BY <1>1, <1>2, <1>5, <2>1, <2>2, <2>3, GotoKeeps
<1> QED BY <1>3, <1>4, <1>5 DEF Check

LEMMA SaveKeeps ==
  ASSUME IInv, NEW k \in Consumers, Save(k)
  PROVE  IInv'
<1> DEFINE a == run[k].analysis
<1>1. /\ run[k].phase = "saving" /\ Apart /\ errors' \in Nat /\ run[k] \in Run
  BY RunFacts DEF Save, Apart, process, IInv, TypeOK
<1>2. /\ a # 0 /\ a \in Analyses /\ run[k].job # 0 /\ Harmless(run[k])
  BY <1>1, AtAnalysis DEF Working
<1>3. CASE /\ artifact' = [artifact EXCEPT ![a] = run[k].read[Chapter(k)]]
           /\ Goto(k, "publishing") /\ UNCHANGED row
  <2>1. run[k].read[Chapter(k)] \in Revisions \cup {0}
    BY <1>1, <1>2, RunFacts DEF Run, Chapter, Analysis
  <2>2. Typed
    BY <1>1, <1>3, <2>1 DEF Typed, IInv, TypeOK
  <2>3. PhaseGoes(run[k], row[a], "publishing")
    BY <1>1, <1>2 DEF PhaseGoes, Harmless, Working, Showing
  <2> QED BY <1>1, <1>2, <1>3, <2>2, <2>3, PhaseNames, GotoKeeps
<1>4. CASE /\ row' = [row EXCEPT ![a] = FailedRow(@, "source_changed")]
           /\ Goto(k, IF IsBatch(k) THEN "next" ELSE "rejected") /\ UNCHANGED artifact
  <2>1. Typed
    BY <1>1, <1>4 DEF Typed, IInv, TypeOK
  <2> QED BY <1>1, <1>2, <1>4, <2>1, RejectKeeps
<1> QED BY <1>3, <1>4 DEF Save

LEMMA PublishKeeps ==
  ASSUME IInv, NEW k \in Consumers, Publish(k)
  PROVE  IInv'
<1> DEFINE a == run[k].analysis
<1>1. /\ run[k].phase = "publishing" /\ Apart /\ errors' \in Nat
  BY DEF Publish, Apart, process, IInv, TypeOK
<1>2. /\ a # 0 /\ a \in Analyses /\ run[k].job # 0 /\ Harmless(run[k]) /\ row[a] \in Row
  BY <1>1, AtAnalysis DEF Working
<1>3. CASE IsActive(a)
  <2> DEFINE new == [row[a] EXCEPT !.status = "ready", !.error = ""]
  <2>1. /\ row' = [row EXCEPT ![a] = new] /\ Goto(k, "projecting") /\ UNCHANGED artifact
    BY <1>3 DEF Publish, Publishes
  <2>2. Typed
    BY <1>1, <2>1 DEF Typed, IInv, TypeOK
  <2>3. a \notin withdrawn
    BY <1>1, <1>2, <1>3 DEF Harmless, IsActive, Left, Active
  <2>4. /\ new \in Row /\ new.status = "ready" /\ RowGoes(a, new)
    BY <1>2, <2>3, PhaseNames DEF Row, RowGoes
  <2> HIDE DEF new
  <2>5. PhaseGoes(run[k], new, "projecting")
    BY <1>2, <2>3, <2>4 DEF PhaseGoes, Working, Showing, Active
  <2> QED BY <1>1, <1>2, <2>1, <2>2, <2>4, <2>5, PhaseNames, GotoKeeps
<1>4. CASE ~IsActive(a)
  <2> DEFINE e == IF row[a].error = "analysis_cancelled" THEN "analysis_cancelled" ELSE "permanent"
  <2>1. artifact' = [artifact EXCEPT ![a] = 0] /\ Raise(k, e)
    BY <1>4 DEF Publish, Publishes
  <2>2. Typed
    BY <1>1, <2>1 DEF Typed, IInv, TypeOK
  <2>3. e \in {"analysis_cancelled", "source_changed", "retryable", "permanent"}
    OBVIOUS
  <2> HIDE DEF e
  <2> QED BY <1>1, <1>2, <2>1, <2>2, <2>3, RaiseKeeps
<1> QED BY <1>3, <1>4

LEMMA ProjectKeeps ==
  ASSUME IInv, NEW k \in Consumers, Project(k)
  PROVE  IInv'
<1> DEFINE a == run[k].analysis
           phase == IF Projects(k) THEN "writing" ELSE AfterProjection(k)
           seen == IF Projects(k) THEN roster ELSE run[k].seen
           next == [run[k] EXCEPT !.phase = phase, !.seen = seen]
<1>1. /\ run[k].phase = "projecting" /\ Apart /\ Typed /\ row' = row
      /\ run' = [run EXCEPT ![k] = next]
  BY DEF Project, Apart, Typed, tables, process, IInv, TypeOK
<1>2. /\ a # 0 /\ a \in Analyses /\ run[k].job # 0 /\ Harmless(run[k]) /\ run[k] \in Run
      /\ IsBatch(k) <=> run[k].job \in Batches
  BY <1>1, AtAnalysis, RunFacts DEF Showing
<1>3. phase \in {"writing", "next", "finishing"} /\ (phase = "next" => run[k].job \in Batches)
  BY <1>2 DEF AfterProjection
<1>4. seen \in [Chapters -> Analyses \cup {0}] /\ \A c \in Chapters : seen[c] # 0 => Shown(seen[c])
  BY <1>2 DEF IInv, TypeOK, ShowsNothingElse, Harmless, Run
<1> HIDE DEF phase, seen
<1>5. /\ next \in Run /\ next.phase = phase /\ Stays(run[k], next)
      /\ \A c \in Chapters : next.seen[c] # 0 => Shown(next.seen[c])
  BY <1>2, <1>3, <1>4, PhaseNames DEF Run, Stays
<1> HIDE DEF next
<1>6. Shown(a)
  BY <1>1, <1>2 DEF Harmless, Showing
<1>7. RunGoes(run[k], row[a], next)
  BY <1>2, <1>3, <1>5, <1>6, Ids DEF RunGoes, PhaseGoes, Working, Showing, Shown, Active
<1> QED BY <1>1, <1>2, <1>5, <1>7, WorkKeeps DEF Apart, Typed

LEMMA WriteRosterKeeps ==
  ASSUME IInv, NEW k \in Consumers, WriteRoster(k)
  PROVE  IInv'
<1> DEFINE a == run[k].analysis
           next == [run[k] EXCEPT !.phase = "pointing", !.seen = Idle.seen]
<1>1. /\ run[k].phase = "writing" /\ roster' = [run[k].seen EXCEPT ![Chapter(k)] = a]
      /\ row' = row /\ run' = [run EXCEPT ![k] = next]
      /\ UNCHANGED <<text, artifact, job, withdrawn, current, request, up, crashes, errors, acts>>
  BY DEF WriteRoster, tables, process
<1>2. /\ a # 0 /\ a \in Analyses /\ run[k].job # 0 /\ Harmless(run[k]) /\ run[k] \in Run
      /\ run[k].seen \in [Chapters -> Analyses \cup {0}]
  BY <1>1, AtAnalysis, RunFacts DEF Showing, Run
<1>3. Shown(a)
  BY <1>1, <1>2 DEF Harmless, Showing
<1>4. /\ roster' \in [Chapters -> Analyses \cup {0}]
      /\ \A c \in Chapters : roster'[c] # 0 => Shown(roster'[c])
  BY <1>1, <1>2, <1>3 DEF Harmless
<1>5. Idle.seen \in [Chapters -> Analyses \cup {0}]
  BY IdleFacts DEF Run
<1>6. /\ next \in Run /\ next.phase = "pointing" /\ Stays(run[k], next)
      /\ \A c \in Chapters : next.seen[c] # 0 => Shown(next.seen[c])
  BY <1>2, <1>5, PhaseNames, IdleFacts DEF Run, Stays
<1> HIDE DEF next
<1>7. RunGoes(run[k], row[a], next)
  BY <1>2, <1>3, <1>6 DEF RunGoes, PhaseGoes, Working, Showing, Shown, Active
<1>8. Step(k, row[a], next)
  BY <1>1, <1>2, <1>4, <1>6, RowFacts DEF Step, IInv, TypeOK, ShowsNothingElse
<1> QED BY <1>2, <1>7, <1>8, StepKeeps

LEMMA PointKeeps ==
  ASSUME IInv, NEW k \in Consumers, Point(k)
  PROVE  IInv'
<1> DEFINE a == run[k].analysis
           new == [row[a] EXCEPT !.error = ""]
           phase == AfterProjection(k)
           next == [run[k] EXCEPT !.phase = phase]
<1>1. /\ run[k].phase = "pointing" /\ current' = [current EXCEPT ![Chapter(k)] = a]
      /\ row' = [row EXCEPT ![a] = new] /\ run' = [run EXCEPT ![k] = next]
      /\ UNCHANGED <<text, artifact, job, withdrawn, roster, request, up, crashes, errors, acts>>
  BY DEF Point, Goto, process
<1>2. /\ a # 0 /\ a \in Analyses /\ run[k].job # 0 /\ Harmless(run[k]) /\ row[a] \in Row
      /\ IsBatch(k) <=> run[k].job \in Batches
  BY <1>1, AtAnalysis DEF Showing
<1>3. phase \in {"next", "finishing"} /\ (phase = "next" => run[k].job \in Batches)
  BY <1>2 DEF AfterProjection
<1> HIDE DEF phase
<1>4. Shown(a)
  BY <1>1, <1>2 DEF Harmless, Showing
<1>5. /\ new \in Row /\ new.status = row[a].status /\ new.chapter = row[a].chapter
      /\ new.hash = row[a].hash /\ new.batch = row[a].batch /\ new.past = row[a].past
  BY <1>2, PhaseNames DEF Row
<1> HIDE DEF new
<1>6. RowGoes(a, new)
  <2>1. RowGoes(a, row[a])
    BY <1>2, RowFacts
  <2> QED BY <1>5, <2>1 DEF RowGoes
<1>7. /\ next \in Run /\ next.phase = phase /\ Stays(run[k], next)
      /\ \A c \in Chapters : next.seen[c] # 0 => Shown(next.seen[c])
  BY ZenonT(40), <1>3, PhaseNames, GotoFacts
<1> HIDE DEF next
<1>8. RunGoes(run[k], new, next)
  BY <1>2, <1>3, <1>4, <1>5, <1>7, Ids DEF RunGoes, PhaseGoes, Working, Showing, Shown, Active
<1>9. /\ current' \in [Chapters -> Analyses \cup {0}]
      /\ \A c \in Chapters : current'[c] # 0 => Shown(current'[c])
  BY <1>1, <1>2, <1>4 DEF IInv, TypeOK, ShowsNothingElse
<1>10. Step(k, new, next)
  BY <1>1, <1>2, <1>5, <1>6, <1>7, <1>9 DEF Step, IInv, TypeOK, ShowsNothingElse
<1> QED BY <1>2, <1>8, <1>10, StepKeeps

LEMMA NoteKeeps ==
  ASSUME IInv, NEW k \in Consumers, Note(k)
  PROVE  IInv'
<1> DEFINE a == run[k].analysis
<1>1. /\ run[k].phase \in {"noting_retry", "noting_failure"} /\ Apart /\ Typed
      /\ run' = [run EXCEPT ![k] = Idle]
  BY DEF Note, Rest, Apart, Typed, process, IInv, TypeOK
<1>2. /\ a # 0 /\ a \in Analyses /\ run[k].job # 0 /\ row[a] \in Row
  BY <1>1, AtAnalysis
<1>3. run[k].job \notin Batches
  BY <1>1, RunFacts DEF OfBatch, Working, Showing
<1>4. CASE row' = [row EXCEPT ![a].error = "retrying"]
  <2> DEFINE new == [row[a] EXCEPT !.error = "retrying"]
  <2>1. row' = [row EXCEPT ![a] = new]
    BY <1>4
  <2>2. /\ new \in Row /\ new.status = row[a].status /\ new.chapter = row[a].chapter
        /\ new.hash = row[a].hash /\ new.batch = row[a].batch /\ new.past = row[a].past
    BY <1>2, PhaseNames DEF Row
  <2> HIDE DEF new
  <2>3. RowGoes(a, new)
    <3>1. RowGoes(a, row[a])
      BY <1>2, RowFacts
    <3> QED BY <2>2, <3>1 DEF RowGoes
  <2> QED BY <1>1, <1>2, <1>3, <2>1, <2>2, <2>3, IdleFacts, WorkKeeps DEF Apart, Typed
<1>5. CASE row' = [row EXCEPT ![a] = FailedRow(@, "failed")]
  <2> DEFINE new == FailedRow(row[a], "failed")
  <2>1. row' = [row EXCEPT ![a] = new] /\ new \in Row /\ RowGoes(a, new)
    BY <1>2, <1>5, RowFacts, PhaseNames
  <2> HIDE DEF new
  <2> QED BY <1>1, <1>2, <1>3, <2>1, IdleFacts, WorkKeeps DEF Apart, Typed
<1> QED BY <1>4, <1>5 DEF Note

-----------------------------------------------------------------------------
(* A step that leaves the rows alone and changes jobs *)

\* A consumer that takes a job, leaves it, or has one more thing to write.
Moved(l) ==
  /\ up /\ run[l].phase \notin Working
  /\ run'[l].job = 0 => run'[l] = Idle
  /\ run'[l].job \in Analyses =>
       /\ run'[l].analysis = run'[l].job
       /\ run'[l].phase \in {"claimed", "noting_retry", "noting_failure"}
       /\ row[run'[l].job].batch = 0 /\ job'[run'[l].job].status # "absent"
       /\ job'[run'[l].job].attempts >= 1
  /\ run'[l].job \in Batches => run'[l].phase = "claimed" /\ run'[l].analysis = 0
  /\ \A c \in Chapters : run'[l].seen[c] # 0 => Shown(run'[l].seen[c])
  /\ \A m \in Consumers \ {l} :
       /\ run'[m] = run[m]
       /\ run[m].job = run'[l].job /\ run'[l].job # 0 =>
            /\ run'[l].job \in Analyses
            /\ job'[run'[l].job].attempts > 1

JobStep ==
  /\ UNCHANGED <<row, withdrawn, current, roster, request, up, crashes>>
  /\ text' \in [Chapters -> Revisions] /\ artifact' = artifact /\ errors' \in Nat /\ acts' \in Nat
  /\ job' \in [Jobs -> Job] /\ run' \in [Consumers -> Run]
  /\ \A j \in Jobs : /\ job[j].status = "absent" => job'[j] = job[j]
                     /\ job[j].status # "absent" => job'[j].status # "absent"
                     /\ job'[j].attempts >= job[j].attempts
  /\ \A b \in Batches :
       \/ job'[b].status \in {job[b].status, "deleted"}
       \/ \A a \in Children(b) : ~Left(a)
  /\ \A l \in Consumers :
       /\ run'[l].job \in Batches => job'[run'[l].job].status \in {"running", "cancelled", "deleted"}
       /\ run'[l] = run[l] \/ Moved(l)

LEMMA JobStepKeeps ==
  ASSUME IInv, JobStep
  PROVE  IInv'
<1>1. TypeOK'
  BY DEF IInv, TypeOK, JobStep
<1>2. /\ UNCHANGED <<row, withdrawn, current, roster, request, up, crashes>>
      /\ \A j \in Jobs : /\ job[j].status = "absent" => job'[j] = job[j]
                         /\ job[j].status # "absent" => job'[j].status # "absent"
                         /\ job[j].attempts \in Nat /\ job'[j].attempts \in Nat
                         /\ job'[j].attempts >= job[j].attempts
      /\ \A l \in Consumers :
           /\ run'[l].job \in Batches =>
                job'[run'[l].job].status \in {"running", "cancelled", "deleted"}
           /\ run'[l] = run[l] \/ Moved(l)
  BY <1>1 DEF JobStep, IInv, TypeOK, Job
<1>3. Rows' /\ Inserted'
  <2>1. Rows'
    BY <1>2 DEF IInv, Rows, Exists, Jobs
  <2>2. Inserted'
    BY <1>2 DEF IInv, Inserted, Exists, Jobs
  <2> QED BY <2>1, <2>2
<1>4. Held'
  <2> SUFFICES ASSUME NEW l \in Consumers
               PROVE  /\ run'[l].job = 0 => run'[l] = Idle
                      /\ OfSingle(run[l])' /\ OfBatch(run[l])'
    BY DEF Held
  <2>1. CASE run'[l] = run[l]
    <3>1. /\ run[l].job = 0 => run[l] = Idle
          /\ OfSingle(run[l]) /\ OfBatch(run[l])
      BY RunFacts
    <3> QED BY <1>2, <2>1, <3>1 DEF OfSingle, OfBatch, Jobs, Exists
  <2>2. CASE Moved(l)
    BY <1>2, <2>2, Ids DEF Moved, OfSingle, OfBatch, Working, Showing
  <2> QED BY <1>2, <2>1, <2>2
<1>5. Alone'
  <2> SUFFICES ASSUME NEW l \in Consumers, NEW m \in Consumers, l # m,
                      run'[l].job = run'[m].job, run'[l].job # 0
               PROVE  run'[l].job \in Analyses /\ job'[run'[l].job].attempts > 1
    BY <1>1 DEF Alone, TypeOK, Job, Jobs
  <2>1. CASE Moved(l)
    BY <2>1 DEF Moved
  <2>2. CASE Moved(m)
    BY <2>2 DEF Moved
  <2>3. CASE run'[l] = run[l] /\ run'[m] = run[m]
    <3>1. run[l].job \in Analyses /\ ~(job[run[l].job].attempts <= 1)
      BY <2>3, RunFacts DEF IInv, Alone
    <3> QED BY <1>2, <2>3, <3>1 DEF Jobs
  <2> QED BY <1>2, <2>1, <2>2, <2>3
<1>6. Down'
  BY <1>2 DEF IInv, Down, Moved
<1>7. HarmlessRuns'
  <2> SUFFICES ASSUME NEW l \in Consumers PROVE Harmless(run[l])'
    BY DEF HarmlessRuns
  <2>1. CASE run'[l] = run[l]
    BY <1>2, <2>1, RunFacts DEF Harmless, Shown, IsActive, Left
  <2>2. CASE Moved(l)
    <3>1. run'[l].phase \in {"idle", "claimed", "noting_retry", "noting_failure"}
      BY <1>1, <2>2, IdleFacts DEF Moved, TypeOK, Run, Jobs
    <3>2. \A c \in Chapters : run'[l].seen[c] # 0 => Shown(run'[l].seen[c])
      BY <2>2 DEF Moved
    <3> QED BY <1>2, <3>1, <3>2 DEF Harmless, Shown, Showing
  <2> QED BY <1>2, <2>1, <2>2
<1>8. Stopped' /\ ShowsNothingElse'
  BY <1>2 DEF IInv, Stopped, ShowsNothingElse, Shown
<1>9. ChildrenEnd'
  <2> SUFFICES ASSUME NEW b \in Batches, NEW a \in Children(b), Left(a)
               PROVE  \/ \E l \in Consumers : AtWork(l, b, a)'
                      \/ job'[b].status = "running" /\ ~up
                      \/ job'[b].status = "cancelled" /\ crashes > 0
                      \/ job'[b].status = "deleted"
    BY <1>2 DEF ChildrenEnd, Children, IsActive, Left, Exists
  <2>1. job'[b].status \in {job[b].status, "deleted"}
    BY DEF JobStep
  <2>2. \A l \in Consumers : AtWork(l, b, a) => AtWork(l, b, a)'
    BY <1>2 DEF AtWork, Moved
  <2> QED BY <2>1, <2>2 DEF IInv, ChildrenEnd
<1> QED BY <1>1, <1>3, <1>4, <1>5, <1>6, <1>7, <1>8, <1>9 DEF IInv

\* A job that nobody holds and that did not end with the process has no active
\* child.
LEMMA NoneLeft ==
  ASSUME IInv, NEW b \in Batches, job[b].status \notin {"running", "cancelled", "deleted"}
  PROVE  (\A k \in Consumers : run[k].job # b) /\ \A a \in Children(b) : ~Left(a)
<1>1. \A k \in Consumers : run[k].job # b
  BY RunFacts DEF OfBatch
<1> QED BY <1>1 DEF IInv, ChildrenEnd, AtWork

LEMMA NoneLeftAtEnd ==
  ASSUME IInv, NEW k \in Consumers, run[k].job \in Batches, run[k].phase \notin Working,
         job[run[k].job].status = "running"
  PROVE  \A a \in Children(run[k].job) : ~Left(a)
<1>1. \A l \in Consumers : run[l].job = run[k].job => l = k
  BY Ids DEF IInv, Alone
<1>2. up
  BY Ids DEF IInv, Down
<1> QED BY <1>1, <1>2 DEF IInv, ChildrenEnd, AtWork

\* The job that is claimed, and those that become stale.
LEMMA ClaimFacts ==
  ASSUME IInv, NEW k \in Consumers, Claim(k)
  PROVE  \E j \in Jobs :
           /\ job[j].status = "pending"
           /\ run' = [run EXCEPT ![k] = [Idle EXCEPT !.phase = "claimed", !.job = j,
                        !.analysis = IF j \in Analyses THEN j ELSE 0]]
           /\ job' \in [Jobs -> Job] /\ job'[j].status = "running"
           /\ job'[j].attempts = job[j].attempts + 1
           /\ \A i \in Jobs \ {j} : /\ job'[i].attempts = job[i].attempts
                                    /\ job'[i].status \in {job[i].status, "stale"}
                                    /\ job[i].status = "absent" => job'[i] = job[i]
                                    /\ i \in Batches => job'[i] = job[i]
<1>1. PICK j \in Jobs :
        /\ job[j].status = "pending"
        /\ job' = [i \in Jobs |->
             IF i = j THEN [job[i] EXCEPT !.status = "running", !.attempts = @ + 1,
                                          !.cancel = FALSE]
             ELSE IF job[i].status = "pending" /\ Outdated(i)
             THEN [job[i] EXCEPT !.status = "stale"] ELSE job[i]]
        /\ run' = [run EXCEPT ![k] = [Idle EXCEPT !.phase = "claimed", !.job = j,
                     !.analysis = IF j \in Analyses THEN j ELSE 0]]
  BY DEF Claim
<1>2. job \in [Jobs -> Job]
  BY DEF IInv, TypeOK
<1>5. /\ \A i \in Jobs : job[i] \in Job /\ job[i].attempts \in Nat
      /\ job'[j] = [job[j] EXCEPT !.status = "running", !.attempts = @ + 1, !.cancel = FALSE]
      /\ \A i \in Jobs \ {j} : \/ job'[i] = job[i]
                               \/ /\ job[i].status = "pending" /\ Outdated(i)
                                  /\ job'[i] = [job[i] EXCEPT !.status = "stale"]
      /\ DOMAIN job' = Jobs /\ job' = [i \in Jobs |-> job'[i]]
  BY <1>1, <1>2 DEF Job
<1>6. job'[j] \in Job /\ job'[j].status = "running" /\ job'[j].attempts = job[j].attempts + 1
  <2> DEFINE n == job[j].attempts + 1
             one == [job[j] EXCEPT !.status = "running"]
             two == [one EXCEPT !.attempts = n]
  <2>1. n \in Nat
    BY <1>5
  <2> HIDE DEF n
  <2>2. one \in Job /\ one.status = "running"
    BY <1>5 DEF Job
  <2> HIDE DEF one
  <2>3. two \in Job /\ two.status = "running" /\ two.attempts = n
    BY <2>1, <2>2 DEF Job
  <2> HIDE DEF two
  <2>4. [two EXCEPT !.cancel = FALSE] \in Job
        /\ [two EXCEPT !.cancel = FALSE].status = "running"
        /\ [two EXCEPT !.cancel = FALSE].attempts = n
    <3>1. PICK no \in BOOLEAN : no = FALSE
      OBVIOUS
    <3>2. [two EXCEPT !.cancel = no] \in Job
      BY <2>3 DEF Job
    <3> QED BY <2>3, <3>1, <3>2 DEF Job
  <2>5. job'[j] = [two EXCEPT !.cancel = FALSE]
    BY <1>5 DEF two, one, n
  <2> QED BY <2>4, <2>5 DEF n
<1>7. \A i \in Jobs \ {j} : /\ job'[i] \in Job /\ job'[i].attempts = job[i].attempts
                            /\ job'[i].status \in {job[i].status, "stale"}
                            /\ job[i].status = "absent" => job'[i] = job[i]
                            /\ i \in Batches => job'[i] = job[i]
  <2>1. \A i \in Batches : ~Outdated(i)
    BY Ids DEF Outdated
  <2> QED BY <1>5, <2>1 DEF Job
<1>8. job' \in [Jobs -> Job]
  BY <1>5, <1>6, <1>7
<1> QED BY <1>1, <1>6, <1>7, <1>8

LEMMA ClaimKeeps ==
  ASSUME IInv, NEW k \in Consumers, Claim(k)
  PROVE  IInv'
<1>1. PICK j \in Jobs :
        /\ job[j].status = "pending"
        /\ run' = [run EXCEPT ![k] = [Idle EXCEPT !.phase = "claimed", !.job = j,
                     !.analysis = IF j \in Analyses THEN j ELSE 0]]
        /\ job' \in [Jobs -> Job] /\ job'[j].status = "running"
        /\ job'[j].attempts = job[j].attempts + 1
        /\ \A i \in Jobs \ {j} : /\ job'[i].attempts = job[i].attempts
                                 /\ job'[i].status \in {job[i].status, "stale"}
                                 /\ job[i].status = "absent" => job'[i] = job[i]
                                 /\ i \in Batches => job'[i] = job[i]
  BY ClaimFacts
<1> DEFINE next == [Idle EXCEPT !.phase = "claimed", !.job = j,
                                !.analysis = IF j \in Analyses THEN j ELSE 0]
<1>2. /\ up /\ run[k].phase = "idle" /\ artifact' = artifact
      /\ UNCHANGED <<row, withdrawn, current, roster, request, up, crashes>>
      /\ text' \in [Chapters -> Revisions] /\ errors' \in Nat /\ acts' \in Nat
      /\ job \in [Jobs -> Job] /\ run \in [Consumers -> Run]
  BY DEF Claim, view, process, IInv, TypeOK
<1>3. /\ next \in Run /\ next.phase = "claimed" /\ next.job = j
      /\ next.analysis = (IF j \in Analyses THEN j ELSE 0)
      /\ \A c \in Chapters : next.seen[c] = 0
  BY IdleFacts, PhaseNames DEF Run
<1> HIDE DEF next
<1>4. run' = [run EXCEPT ![k] = next]
  BY <1>1 DEF next
<1>5. \A i \in Jobs : job[i] \in Job /\ job[i].attempts \in Nat
  BY <1>2 DEF Job
<1>9. \A l \in Consumers \ {k} : run'[l] = run[l]
  BY <1>2, <1>4
<1>10. \A l \in Consumers : run[l].job = j => j \in Analyses /\ job[j].attempts >= 1
  BY <1>1, RunFacts DEF OfSingle, OfBatch, Jobs
<1>11. Moved(k)
  <2>1. j # 0 /\ run'[k] = next
    BY <1>2, <1>4, Ids DEF Jobs
  <2>2. j \in Analyses => row[j].batch = 0
    BY <1>1 DEF IInv, Rows
  <2>3. job'[j].attempts >= 1 /\ \A l \in Consumers : run[l].job = j => job'[j].attempts > 1
    BY <1>1, <1>5, <1>10
  <2>4. next.phase \notin Working /\ run[k].phase \notin Working /\ j \in Analyses \cup Batches
    BY <1>2, <1>3 DEF Working, Jobs
  <2>5. j \in Analyses => /\ next.analysis = j /\ row[j].batch = 0
                          /\ job'[j].status # "absent" /\ job'[j].attempts >= 1
    BY <1>1, <1>3, <2>2, <2>3
  <2>6. j \in Batches => next.analysis = 0
    BY <1>3, Ids
  <2>7. \A m \in Consumers \ {k} : run'[m] = run[m] /\ (run[m].job = j =>
                                       j \in Analyses /\ job'[j].attempts > 1)
    BY <1>9, <1>10, <2>3
  <2> QED BY <1>2, <1>3, <2>1, <2>4, <2>5, <2>6, <2>7 DEF Moved
<1>12. \A b \in Batches : \/ job'[b].status \in {job[b].status, "deleted"}
                          \/ \A a \in Children(b) : ~Left(a)
  <2>1. \A b \in Batches : b # j => job'[b].status = job[b].status
    BY <1>1 DEF Jobs
  <2>2. j \in Batches => \A a \in Children(j) : ~Left(a)
    BY <1>1, NoneLeft
  <2> QED BY <2>1, <2>2
<1>13. \A l \in Consumers : run'[l].job \in Batches =>
         job'[run'[l].job].status \in {"running", "cancelled", "deleted"}
  <2> SUFFICES ASSUME NEW l \in Consumers, run'[l].job \in Batches
               PROVE  job'[run'[l].job].status \in {"running", "cancelled", "deleted"}
    OBVIOUS
  <2>1. CASE l = k
    BY <1>1, <1>2, <1>3, <1>4, <2>1
  <2>2. CASE l # k
    <3>1. run'[l] = run[l] /\ job[run[l].job].status \in {"running", "cancelled", "deleted"}
      BY <1>9, <2>2, RunFacts DEF OfBatch
    <3>2. run[l].job # j
      BY <1>1, <3>1
    <3> QED BY <1>1, <3>1, <3>2 DEF Jobs
  <2> QED BY <2>1, <2>2
<1>14. \A i \in Jobs : /\ job[i].status = "absent" => job'[i] = job[i]
                       /\ job[i].status # "absent" => job'[i].status # "absent"
                       /\ job'[i].attempts >= job[i].attempts
  <2>1. ASSUME NEW i \in Jobs, i # j
        PROVE  /\ job[i].status = "absent" => job'[i] = job[i]
               /\ job[i].status # "absent" => job'[i].status # "absent"
               /\ job'[i].attempts >= job[i].attempts
    BY <1>1, <1>5, <2>1
  <2>2. /\ job[j].status # "absent" /\ job'[j].status # "absent"
        /\ job'[j].attempts >= job[j].attempts
    <3>1. job[j].attempts \in Nat
      BY <1>5
    <3>2. job'[j].status # "absent" /\ job'[j].attempts >= job[j].attempts
      BY <1>1, <3>1
    <3>3. job[j].status # "absent"
      BY <1>1
    <3> QED BY <3>2, <3>3
  <2> QED BY <2>1, <2>2
<1>15. JobStep
  <2>1. run' \in [Consumers -> Run]
    BY <1>2, <1>3, <1>4
  <2> QED BY <1>1, <1>2, <1>9, <1>11, <1>12, <1>13, <1>14, <2>1 DEF JobStep
<1> QED BY <1>15, JobStepKeeps

\* A job that is there is given a new state; a whole book comes to an end, or to
\* a new start, only when no child of it is active.
LEMMA JobGoes ==
  ASSUME IInv, NEW j \in Jobs, job[j].status # "absent", NEW new \in Job,
         new.status # "absent", new.attempts = job[j].attempts,
         job' = [job EXCEPT ![j] = new],
         j \in Batches =>
           new.status \in {job[j].status, "deleted"} \/ \A a \in Children(j) : ~Left(a),
         UNCHANGED <<row, withdrawn, current, roster, request, up, crashes>>,
         text' = text, artifact' = artifact, errors' = errors, acts' \in Nat,
         run' \in [Consumers -> Run],
         \A l \in Consumers :
           /\ run'[l] = run[l] \/ Moved(l)
           /\ run'[l].job \in Batches /\ run'[l].job = j =>
                new.status \in {"running", "cancelled", "deleted"}
           /\ run'[l].job \in Batches => run'[l].job = run[l].job
  PROVE  IInv'
<1>1. /\ job \in [Jobs -> Job] /\ text' \in [Chapters -> Revisions] /\ errors' \in Nat
      /\ \A i \in Jobs : job[i].attempts \in Nat
  BY DEF IInv, TypeOK, Job
<1>2. /\ job' \in [Jobs -> Job] /\ job'[j] = new
      /\ \A i \in Jobs : i # j => job'[i] = job[i]
  BY <1>1
<1>3. \A i \in Jobs : /\ job[i].status = "absent" => job'[i] = job[i]
                      /\ job[i].status # "absent" => job'[i].status # "absent"
                      /\ job'[i].attempts >= job[i].attempts
  <2>1. ASSUME NEW i \in Jobs
        PROVE  job'[i].attempts >= job[i].attempts
    BY <1>1, <1>2
  <2> QED BY <1>2, <2>1
<1>4. \A b \in Batches : \/ job'[b].status \in {job[b].status, "deleted"}
                         \/ \A a \in Children(b) : ~Left(a)
  BY <1>2 DEF Jobs
<1>5. \A l \in Consumers : run'[l].job \in Batches =>
        job'[run'[l].job].status \in {"running", "cancelled", "deleted"}
  <2> SUFFICES ASSUME NEW l \in Consumers, run'[l].job \in Batches
               PROVE  job'[run'[l].job].status \in {"running", "cancelled", "deleted"}
    OBVIOUS
  <2>1. run'[l].job = run[l].job /\ job[run[l].job].status \in {"running", "cancelled", "deleted"}
    BY RunFacts DEF OfBatch
  <2> QED BY <1>2, <2>1 DEF Jobs
<1>6. JobStep
  BY <1>1, <1>2, <1>3, <1>4, <1>5 DEF JobStep
<1> QED BY <1>6, JobStepKeeps

LEMMA CancelJobKeeps ==
  ASSUME IInv, NEW j \in Jobs, CancelJob(j)
  PROVE  IInv'
<1>1. /\ UNCHANGED <<row, withdrawn, current, roster, request, up, crashes>>
      /\ text' = text /\ artifact' = artifact /\ errors' = errors /\ acts' \in Nat /\ run' = run
      /\ run' \in [Consumers -> Run] /\ job[j] \in Job
  BY DEF CancelJob, Acts, view, IInv, TypeOK
<1>2. CASE job[j].status = "pending" /\ job' = [job EXCEPT ![j].status = "cancelled"]
  <2> DEFINE new == [job[j] EXCEPT !.status = "cancelled"]
  <2>1. new \in Job /\ new.status = "cancelled" /\ new.attempts = job[j].attempts
    BY <1>1 DEF Job
  <2>2. job' = [job EXCEPT ![j] = new]
    BY <1>2
  <2>3. j \in Batches => \A a \in Children(j) : ~Left(a)
    BY <1>2, NoneLeft
  <2> HIDE DEF new
  <2>9. /\ j \in Batches =>
             new.status \in {job[j].status, "deleted"} \/ \A a \in Children(j) : ~Left(a)
        /\ \A l \in Consumers :
             /\ run'[l] = run[l] \/ Moved(l)
             /\ run'[l].job \in Batches /\ run'[l].job = j =>
                  new.status \in {"running", "cancelled", "deleted"}
             /\ run'[l].job \in Batches => run'[l].job = run[l].job
    BY <1>1, <1>2, <2>1, <2>3
  <2> QED BY <1>1, <1>2, <2>1, <2>2, <2>9, JobGoes
<1>3. CASE job[j].status = "running" /\ job' = [job EXCEPT ![j].cancel = TRUE]
  <2>1. PICK yes \in BOOLEAN : yes = TRUE
    OBVIOUS
  <2> DEFINE new == [job[j] EXCEPT !.cancel = yes]
  <2>2. new \in Job /\ new.status = job[j].status /\ new.attempts = job[j].attempts
    BY <1>1 DEF Job
  <2>3. job' = [job EXCEPT ![j] = new]
    BY <1>3, <2>1
  <2> HIDE DEF new
  <2> QED BY ZenonT(40), <1>1, <1>3, <2>2, <2>3, JobGoes
<1> QED BY <1>2, <1>3 DEF CancelJob

LEMMA RetryJobKeeps ==
  ASSUME IInv, NEW j \in Jobs, RetryJob(j)
  PROVE  IInv'
<1>1. /\ UNCHANGED <<row, withdrawn, current, roster, request, up, crashes>>
      /\ text' = text /\ artifact' = artifact /\ errors' = errors /\ acts' \in Nat /\ run' = run
      /\ run' \in [Consumers -> Run] /\ job[j] \in Job /\ job[j].status = "failed"
  BY DEF RetryJob, Acts, view, IInv, TypeOK
<1>2. PICK no \in BOOLEAN : no = FALSE
  OBVIOUS
<1> DEFINE one == [job[j] EXCEPT !.status = "pending"]
           new == [one EXCEPT !.cancel = no]
<1>3. one \in Job /\ one.status = "pending" /\ one.attempts = job[j].attempts
  BY <1>1 DEF Job
<1>4. job' = [job EXCEPT ![j] = new]
  BY <1>2 DEF RetryJob
<1> HIDE DEF one
<1>5. new \in Job /\ new.status = "pending" /\ new.attempts = job[j].attempts
  BY <1>3 DEF Job
<1> HIDE DEF new
<1>6. j \in Batches => (\A k \in Consumers : run[k].job # j) /\ \A a \in Children(j) : ~Left(a)
  BY <1>1, NoneLeft
<1>9. /\ j \in Batches =>
           new.status \in {job[j].status, "deleted"} \/ \A a \in Children(j) : ~Left(a)
      /\ \A l \in Consumers :
           /\ run'[l] = run[l] \/ Moved(l)
           /\ run'[l].job \in Batches /\ run'[l].job = j =>
                new.status \in {"running", "cancelled", "deleted"}
           /\ run'[l].job \in Batches => run'[l].job = run[l].job
  BY <1>1, <1>5, <1>6
<1> QED BY <1>1, <1>4, <1>5, <1>9, JobGoes

LEMMA DeleteJobKeeps ==
  ASSUME IInv, NEW b \in Batches, DeleteJob(b)
  PROVE  IInv'
<1>1. /\ UNCHANGED <<row, withdrawn, current, roster, request, up, crashes>>
      /\ text' = text /\ artifact' = artifact /\ errors' = errors /\ acts' \in Nat /\ run' = run
      /\ run' \in [Consumers -> Run] /\ b \in Jobs /\ job[b] \in Job /\ job[b].status # "absent"
  BY DEF DeleteJob, Acts, view, IInv, TypeOK, Jobs
<1> DEFINE new == [job[b] EXCEPT !.status = "deleted"]
<1>2. /\ new \in Job /\ new.status = "deleted" /\ new.attempts = job[b].attempts
      /\ job' = [job EXCEPT ![b] = new]
  BY <1>1 DEF Job, DeleteJob
<1> HIDE DEF new
<1> QED BY <1>1, <1>2, JobGoes

\* An edit changes no row but in its history.
LEMMA EditFacts ==
  ASSUME IInv, NEW c \in Chapters, Edit(c)
  PROVE  /\ text' \in [Chapters -> Revisions] /\ row' \in [Analyses -> Row] /\ acts' \in Nat
         /\ UNCHANGED <<artifact, job, withdrawn, current, roster, run, request, up, crashes, errors>>
         /\ \A a \in Analyses : /\ row'[a].status = row[a].status /\ row'[a].error = row[a].error
                                /\ row'[a].chapter = row[a].chapter /\ row'[a].hash = row[a].hash
                                /\ row'[a].batch = row[a].batch /\ row[a].past \subseteq row'[a].past
<1>1. PICK w \in Rewrites :
        /\ text' = [text EXCEPT ![c] = w[3]]
        /\ row' = [a \in Analyses |->
             IF Restores(c, w[3], a) THEN Befallen(row[a], "restored") ELSE row[a]]
  BY DEF Edit
<1>2. w[3] \in Revisions
  BY DEF Revisions
<1>3. /\ text \in [Chapters -> Revisions] /\ row \in [Analyses -> Row] /\ acts \in Nat
      /\ \A a \in Analyses : row[a] \in Row
  BY DEF IInv, TypeOK
<1>4. acts' \in Nat
  BY <1>3 DEF Edit, Acts
<1>5. ASSUME NEW a \in Analyses
      PROVE  /\ row'[a] \in Row
             /\ row'[a].status = row[a].status /\ row'[a].error = row[a].error
             /\ row'[a].chapter = row[a].chapter /\ row'[a].hash = row[a].hash
             /\ row'[a].batch = row[a].batch /\ row[a].past \subseteq row'[a].past
  <2>1. CASE row'[a] = row[a]
    BY <1>3, <2>1
  <2>2. CASE row'[a] = Befallen(row[a], "restored")
    <3> DEFINE past == row[a].past \cup {"restored"}
    <3>1. past \in SUBSET Past /\ row[a].past \subseteq past /\ row'[a] = [row[a] EXCEPT !.past = past]
      BY <1>3, <2>2 DEF Row, Past, Befallen
    <3> HIDE DEF past
    <3> QED BY <1>3, <3>1 DEF Row
  <2> QED BY <1>1, <2>1, <2>2
<1>6. row' = [a \in Analyses |-> row'[a]]
  BY <1>1
<1>7. UNCHANGED <<artifact, job, withdrawn, current, roster, run, request, up, crashes, errors>>
  BY DEF Edit, view
<1>8. text' \in [Chapters -> Revisions]
  BY <1>1, <1>2, <1>3
<1>9. row' \in [Analyses -> Row]
  BY <1>5, <1>6
<1> QED BY <1>4, <1>5, <1>7, <1>8, <1>9

LEMMA EditKeeps ==
  ASSUME IInv, NEW c \in Chapters, Edit(c)
  PROVE  IInv'
<1>1. /\ text' \in [Chapters -> Revisions] /\ row' \in [Analyses -> Row] /\ acts' \in Nat
      /\ UNCHANGED <<artifact, job, withdrawn, current, roster, run, request, up, crashes, errors>>
      /\ \A a \in Analyses : /\ row'[a].status = row[a].status /\ row'[a].error = row[a].error
                             /\ row'[a].chapter = row[a].chapter /\ row'[a].hash = row[a].hash
                             /\ row'[a].batch = row[a].batch /\ row[a].past \subseteq row'[a].past
  BY EditFacts
<1>2. \A a \in Analyses : /\ Exists(a)' <=> Exists(a)
                          /\ IsActive(a)' <=> IsActive(a)
                          /\ Shown(a)' <=> Shown(a)
                          /\ Left(a)' => Left(a)
  BY <1>1 DEF Exists, IsActive, Shown, Left
<1>3. TypeOK'
  BY <1>1 DEF IInv, TypeOK
<1>4. Rows'
  BY <1>1, <1>2 DEF IInv, Rows
<1>5. Inserted'
  BY <1>1, <1>2 DEF IInv, Inserted
<1>6. Alone' /\ Down'
  BY <1>1 DEF IInv, Alone, Down
<1>7. Stopped'
  BY <1>1 DEF IInv, TypeOK, Stopped
<1>8. ShowsNothingElse'
  BY <1>1, <1>2 DEF IInv, TypeOK, ShowsNothingElse
<1>9. ASSUME NEW l \in Consumers
      PROVE  /\ run'[l].job = 0 => run'[l] = Idle
             /\ OfSingle(run[l])' /\ OfBatch(run[l])' /\ Harmless(run[l])'
  <2>1. /\ OfSingle(run[l]) /\ OfBatch(run[l]) /\ Harmless(run[l])
        /\ run[l].job = 0 => run[l] = Idle
        /\ run[l].analysis \in Analyses \cup {0} /\ run'[l] = run[l]
        /\ \A d \in Chapters : run[l].seen[d] \in Analyses \cup {0}
        /\ run[l].job = 0 \/ run[l].job \in Analyses \/ run[l].job \in Batches
    BY <1>1, RunFacts
  <2>2. OfSingle(run[l])'
    BY <1>1, <2>1 DEF OfSingle
  <2>3. OfBatch(run[l])'
    BY <1>1, <1>2, <2>1 DEF OfBatch
  <2>4. \A d \in Chapters : run[l].seen[d] # 0 =>
          run[l].seen[d] \notin withdrawn /\ row'[run[l].seen[d]].status \in {"ready", "failed"}
    BY <1>1, <2>1 DEF Harmless, Shown
  <2>5. Harmless(run[l])'
    <3>1. CASE run[l].analysis \in Analyses
      BY <1>1, <1>2, <2>1, <2>4, <3>1 DEF Harmless, Shown
    <3>2. CASE run[l].analysis = 0
      <4>1. run[l].phase \notin Working \cup Showing
        BY <2>1, <3>2, Ids, IdleFacts DEF OfSingle, OfBatch, Working, Showing
      <4> QED BY <1>1, <2>1, <2>4, <3>2, <4>1 DEF Harmless, Shown, Working
    <3> QED BY <2>1, <3>1, <3>2
  <2> QED BY <2>1, <2>2, <2>3, <2>5
<1>10. Held' /\ HarmlessRuns'
  BY <1>9 DEF Held, HarmlessRuns
<1>11. ChildrenEnd'
  <2> SUFFICES ASSUME NEW b \in Batches, NEW a \in Analyses, Exists(a), row[a].batch = b, Left(a)
               PROVE  \/ \E l \in Consumers : AtWork(l, b, a)
                      \/ job[b].status = "running" /\ ~up
                      \/ job[b].status = "cancelled" /\ crashes > 0
                      \/ job[b].status = "deleted"
    BY <1>1, <1>2 DEF ChildrenEnd, Children, AtWork
  <2> QED BY DEF IInv, ChildrenEnd, Children
<1> QED BY <1>3, <1>4, <1>5, <1>6, <1>7, <1>8, <1>10, <1>11 DEF IInv

-----------------------------------------------------------------------------
(* The end of a job *)

\* The job a consumer finalizes, whatever it does next.
LEMMA FinalizedFacts ==
  ASSUME IInv, NEW k \in Consumers, run[k].job # 0, run[k].phase \notin Working,
         NEW outcome \in {"success", "failed", "cancelled", "pending"}
  PROVE  LET j == run[k].job
             new == IF job[j].status = "running"
                    THEN [job[j] EXCEPT !.status = IF job[j].cancel THEN "cancelled" ELSE outcome]
                    ELSE job[j]
         IN
         /\ Finalized(j, outcome) = [job EXCEPT ![j] = new]
         /\ j \in Jobs /\ new \in Job /\ job[j].status # "absent" /\ new.status # "absent"
         /\ new.attempts = job[j].attempts
         /\ j \in Batches =>
              \/ new.status \in {job[j].status, "deleted"}
              \/ \A a \in Children(j) : ~Left(a)
<1> DEFINE j == run[k].job
           s == IF job[j].cancel THEN "cancelled" ELSE outcome
           new == IF job[j].status = "running" THEN [job[j] EXCEPT !.status = s] ELSE job[j]
<1>1. /\ j \in Jobs /\ job[j] \in Job /\ job \in [Jobs -> Job]
      /\ job[j].status # "absent"
  BY RunFacts DEF IInv, TypeOK, Jobs, OfSingle, OfBatch
<1>2. s \in {"success", "failed", "cancelled", "pending"}
  OBVIOUS
<1>3. Finalized(j, outcome) = [job EXCEPT ![j] = new]
  BY <1>1 DEF Finalized
<1> HIDE DEF s
<1>4. new \in Job /\ new.status # "absent" /\ new.attempts = job[j].attempts
  BY <1>1, <1>2 DEF Job
<1>5. j \in Batches => \/ new.status \in {job[j].status, "deleted"}
                       \/ \A a \in Children(j) : ~Left(a)
  <2>1. CASE job[j].status = "running"
    BY <2>1, NoneLeftAtEnd
  <2>2. CASE job[j].status # "running"
    BY <2>2
  <2> QED BY <2>1, <2>2
<1> QED BY <1>1, <1>3, <1>4, <1>5 DEF s

LEMMA FinishKeeps ==
  ASSUME IInv, NEW k \in Consumers, Finish(k)
  PROVE  IInv'
<1> DEFINE j == run[k].job
<1>1. PICK outcome \in {"success", "failed", "cancelled", "pending"} :
        job' = Finalized(j, outcome)
  BY DEF Finish
<1>2. /\ run[k].phase \in {"finishing", "rejected"} /\ run' = [run EXCEPT ![k] = Idle]
      /\ UNCHANGED <<row, withdrawn, current, roster, request, up, crashes>>
      /\ text' = text /\ artifact' = artifact /\ errors' = errors /\ acts' \in Nat
      /\ run \in [Consumers -> Run]
  BY DEF Finish, Rest, view, process, IInv, TypeOK
<1>3. j # 0 /\ run[k].phase \notin Working /\ up
  BY <1>2, RunFacts DEF Working, IInv, Down
<1> DEFINE new == IF job[j].status = "running"
                  THEN [job[j] EXCEPT !.status = IF job[j].cancel THEN "cancelled" ELSE outcome]
                  ELSE job[j]
<1>4. /\ job' = [job EXCEPT ![j] = new]
      /\ j \in Jobs /\ new \in Job /\ job[j].status # "absent" /\ new.status # "absent"
      /\ new.attempts = job[j].attempts
      /\ j \in Batches =>
           \/ new.status \in {job[j].status, "deleted"}
           \/ \A a \in Children(j) : ~Left(a)
  BY <1>1, <1>3, FinalizedFacts
<1> HIDE DEF new
<1>5. /\ run' \in [Consumers -> Run] /\ run'[k] = Idle
      /\ \A l \in Consumers \ {k} : run'[l] = run[l]
  BY <1>2, IdleFacts
<1>6. Moved(k)
  BY <1>3, <1>5, IdleFacts, Ids DEF Moved
<1>7. \A l \in Consumers :
        /\ run'[l] = run[l] \/ Moved(l)
        /\ run'[l].job \in Batches => run'[l].job = run[l].job /\ run'[l].job # j
  <2>1. \A l \in Consumers : l # k /\ run[l].job = j => j \in Analyses
    BY <1>3, RunFacts DEF IInv, Alone
  <2> QED BY <1>5, <1>6, <2>1, IdleFacts, Ids
<1>9. /\ j \in Batches =>
           new.status \in {job[j].status, "deleted"} \/ \A a \in Children(j) : ~Left(a)
      /\ \A l \in Consumers :
           /\ run'[l] = run[l] \/ Moved(l)
           /\ run'[l].job \in Batches /\ run'[l].job = j =>
                new.status \in {"running", "cancelled", "deleted"}
           /\ run'[l].job \in Batches => run'[l].job = run[l].job
  BY <1>4, <1>7
<1> QED BY <1>2, <1>4, <1>5, <1>9, JobGoes

LEMMA CatchKeeps ==
  ASSUME IInv, NEW k \in Consumers, Catch(k)
  PROVE  IInv'
<1> DEFINE j == run[k].job
<1>1. /\ run[k].phase = "caught"
      /\ UNCHANGED <<row, withdrawn, current, roster, request, up, crashes>>
      /\ text' = text /\ artifact' = artifact /\ errors' = errors /\ acts' \in Nat
      /\ run \in [Consumers -> Run] /\ run[k] \in Run
  BY RunFacts DEF Catch, view, process, IInv, TypeOK
<1>2. j # 0 /\ run[k].phase \notin Working /\ up
  BY <1>1, RunFacts DEF Working, IInv, Down
<1>3. /\ j \in Analyses => run[k].analysis = j /\ row[j].batch = 0 /\ job[j].attempts >= 1
      /\ job[j].status # "absent" /\ j \in Jobs
      /\ j \in Analyses \/ j \in Batches
      /\ IsBatch(k) <=> j \in Batches
      /\ \A c \in Chapters : run[k].seen[c] # 0 => Shown(run[k].seen[c])
  BY <1>1, <1>2, RunFacts DEF OfSingle, OfBatch, Harmless, IsBatch, Jobs
<1>4. \A l \in Consumers \ {k} : run[l].job = j => j \in Analyses /\ job[j].attempts > 1
  <2>1. job[j].attempts \in Nat
    BY <1>3 DEF IInv, TypeOK, Job, Jobs
  <2> QED BY <1>2, <2>1 DEF IInv, Alone
<1>5. PICK outcome \in {"success", "failed", "cancelled", "pending"}, next \in Run :
        /\ \/ job' = Finalized(j, outcome)
           \/ outcome = "pending" /\ job[j].status = "running"
              /\ job' = [job EXCEPT ![j].status = "pending"]
           \/ job' = job
        /\ run' = [run EXCEPT ![k] = next]
        /\ \/ next = Idle
           \/ /\ j \in Analyses /\ next.job = j /\ next.analysis = j /\ next.seen = run[k].seen
              /\ next.phase \in {"noting_retry", "noting_failure"}
  <2>1. CASE Rest(k) /\ job' = Finalized(j, "cancelled")
    BY <2>1, IdleFacts DEF Rest
  <2> DEFINE retry == [run[k] EXCEPT !.phase = "noting_retry"]
             fail == [run[k] EXCEPT !.phase = "noting_failure"]
  <2>2. /\ retry \in Run /\ retry.job = j /\ retry.seen = run[k].seen
        /\ retry.phase = "noting_retry" /\ (j \in Analyses => retry.analysis = j)
        /\ fail \in Run /\ fail.job = j /\ fail.seen = run[k].seen
        /\ fail.phase = "noting_failure" /\ (j \in Analyses => fail.analysis = j)
    BY <1>1, <1>3, PhaseNames DEF Run
  <2>3. CASE /\ job' = IF job[j].status = "running" THEN [job EXCEPT ![j].status = "pending"] ELSE job
             /\ Then(k, "noting_retry")
    <3>1. \/ run' = [run EXCEPT ![k] = Idle]
          \/ j \in Analyses /\ run' = [run EXCEPT ![k] = retry]
      BY <1>3, <2>3 DEF Then, Goto, Rest
    <3> HIDE DEF retry
    <3> QED BY <2>2, <2>3, <3>1, IdleFacts
  <2>4. CASE job' = Finalized(j, "failed") /\ Then(k, "noting_failure")
    <3>1. \/ run' = [run EXCEPT ![k] = Idle]
          \/ j \in Analyses /\ run' = [run EXCEPT ![k] = fail]
      BY <1>3, <2>4 DEF Then, Goto, Rest
    <3> HIDE DEF fail
    <3> QED BY <2>2, <2>4, <3>1, IdleFacts
  <2> QED BY <2>1, <2>3, <2>4 DEF Catch
<1>6. PICK new \in Job :
        /\ job' = [job EXCEPT ![j] = new] /\ new.status # "absent" /\ new.attempts = job[j].attempts
        /\ j \in Batches =>
             new.status \in {job[j].status, "deleted"} \/ \A a \in Children(j) : ~Left(a)
  <2>1. job \in [Jobs -> Job] /\ j \in Jobs /\ job[j] \in Job
    BY <1>3 DEF IInv, TypeOK, Jobs
  <2>2. CASE job' = Finalized(j, outcome)
    <3> DEFINE new == IF job[j].status = "running"
                      THEN [job[j] EXCEPT !.status = IF job[j].cancel THEN "cancelled" ELSE outcome]
                      ELSE job[j]
    <3>1. /\ Finalized(j, outcome) = [job EXCEPT ![j] = new]
          /\ new \in Job /\ new.status # "absent" /\ new.attempts = job[j].attempts
          /\ j \in Batches =>
               new.status \in {job[j].status, "deleted"} \/ \A a \in Children(j) : ~Left(a)
      BY <1>2, FinalizedFacts
    <3> HIDE DEF new
    <3> QED BY <2>2, <3>1
  <2>3. CASE job[j].status = "running" /\ job' = [job EXCEPT ![j].status = "pending"]
    <3> DEFINE new == [job[j] EXCEPT !.status = "pending"]
    <3>1. new \in Job /\ new.status # "absent" /\ new.attempts = job[j].attempts
      BY <2>1 DEF Job
    <3>2. j \in Batches => \A a \in Children(j) : ~Left(a)
      BY <1>2, <2>3, NoneLeftAtEnd
    <3>3. job' = [job EXCEPT ![j] = new]
      BY <2>3
    <3> HIDE DEF new
    <3> QED BY <3>1, <3>2, <3>3
  <2>4. CASE job' = job
    BY <1>3, <2>1, <2>4
  <2> QED BY <1>5, <2>2, <2>3, <2>4
<1>7. /\ run' \in [Consumers -> Run] /\ run'[k] = next
      /\ \A l \in Consumers \ {k} : run'[l] = run[l]
  BY <1>1, <1>5
<1>8. job'[j] = new
  BY <1>3, <1>6 DEF IInv, TypeOK, Jobs
<1>9. Moved(k)
  <2>1. CASE next = Idle
    BY <1>2, <1>7, <2>1, IdleFacts, Ids DEF Moved
  <2>2. CASE /\ j \in Analyses /\ next.job = j /\ next.analysis = j /\ next.seen = run[k].seen
             /\ next.phase \in {"noting_retry", "noting_failure"}
    BY <1>2, <1>3, <1>4, <1>6, <1>7, <1>8, <2>2, Ids DEF Moved
  <2> QED BY <1>5, <2>1, <2>2
<1>10. next.job \notin Batches
  BY <1>5, IdleFacts, Ids
<1>11. \A l \in Consumers :
         /\ run'[l] = run[l] \/ Moved(l)
         /\ run'[l].job \in Batches /\ run'[l].job = j =>
              new.status \in {"running", "cancelled", "deleted"}
         /\ run'[l].job \in Batches => run'[l].job = run[l].job
  BY <1>4, <1>7, <1>9, <1>10, Ids
<1> QED BY <1>1, <1>3, <1>6, <1>7, <1>11, JobGoes

-----------------------------------------------------------------------------
(* Requests that change no row *)

\* A row that is gone from the list of the free ones has no other name.
LEMMA AskKeeps ==
  ASSUME IInv, NEW u \in Requests, NEW new \in Request, new.phase # "inserted",
         new.phase = "checked" => new.chapter \in Chapters,
         request' = [request EXCEPT ![u] = new], up \/ new.phase = "idle",
         UNCHANGED <<text, artifact, tables, view, run, process>>
  PROVE  IInv'
<1>1. TypeOK'
  BY DEF IInv, TypeOK, tables, view, process
<1>2. /\ request' \in [Requests -> Request] /\ request'[u] = new
      /\ \A v \in Requests \ {u} : request'[v] = request[v]
  BY DEF IInv, TypeOK
<1>3. UNCHANGED <<text, artifact, row, job, withdrawn, current, roster, run, up, crashes>>
  BY DEF tables, view, process
<1>4. Inserted'
  BY <1>2, <1>3 DEF IInv, Inserted, Exists
<1>5. Down'
  BY <1>2, <1>3 DEF IInv, Down
<1>6. Rows' /\ Held' /\ Alone' /\ Stopped' /\ HarmlessRuns' /\ ShowsNothingElse' /\ ChildrenEnd'
  BY <1>3 DEF IInv, Rows, Held, Alone, Stopped, HarmlessRuns, ShowsNothingElse, ChildrenEnd,
     Exists, OfSingle, OfBatch, Harmless, Shown, IsActive, Left, Children, AtWork
<1> QED BY <1>1, <1>4, <1>5, <1>6 DEF IInv

\* A job that was absent is put into the queue.
LEMMA EnqueueKeeps ==
  ASSUME IInv, NEW u \in Requests, NEW j \in Jobs, NEW new \in Job,
         job[j].status = "absent", new.status = "pending", new.attempts \in Nat,
         j \in Analyses => /\ Exists(j) /\ row[j].batch = 0
                           /\ \A v \in Requests \ {u} :
                                request[v].phase = "inserted" => request[v].analysis # j,
         job' = [job EXCEPT ![j] = new],
         request' = [request EXCEPT ![u] = NoRequest],
         UNCHANGED <<text, artifact, row, withdrawn, view, run, process>>
  PROVE  IInv'
<1>1. NoRequest \in Request /\ NoRequest.phase = "idle"
  BY DEF NoRequest, Request
<1>2. /\ job' \in [Jobs -> Job] /\ job'[j] = new /\ \A i \in Jobs : i # j => job'[i] = job[i]
      /\ request' \in [Requests -> Request] /\ request'[u] = NoRequest
      /\ \A v \in Requests \ {u} : request'[v] = request[v]
  BY <1>1 DEF IInv, TypeOK
<1>3. UNCHANGED <<text, artifact, row, withdrawn, current, roster, run, up, crashes, errors, acts>>
  BY DEF view, process
<1>4. TypeOK'
  BY <1>2, <1>3 DEF IInv, TypeOK
<1>5. Rows'
  BY <1>2, <1>3 DEF IInv, Rows, Exists, Jobs
<1>6. Inserted'
  BY <1>1, <1>2, <1>3 DEF IInv, Inserted, Exists, Jobs
<1>7. \A k \in Consumers : run[k].job # j
  BY RunFacts DEF OfSingle, OfBatch, Jobs
<1>8. Held'
  <2> SUFFICES ASSUME NEW k \in Consumers
               PROVE  /\ run[k].job = 0 => run[k] = Idle
                      /\ OfSingle(run[k])' /\ OfBatch(run[k])'
    BY <1>3 DEF Held, IInv
  <2>1. OfSingle(run[k]) /\ OfBatch(run[k]) /\ (run[k].job = 0 => run[k] = Idle) /\ run[k].job # j
    BY <1>7, RunFacts
  <2> QED BY <1>2, <1>3, <2>1 DEF OfSingle, OfBatch, Exists, Jobs
<1>9. Alone'
  BY <1>2, <1>3, <1>7 DEF IInv, Alone, Jobs
<1>10. Down'
  BY <1>1, <1>2, <1>3 DEF IInv, Down
<1>11. Stopped' /\ HarmlessRuns' /\ ShowsNothingElse'
  BY <1>3 DEF IInv, Stopped, HarmlessRuns, ShowsNothingElse, Harmless, Shown, IsActive, Left
<1>12. ChildrenEnd'
  <2> SUFFICES ASSUME NEW b \in Batches, NEW a \in Children(b), Left(a)
               PROVE  \/ \E l \in Consumers : AtWork(l, b, a)'
                      \/ job'[b].status = "running" /\ ~up
                      \/ job'[b].status = "cancelled" /\ crashes > 0
                      \/ job'[b].status = "deleted"
    BY <1>3 DEF ChildrenEnd, Children, IsActive, Left, Exists
  <2>1. b # j
    BY NoneLeft
  <2>2. job'[b] = job[b]
    BY <1>2, <2>1 DEF Jobs
  <2> QED BY <1>3, <2>2 DEF IInv, ChildrenEnd, AtWork
<1> QED BY <1>4, <1>5, <1>6, <1>8, <1>9, <1>10, <1>11, <1>12 DEF IInv

LEMMA ServeKeeps ==
  ASSUME IInv, NEW u \in Requests,
         \/ \E c \in Chapters : Ask(u, c)
         \/ Enqueue(u)
         \/ AskBatch(u)
         \/ \E b \in Batches : EnqueueBatch(u, b)
  PROVE  IInv'
<1>1. request[u] \in Request /\ text \in [Chapters -> Revisions] /\ job \in [Jobs -> Job]
  BY DEF IInv, TypeOK
<1>2. ASSUME NEW c \in Chapters, Ask(u, c)
      PROVE  IInv'
  <2> DEFINE new == [phase |-> "checked", chapter |-> c, hash |-> text[c], analysis |-> 0]
  <2>1. new \in Request /\ new.phase = "checked" /\ new.chapter \in Chapters
    BY <1>1 DEF Request
  <2>2. /\ request' = [request EXCEPT ![u] = new] /\ up
        /\ UNCHANGED <<text, artifact, tables, view, run, process>>
    BY <1>2 DEF Ask
  <2> HIDE DEF new
  <2> QED BY <2>1, <2>2, AskKeeps
<1>3. CASE AskBatch(u)
  <2> DEFINE new == [request[u] EXCEPT !.phase = "checked_batch"]
  <2>1. new \in Request /\ new.phase = "checked_batch"
    BY <1>1 DEF Request
  <2>2. /\ request' = [request EXCEPT ![u] = new] /\ up
        /\ UNCHANGED <<text, artifact, tables, view, run, process>>
    BY <1>3 DEF AskBatch
  <2> HIDE DEF new
  <2> QED BY <2>1, <2>2, AskKeeps
<1>4. NoJob \in Job /\ NoJob.attempts = 0
  BY DEF NoJob, Job
<1>5. CASE Enqueue(u)
  <2> DEFINE j == request[u].analysis
             h == text[request[u].chapter]
             one == [NoJob EXCEPT !.status = "pending"]
             new == [one EXCEPT !.hash = h]
  <2>1. /\ request[u].phase = "inserted" /\ job' = [job EXCEPT ![j] = new]
        /\ request' = [request EXCEPT ![u] = NoRequest]
        /\ UNCHANGED <<text, artifact, row, withdrawn, view, run, process>>
    BY <1>5 DEF Enqueue
  <2>2. /\ j \in Analyses /\ j \in Jobs /\ Exists(j) /\ row[j].batch = 0 /\ job[j].status = "absent"
        /\ \A v \in Requests \ {u} : request[v].phase = "inserted" => request[v].analysis # j
        /\ h \in Revisions
    BY <1>1, <2>1 DEF IInv, Inserted, Rows, Jobs
  <2> HIDE DEF h
  <2>3. one \in Job /\ one.status = "pending" /\ one.attempts = 0
    BY <1>4 DEF Job
  <2> HIDE DEF one
  <2>4. new \in Job /\ new.status = "pending" /\ new.attempts \in Nat
    BY <2>2, <2>3 DEF Job
  <2> HIDE DEF new
  <2> QED BY <2>1, <2>2, <2>4, EnqueueKeeps
<1>6. ASSUME NEW b \in Batches, EnqueueBatch(u, b)
      PROVE  IInv'
  <2> DEFINE new == [job[b] EXCEPT !.status = "pending"]
  <2>1. b \in Jobs /\ b \notin Analyses /\ job[b] \in Job
    BY <1>1, Ids DEF Jobs
  <2>2. new \in Job /\ new.status = "pending" /\ new.attempts \in Nat
    BY <2>1 DEF Job
  <2>3. /\ job[b].status = "absent" /\ job' = [job EXCEPT ![b] = new]
        /\ request' = [request EXCEPT ![u] = NoRequest]
        /\ UNCHANGED <<text, artifact, row, withdrawn, view, run, process>>
    BY <1>6 DEF EnqueueBatch
  <2> HIDE DEF new
  <2> QED BY <2>1, <2>2, <2>3, EnqueueKeeps
<1> QED BY <1>2, <1>3, <1>5, <1>6

-----------------------------------------------------------------------------
(* A new row *)

\* Nothing refers to an analysis that is not there yet.
LEMMA FreeFacts ==
  ASSUME IInv, Free # {}
  PROVE  LET n == Min(Free) IN
         /\ n \in Analyses /\ ~Exists(n) /\ n # 0 /\ n \notin withdrawn /\ job[n].status = "absent"
         /\ \A k \in Consumers : /\ run[k].analysis # n /\ run[k].job # n
                                 /\ \A c \in Chapters : run[k].seen[c] # n
         /\ \A c \in Chapters : current[c] # n /\ roster[c] # n
         /\ \A u \in Requests : request[u].phase = "inserted" => request[u].analysis # n
<1> DEFINE n == Min(Free)
<1>1. n \in Free
  BY LeastOf, Ids DEF Free
<1> HIDE DEF n
<1>2. n \in Analyses /\ n # 0 /\ ~Exists(n) /\ ~Shown(n)
  BY <1>1, Ids DEF Free, Exists, Shown
<1>3. n \notin withdrawn /\ job[n].status = "absent"
  BY <1>2 DEF IInv, Rows
<1>4. \A k \in Consumers : run[k].analysis # n /\ run[k].job # n
  BY <1>2, RunFacts DEF OfSingle
<1>5. \A k \in Consumers : \A c \in Chapters : run[k].seen[c] # n
  BY <1>2, RunFacts DEF Harmless
<1>6. \A c \in Chapters : current[c] # n /\ roster[c] # n
  BY <1>2 DEF IInv, ShowsNothingElse
<1>7. \A u \in Requests : request[u].phase = "inserted" => request[u].analysis # n
  BY <1>2 DEF IInv, Inserted
<1> QED BY <1>2, <1>3, <1>4, <1>5, <1>6, <1>7 DEF n

\* A queued row is put there, and only who put it refers to it.
NewRow(n, new) ==
  /\ n \in Analyses /\ ~Exists(n) /\ n \notin withdrawn /\ job[n].status = "absent"
  /\ new \in Row /\ new.status = "queued" /\ new.chapter \in Chapters
  /\ row' = [row EXCEPT ![n] = new]
  /\ UNCHANGED <<text, artifact, job, withdrawn, current, roster, up, crashes, errors, acts>>

LEMMA NewRowFacts ==
  ASSUME IInv, NEW n, NEW new, NewRow(n, new)
  PROVE  /\ row' \in [Analyses -> Row] /\ row'[n] = new
         /\ \A a \in Analyses : a # n => row'[a] = row[a]
         /\ \A a \in Analyses : Exists(a) => a # n /\ Exists(a)'
         /\ \A a \in Analyses : Shown(a) => a # n /\ Shown(a)'
         /\ Rows' /\ Stopped' /\ ShowsNothingElse'
<1>1. /\ row' \in [Analyses -> Row] /\ row'[n] = new
      /\ \A a \in Analyses : a # n => row'[a] = row[a]
  BY DEF NewRow, IInv, TypeOK
<1>2. \A a \in Analyses : Exists(a) => a # n /\ Exists(a)'
  BY <1>1 DEF NewRow, Exists
<1>3. \A a \in Analyses : Shown(a) => a # n /\ Shown(a)'
  BY <1>1 DEF NewRow, Exists, Shown
<1>4. Rows'
  <2>1. UNCHANGED <<job, withdrawn>> /\ job[n].status = "absent" /\ new.status = "queued"
        /\ new.chapter \in Chapters /\ n \in Analyses /\ n \notin withdrawn
    BY DEF NewRow
  <2> QED BY <1>1, <1>2, <2>1 DEF IInv, Rows, Exists
<1>5. Stopped'
  BY <1>1 DEF NewRow, IInv, Stopped, TypeOK
<1>6. ShowsNothingElse'
  BY <1>3 DEF NewRow, IInv, ShowsNothingElse, TypeOK
<1> QED BY <1>1, <1>2, <1>3, <1>4, <1>5, <1>6

\* A consumer that had nothing to do with it has still nothing to do with it.
LEMMA OthersKeep ==
  ASSUME IInv, NEW n, NEW new, NewRow(n, new), NEW l \in Consumers, run'[l] = run[l],
         run[l].analysis # n, run[l].job # n
  PROVE  /\ run'[l].job = 0 => run'[l] = Idle
         /\ OfSingle(run[l])' /\ OfBatch(run[l])' /\ Harmless(run[l])'
<1>1. /\ OfSingle(run[l]) /\ OfBatch(run[l]) /\ run[l].analysis \in Analyses \cup {0}
      /\ \A c \in Chapters : run[l].seen[c] \in Analyses \cup {0}
      /\ Harmless(run[l]) /\ (run[l].job = 0 => run[l] = Idle)
      /\ run[l].job = 0 \/ run[l].job \in Analyses \/ run[l].job \in Batches
      /\ UNCHANGED <<job, withdrawn>>
  BY RunFacts DEF NewRow
<1>2. \A a \in Analyses : /\ a # n => row'[a] = row[a]
                          /\ Exists(a) => Exists(a)'
                          /\ Shown(a) => Shown(a)'
  BY NewRowFacts
<1>3. \A c \in Chapters : run[l].seen[c] # 0 =>
        /\ run[l].seen[c] \notin withdrawn
        /\ row'[run[l].seen[c]].status \in {"ready", "failed"}
  BY <1>1, <1>2 DEF Harmless, Shown
<1>4. OfSingle(run[l])' /\ OfBatch(run[l])'
  BY <1>1, <1>2 DEF OfSingle, OfBatch, Exists
<1>5. Harmless(run[l])'
  <2>1. CASE run[l].analysis \in Analyses
    <3>1. row'[run[l].analysis] = row[run[l].analysis]
      BY <1>2, <2>1
    <3> QED BY <1>1, <1>3, <3>1 DEF Harmless, Shown, IsActive, Left
  <2>2. CASE run[l].analysis = 0
    <3>1. run[l].phase \notin Working \cup Showing
      BY <1>1, <2>2, Ids, IdleFacts DEF OfSingle, OfBatch, Working, Showing
    <3>2. 0 \notin withdrawn
      BY Ids DEF IInv, TypeOK
    <3> QED BY <1>1, <1>3, <2>2, <3>1, <3>2 DEF Harmless, Shown, IsActive, Left, Working
  <2> QED BY <1>1, <2>1, <2>2
<1> QED BY <1>1, <1>4, <1>5

LEMMA InsertKeeps ==
  ASSUME IInv, NEW u \in Requests, Insert(u)
  PROVE  IInv'
<1> DEFINE n == Min(Free)
           new == [status |-> "queued", error |-> "", chapter |-> request[u].chapter,
                   hash |-> request[u].hash, batch |-> 0, past |-> {}]
           asked == [[request[u] EXCEPT !.phase = "inserted"] EXCEPT !.analysis = n]
<1>1. /\ request[u].phase = "checked" /\ Free # {} /\ request[u] \in Request
      /\ row' = [row EXCEPT ![n] = new] /\ request' = [request EXCEPT ![u] = asked]
      /\ UNCHANGED <<text, artifact, job, withdrawn, current, roster, run, up, crashes, errors, acts>>
      /\ request \in [Requests -> Request]
  BY DEF Insert, view, process, IInv, TypeOK
<1>2. /\ n \in Analyses /\ ~Exists(n) /\ n # 0 /\ n \notin withdrawn /\ job[n].status = "absent"
      /\ \A k \in Consumers : run[k].analysis # n /\ run[k].job # n
      /\ \A v \in Requests : request[v].phase = "inserted" => request[v].analysis # n
  BY <1>1, FreeFacts
<1> HIDE DEF n
<1>3. request[u].chapter \in Chapters /\ up
  BY <1>1 DEF IInv, Inserted, Down
<1>4. new \in Row /\ new.status = "queued" /\ new.chapter = request[u].chapter /\ new.batch = 0
  BY <1>1, <1>3, PhaseNames DEF Row, Active, Request
<1> HIDE DEF new
<1>5. NewRow(n, new)
  BY <1>1, <1>2, <1>3, <1>4 DEF NewRow
<1>6. /\ row' \in [Analyses -> Row] /\ row'[n] = new
      /\ \A a \in Analyses : a # n => row'[a] = row[a]
      /\ \A a \in Analyses : Exists(a) => a # n /\ Exists(a)'
      /\ Rows' /\ Stopped' /\ ShowsNothingElse'
  BY <1>5, NewRowFacts
<1>7. /\ asked \in Request /\ asked.phase = "inserted" /\ asked.analysis = n
      /\ asked.chapter = request[u].chapter
  BY <1>1, <1>2 DEF Request
<1> HIDE DEF asked
<1>8. /\ request' \in [Requests -> Request] /\ request'[u] = asked
      /\ \A v \in Requests \ {u} : request'[v] = request[v]
  BY <1>1, <1>7
<1>9. TypeOK'
  BY <1>1, <1>6, <1>8 DEF IInv, TypeOK
<1>10. Inserted'
  <2> SUFFICES ASSUME NEW v \in Requests
               PROVE  /\ request'[v].phase = "checked" => request'[v].chapter \in Chapters
                      /\ request'[v].phase = "inserted" =>
                           LET a == request'[v].analysis IN
                           /\ a \in Analyses /\ row'[a].status # "absent" /\ row'[a].batch = 0
                           /\ job[a].status = "absent"
                           /\ request'[v].chapter = row'[a].chapter
                           /\ \A w \in Requests :
                                request'[w].phase = "inserted" /\ request'[w].analysis = a => w = v
    BY <1>1 DEF Inserted, Exists
  <2>1. CASE v = u
    BY <1>2, <1>4, <1>6, <1>7, <1>8, <2>1
  <2>2. CASE v # u
    <3>1. request'[v] = request[v]
      BY <1>8, <2>2
    <3>2. request[v].phase = "checked" => request[v].chapter \in Chapters
      BY DEF IInv, Inserted
    <3>3. ASSUME request[v].phase = "inserted"
          PROVE  LET a == request[v].analysis IN
                 /\ a \in Analyses /\ Exists(a) /\ row[a].batch = 0 /\ job[a].status = "absent"
                 /\ request[v].chapter = row[a].chapter /\ a # n
                 /\ \A w \in Requests : request[w].phase = "inserted" /\ request[w].analysis = a => w = v
      BY <1>2, <3>3 DEF IInv, Inserted
    <3>4. ASSUME request[v].phase = "inserted"
          PROVE  LET a == request[v].analysis IN
                 /\ row'[a] = row[a]
                 /\ \A w \in Requests :
                      request'[w].phase = "inserted" /\ request'[w].analysis = a => w = v
      BY <1>6, <1>7, <1>8, <3>3, <3>4
    <3> QED BY <3>1, <3>2, <3>3, <3>4 DEF Exists
  <2> QED BY <2>1, <2>2
<1>11. Held' /\ HarmlessRuns'
  <2> SUFFICES ASSUME NEW l \in Consumers
               PROVE  /\ run'[l].job = 0 => run'[l] = Idle
                      /\ OfSingle(run[l])' /\ OfBatch(run[l])' /\ Harmless(run[l])'
    BY <1>1 DEF Held, HarmlessRuns
  <2>1. run'[l] = run[l] /\ run[l].analysis # n /\ run[l].job # n
    BY <1>1, <1>2
  <2> QED BY <1>5, <2>1, OthersKeep
<1>12. Alone' /\ Down'
  BY <1>1, <1>3 DEF IInv, Alone, Down
<1>13. ChildrenEnd'
  <2> SUFFICES ASSUME NEW b \in Batches, NEW a \in Analyses, row'[a].status # "absent",
                      row'[a].batch = b, row'[a].status \in Active,
                      "unprepared" \notin row'[a].past
               PROVE  \/ \E l \in Consumers : AtWork(l, b, a)
                      \/ job[b].status = "running" /\ ~up
                      \/ job[b].status = "cancelled" /\ crashes > 0
                      \/ job[b].status = "deleted"
    BY <1>1 DEF ChildrenEnd, Children, IsActive, Left, Exists, AtWork
  <2>1. a # n
    BY <1>4, <1>6, Ids
  <2>2. a \in Children(b) /\ Left(a)
    BY <1>6, <2>1 DEF Children, Exists, IsActive, Left
  <2> QED BY <2>2 DEF IInv, ChildrenEnd
<1> QED BY <1>6, <1>9, <1>10, <1>11, <1>12, <1>13 DEF IInv

LEMMA NextChapterKeeps ==
  ASSUME IInv, NEW k \in Consumers, NextChapter(k)
  PROVE  IInv'
<1>1. /\ run[k].phase = "next" /\ run[k].job # 0 /\ run[k] \in Run /\ Harmless(run[k])
      /\ run[k].job \in Batches /\ Apart /\ Typed /\ up
  BY RunFacts DEF NextChapter, Apart, Typed, process, IInv, TypeOK, Down, OfSingle
<1>2. CASE Goto(k, "finishing") /\ UNCHANGED row
  <2>1. PhaseGoes(run[k], row[run[k].analysis], "finishing")
    BY <1>1, Ids DEF PhaseGoes, Working, Showing, Harmless, IsActive, Left
  <2> QED BY <1>1, <1>2, <2>1, PhaseNames, GotoKeeps
<1>3. CASE ~(run[k].todo = {} \/ job[run[k].job].status = "cancelled")
  <2> DEFINE n == Min(Free)
             c == Min(run[k].todo)
             new == [status |-> "queued", error |-> "", chapter |-> c,
                     hash |-> run[k].read[c], batch |-> run[k].job, past |-> {}]
             todo == run[k].todo \ {c}
             next == [run[k] EXCEPT !.phase = "starting", !.analysis = n, !.todo = todo]
  <2>0. run' = [run EXCEPT ![k] = next]
    BY <1>3 DEF NextChapter
  <2>1. /\ Free # {} /\ row' = [row EXCEPT ![n] = new] /\ run' = [run EXCEPT ![k] = next]
        /\ UNCHANGED <<text, artifact, job, withdrawn, current, roster, request, up, crashes, errors, acts>>
        /\ run \in [Consumers -> Run]
    BY <1>3, <2>0 DEF NextChapter, view, process, IInv, TypeOK
  <2>2. /\ n \in Analyses /\ ~Exists(n) /\ n # 0 /\ n \notin withdrawn /\ job[n].status = "absent"
        /\ \A l \in Consumers : run[l].analysis # n /\ run[l].job # n
        /\ \A v \in Requests : request[v].phase = "inserted" => request[v].analysis # n
    BY <2>1, FreeFacts
  <2>3. c \in Chapters
    <3>1. run[k].todo \subseteq Chapters
      BY <1>1 DEF Run
    <3> QED BY <1>3, <3>1, LeastOf, Ids
  <2> HIDE DEF n, c
  <2>4. /\ new \in Row /\ new.status = "queued" /\ new.chapter \in Chapters
        /\ new.batch = run[k].job
    <3>1. run[k].read[c] \in Revisions \cup {0}
      BY <1>1, <2>3 DEF Run
    <3> QED BY <1>1, <2>3, <3>1, PhaseNames DEF Row, Active
  <2> HIDE DEF new
  <2>5. NewRow(n, new)
    BY <2>1, <2>2, <2>4 DEF NewRow
  <2>6. /\ row' \in [Analyses -> Row] /\ row'[n] = new
        /\ \A a \in Analyses : a # n => row'[a] = row[a]
        /\ \A a \in Analyses : Exists(a) => a # n /\ Exists(a)'
        /\ \A a \in Analyses : Shown(a) => a # n /\ Shown(a)'
        /\ Rows' /\ Stopped' /\ ShowsNothingElse'
    BY <2>5, NewRowFacts
  <2>7. /\ next \in Run /\ next.phase = "starting" /\ next.analysis = n /\ next.job = run[k].job
        /\ next.seen = run[k].seen
    <3> DEFINE one == [run[k] EXCEPT !.phase = "starting"]
               two == [one EXCEPT !.analysis = n]
    <3>1. one \in Run /\ one.phase = "starting" /\ one.job = run[k].job /\ one.seen = run[k].seen
      BY <1>1, PhaseNames DEF Run
    <3> HIDE DEF one
    <3>2. /\ two \in Run /\ two.phase = "starting" /\ two.job = run[k].job /\ two.seen = run[k].seen
          /\ two.analysis = n
      BY <2>2, <3>1 DEF Run
    <3>3. next = [two EXCEPT !.todo = todo]
      BY <1>1, <2>2, PhaseNames DEF two, one, Run
    <3>4. todo \in SUBSET Chapters
      BY <1>1 DEF Run
    <3> HIDE DEF two, next, todo
    <3> QED BY <3>2, <3>3, <3>4 DEF Run
  <2> HIDE DEF next
  <2>8. /\ run' \in [Consumers -> Run] /\ run'[k] = next
        /\ \A l \in Consumers \ {k} : run'[l] = run[l]
    BY <2>1, <2>7
  <2>9. TypeOK'
    BY <2>1, <2>6, <2>8 DEF IInv, TypeOK
  <2>10. Inserted'
    <3>1. \A v \in Requests : request[v].phase = "inserted" =>
            /\ request[v].analysis \in Analyses /\ row'[request[v].analysis] = row[request[v].analysis]
            /\ row'[request[v].analysis].status # "absent"
      BY <2>2, <2>6 DEF IInv, Inserted, Exists
    <3> QED BY <2>1, <3>1 DEF IInv, Inserted, Exists
  <2>11. ASSUME NEW l \in Consumers
         PROVE  /\ run'[l].job = 0 => run'[l] = Idle
                /\ OfSingle(run[l])' /\ OfBatch(run[l])' /\ Harmless(run[l])'
    <3>1. CASE l # k
      <4>1. run'[l] = run[l] /\ run[l].analysis # n /\ run[l].job # n
        BY <2>2, <2>8, <3>1
      <4> QED BY <2>5, <4>1, OthersKeep
    <3>2. CASE l = k
      <4>2. OfBatch(run[k])'
        <5>1. job[run[k].job].status \in {"running", "cancelled", "deleted"}
          BY <1>1, RunFacts DEF OfBatch
        <5> QED BY <2>1, <2>4, <2>6, <2>7, <2>8, <2>2, <5>1 DEF OfBatch, Exists, Working
      <4>3. \A x \in Chapters : next.seen[x] # 0 =>
              next.seen[x] \notin withdrawn /\ row'[next.seen[x]].status \in {"ready", "failed"}
        <5>1. \A x \in Chapters : next.seen[x] \in Analyses \cup {0}
                                  /\ (next.seen[x] # 0 => Shown(next.seen[x]))
          BY <1>1, <2>7 DEF Run, Harmless
        <5> QED BY <2>1, <2>6, <5>1 DEF Shown
      <4>4. Harmless(run[k])'
        BY <2>1, <2>2, <2>4, <2>6, <2>7, <2>8, <4>3 DEF Harmless, Shown, Showing
      <4>5. OfSingle(run[k])' /\ (run'[k].job = 0 => run'[k] = Idle)
        BY <1>1, <2>7, <2>8, Ids DEF OfSingle
      <4> QED BY <3>2, <4>2, <4>4, <4>5
    <3> QED BY <3>1, <3>2
  <2>12. Held' /\ HarmlessRuns'
    BY <2>11 DEF Held, HarmlessRuns
  <2>13. Alone' /\ Down'
    <3>1. Alone'
      <4>1. \A l \in Consumers : run'[l].job = run[l].job
        BY <2>7, <2>8
      <4> QED BY <2>1, <4>1 DEF IInv, Alone
    <3>2. Down'
      BY <1>1, <2>1 DEF Down
    <3> QED BY <3>1, <3>2
  <2>14. ChildrenEnd'
    <3> SUFFICES ASSUME NEW b \in Batches, NEW a \in Analyses, row'[a].status # "absent",
                        row'[a].batch = b, row'[a].status \in Active,
                        "unprepared" \notin row'[a].past
                 PROVE  \/ \E l \in Consumers : AtWork(l, b, a)'
                        \/ job[b].status = "running" /\ ~up
                        \/ job[b].status = "cancelled" /\ crashes > 0
                        \/ job[b].status = "deleted"
      BY <2>1 DEF ChildrenEnd, Children, IsActive, Left, Exists
    <3>1. CASE a = n
      BY <2>4, <2>6, <2>7, <2>8, <3>1 DEF AtWork, Working
    <3>2. CASE a # n
      <4>1. a \in Children(b) /\ Left(a)
        BY <2>6, <3>2 DEF Children, Exists, IsActive, Left
      <4>2. \A l \in Consumers : AtWork(l, b, a) => AtWork(l, b, a)'
        BY <1>1, <2>8 DEF AtWork, Working
      <4> QED BY <4>1, <4>2 DEF IInv, ChildrenEnd
    <3> QED BY <3>1, <3>2
  <2> QED BY <2>6, <2>9, <2>10, <2>12, <2>13, <2>14 DEF IInv
<1> QED BY <1>2, <1>3 DEF NextChapter

-----------------------------------------------------------------------------
(* Analyses that are ended from outside *)

LEMMA FailedFacts ==
  ASSUME IInv, NEW S \in SUBSET Analyses, \A a \in S : IsActive(a), NEW e \in Error,
         row' = [a \in Analyses |-> IF a \in S THEN FailedRow(row[a], e) ELSE row[a]]
  PROVE  /\ row' \in [Analyses -> Row]
         /\ \A a \in Analyses : /\ row'[a].chapter = row[a].chapter /\ row'[a].batch = row[a].batch
                                /\ row'[a].hash = row[a].hash /\ row'[a].past = row[a].past
                                /\ row'[a].status # "absent" <=> row[a].status # "absent"
                                /\ a \in S => row'[a].status = "failed" /\ row'[a].error = e
                                /\ a \notin S => row'[a] = row[a]
                                /\ Shown(a) => a \notin S
<1>1. row \in [Analyses -> Row] /\ \A a \in Analyses : row[a] \in Row
  BY DEF IInv, TypeOK
<1>2. ASSUME NEW a \in S
      PROVE  /\ row'[a] = FailedRow(row[a], e) /\ row'[a] \in Row
             /\ row'[a].chapter = row[a].chapter /\ row'[a].batch = row[a].batch
             /\ row'[a].hash = row[a].hash /\ row'[a].past = row[a].past
             /\ row'[a].status = "failed" /\ row'[a].error = e
             /\ row[a].status # "absent" /\ ~Shown(a)
  <2>1. row'[a] = FailedRow(row[a], e)
    OBVIOUS
  <2>2. row[a].status # "absent" /\ ~Shown(a)
    BY DEF IsActive, Left, Active, Shown
  <2> QED BY <1>1, <2>1, <2>2 DEF FailedRow, Row
<1>3. \A a \in Analyses \ S : row'[a] = row[a]
  OBVIOUS
<1> QED BY <1>1, <1>2, <1>3

LEMMA EndKeeps ==
  ASSUME IInv, NEW S \in SUBSET Analyses, \A a \in S : IsActive(a),
         row' = [a \in Analyses |-> IF a \in S THEN FailedRow(row[a], "analysis_cancelled")
                                    ELSE row[a]],
         withdrawn' = withdrawn \cup S,
         NEW j \in Jobs, job[j].status # "absent",
         job' = [job EXCEPT ![j].status = "cancelled"],
         j \in Batches => \A a \in Children(j) : IsActive(a) => a \in S,
         UNCHANGED <<text, artifact, view, run, request, process>>
  PROVE  IInv'
<1>1. "analysis_cancelled" \in Error
  BY PhaseNames
<1>2. /\ row' \in [Analyses -> Row]
      /\ \A a \in Analyses : /\ row'[a].chapter = row[a].chapter /\ row'[a].batch = row[a].batch
                             /\ row'[a].status # "absent" <=> row[a].status # "absent"
                             /\ a \in S => row'[a].status = "failed"
                                           /\ row'[a].error = "analysis_cancelled"
                             /\ a \notin S => row'[a] = row[a]
                             /\ Shown(a) => a \notin S
  BY <1>1, FailedFacts
<1>3. UNCHANGED <<text, artifact, current, roster, run, request, up, crashes, errors, acts>>
  BY DEF view, process
<1>4. /\ job' \in [Jobs -> Job] /\ job'[j].status = "cancelled"
      /\ \A i \in Jobs : i # j => job'[i] = job[i]
      /\ \A i \in Jobs : /\ job'[i].attempts = job[i].attempts
                         /\ job'[i].status = "absent" <=> job[i].status = "absent"
  <2>1. job \in [Jobs -> Job] /\ job[j] \in Job
    BY DEF IInv, TypeOK
  <2> DEFINE new == [job[j] EXCEPT !.status = "cancelled"]
  <2>2. new \in Job /\ new.status = "cancelled" /\ new.attempts = job[j].attempts
    BY <2>1 DEF Job
  <2>3. job' = [job EXCEPT ![j] = new]
    OBVIOUS
  <2> HIDE DEF new
  <2> QED BY <2>1, <2>2, <2>3
<1>5. TypeOK'
  BY <1>2, <1>3, <1>4 DEF IInv, TypeOK
<1>6. Rows' /\ Inserted'
  <2>1. \A a \in Analyses : /\ row'[a].status # "absent" => row'[a].chapter \in Chapters
                            /\ job'[a].status # "absent" =>
                                 row'[a].status # "absent" /\ row'[a].batch = 0
                            /\ job'[a].status = "absent" => job'[a].attempts = 0
    BY <1>2, <1>4 DEF IInv, Rows, Exists, Jobs
  <2>2. \A a \in S : row[a].status # "absent"
    BY DEF IsActive, Left, Active
  <2>3. Rows'
    BY <1>2, <2>1, <2>2 DEF IInv, Rows, Exists
  <2>4. Inserted'
    BY <1>2, <1>3, <1>4 DEF IInv, Inserted, Exists, Jobs
  <2> QED BY <2>3, <2>4
<1>7. \A a \in Analyses : Shown(a) => a \notin withdrawn' /\ row'[a].status \in {"ready", "failed"}
  BY <1>2 DEF Shown
<1>8. ASSUME NEW l \in Consumers
      PROVE  /\ run'[l].job = 0 => run'[l] = Idle
             /\ OfSingle(run[l])' /\ OfBatch(run[l])' /\ Harmless(run[l])'
  <2>1. /\ OfSingle(run[l]) /\ OfBatch(run[l]) /\ Harmless(run[l])
        /\ run[l].job = 0 => run[l] = Idle
        /\ run[l].analysis \in Analyses \cup {0} /\ run'[l] = run[l]
        /\ \A c \in Chapters : run[l].seen[c] \in Analyses \cup {0}
        /\ run[l].job = 0 \/ run[l].job \in Analyses \/ run[l].job \in Batches
    BY <1>3, RunFacts
  <2>2. OfSingle(run[l])'
    BY <1>2, <1>4, <2>1 DEF OfSingle, Jobs
  <2>3. OfBatch(run[l])'
    <3>1. ASSUME run[l].job \in Batches
          PROVE  job'[run[l].job].status \in {"running", "cancelled", "deleted"}
      BY <1>4, <2>1, <3>1 DEF OfBatch, Jobs
    <3> QED BY <1>2, <2>1, <3>1 DEF OfBatch, Exists
  <2>4. \A c \in Chapters : run[l].seen[c] # 0 =>
          /\ run[l].seen[c] \notin withdrawn'
          /\ row'[run[l].seen[c]].status \in {"ready", "failed"}
    BY <1>7, <2>1 DEF Harmless
  <2>5. Harmless(run[l])'
    <3> DEFINE a == run[l].analysis
    <3>1. CASE a \in Analyses /\ a \notin S
      <4>1. row'[a] = row[a] /\ (a \in withdrawn' <=> a \in withdrawn)
        BY <1>2, <3>1
      <4> QED BY <2>1, <2>4, <4>1 DEF Harmless, Shown, IsActive, Left
    <3>2. CASE a \in Analyses /\ a \in S
      <4>1. /\ row'[a].status = "failed" /\ row'[a].error = "analysis_cancelled"
            /\ a \in withdrawn' /\ ~Shown(a)
        BY <1>2, <3>2
      <4> QED BY <2>1, <2>4, <4>1 DEF Harmless, Shown, IsActive, Left, Active
    <3>3. CASE a = 0
      <4>1. run[l].phase \notin Working \cup Showing
        BY <2>1, <3>3, Ids, IdleFacts DEF OfSingle, OfBatch, Working, Showing
      <4> QED BY <2>1, <2>4, <3>3, <4>1 DEF Harmless, Shown, IsActive, Left, Working
    <3> QED BY <2>1, <3>1, <3>2, <3>3
  <2> QED BY <2>1, <2>2, <2>3, <2>5
<1>9. Held' /\ HarmlessRuns'
  BY <1>8 DEF Held, HarmlessRuns
<1>10. Alone' /\ Down'
  <2>1. Alone'
    BY <1>3, <1>4 DEF IInv, Alone, Jobs
  <2>2. Down'
    BY <1>3 DEF IInv, Down
  <2> QED BY <2>1, <2>2
<1>11. Stopped'
  <2> SUFFICES ASSUME NEW a \in withdrawn'
               PROVE  \/ row'[a].status = "failed"
                      \/ row'[a].status = "running" /\ row'[a].batch # 0
    BY DEF Stopped
  <2>1. a \in Analyses
    BY DEF IInv, TypeOK
  <2>2. a \notin S => a \in withdrawn
    OBVIOUS
  <2> QED BY <1>2, <2>1, <2>2 DEF IInv, Stopped
<1>12. ShowsNothingElse'
  <2>1. \A c \in Chapters : current[c] \in Analyses \cup {0} /\ roster[c] \in Analyses \cup {0}
    BY DEF IInv, TypeOK
  <2> QED BY <1>3, <1>7, <2>1 DEF IInv, ShowsNothingElse, Shown
<1>13. ChildrenEnd'
  <2> SUFFICES ASSUME NEW b \in Batches, NEW a \in Analyses, row'[a].status # "absent",
                      row'[a].batch = b, row'[a].status \in Active,
                      "unprepared" \notin row'[a].past
               PROVE  \/ \E l \in Consumers : AtWork(l, b, a)
                      \/ job'[b].status = "running" /\ ~up
                      \/ job'[b].status = "cancelled" /\ crashes > 0
                      \/ job'[b].status = "deleted"
    BY <1>3 DEF ChildrenEnd, Children, IsActive, Left, Exists, AtWork
  <2>1. a \notin S /\ a \in Children(b) /\ Left(a)
    BY <1>2 DEF Children, Exists, IsActive, Left, Active
  <2>2. b # j
    BY <2>1 DEF Left
  <2>3. job'[b] = job[b]
    BY <1>4, <2>2 DEF Jobs
  <2> QED BY <2>1, <2>3 DEF IInv, ChildrenEnd
<1> QED BY <1>5, <1>6, <1>9, <1>10, <1>11, <1>12, <1>13 DEF IInv

LEMMA CancelKeeps ==
  ASSUME IInv, NEW a \in Analyses, Cancel(a)
  PROVE  IInv'
<1>1. /\ a \in Jobs /\ a \notin Batches /\ job[a].status # "absent" /\ {a} \in SUBSET Analyses
      /\ \A x \in {a} : IsActive(x)
  BY Ids DEF Cancel, Cancellable, Live, Jobs
<1>2. row' = [x \in Analyses |-> IF x \in {a} THEN FailedRow(row[x], "analysis_cancelled")
                                 ELSE row[x]]
  BY DEF Cancel, IInv, TypeOK
<1>3. /\ withdrawn' = withdrawn \cup {a} /\ job' = [job EXCEPT ![a].status = "cancelled"]
      /\ UNCHANGED <<text, artifact, view, run, request, process>>
  BY DEF Cancel
<1> QED BY <1>1, <1>2, <1>3, EndKeeps

LEMMA CancelBatchKeeps ==
  ASSUME IInv, NEW b \in Batches, CancelBatch(b)
  PROVE  IInv'
<1> DEFINE S == {a \in Children(b) : IsActive(a)}
<1>1. /\ b \in Jobs /\ job[b].status # "absent" /\ S \in SUBSET Analyses
      /\ \A x \in S : IsActive(x)
      /\ b \in Batches => \A a \in Children(b) : IsActive(a) => a \in S
  BY DEF CancelBatch, Live, Jobs, Children
<1>2. /\ row' = [x \in Analyses |-> IF x \in S THEN FailedRow(row[x], "analysis_cancelled")
                                    ELSE row[x]]
      /\ withdrawn' = withdrawn \cup S /\ job' = [job EXCEPT ![b].status = "cancelled"]
      /\ UNCHANGED <<text, artifact, view, run, request, process>>
  BY DEF CancelBatch
<1> HIDE DEF S
<1> QED BY <1>1, <1>2, EndKeeps

-----------------------------------------------------------------------------
(* The process *)

LEMMA CrashKeeps ==
  ASSUME IInv, Crash
  PROVE  IInv'
<1>1. /\ up' = FALSE /\ crashes' = crashes + 1 /\ crashes \in Nat
      /\ UNCHANGED <<text, artifact, row, job, withdrawn, current, roster, errors, acts>>
      /\ \A k \in Consumers : run'[k] = Idle
      /\ \A u \in Requests : request'[u] = NoRequest
      /\ run' \in [Consumers -> Run] /\ request' \in [Requests -> Request]
      /\ NoRequest.phase = "idle"
  <2>1. NoRequest \in Request /\ NoRequest.phase = "idle"
    BY DEF NoRequest, Request
  <2> QED BY <2>1, IdleFacts DEF Crash, tables, view, IInv, TypeOK
<1>2. TypeOK'
  <2>1. crashes' \in Nat /\ up' \in BOOLEAN
    <3>1. up' \in BOOLEAN
      BY DEF Crash
    <3>2. crashes' = crashes + 1 /\ crashes \in Nat
      BY <1>1
    <3> QED BY <3>1, <3>2
  <2> QED BY <1>1, <2>1 DEF IInv, TypeOK
<1>3. Rows' /\ Inserted' /\ Stopped' /\ ShowsNothingElse'
  BY <1>1 DEF IInv, Rows, Inserted, Stopped, ShowsNothingElse, Exists, Shown
<1>4. Held' /\ HarmlessRuns' /\ Alone' /\ Down'
  <2>1. \A k \in Consumers : /\ run'[k].job = 0 /\ run'[k] = Idle
                             /\ OfSingle(run[k])' /\ OfBatch(run[k])' /\ Harmless(run[k])'
    <3> SUFFICES ASSUME NEW k \in Consumers
                 PROVE  /\ run'[k].job = 0 /\ run'[k] = Idle
                        /\ OfSingle(run[k])' /\ OfBatch(run[k])' /\ Harmless(run[k])'
      OBVIOUS
    <3>1. run'[k] = Idle /\ run'[k].job = 0 /\ run'[k].phase = "idle"
          /\ \A c \in Chapters : run'[k].seen[c] = 0
      BY <1>1, IdleFacts
    <3> QED BY <3>1, Ids DEF OfSingle, OfBatch, Harmless, Showing
  <2> QED BY <1>1, <2>1 DEF Held, HarmlessRuns, Alone, Down
<1>5. ChildrenEnd'
  <2> SUFFICES ASSUME NEW b \in Batches, NEW a \in Children(b), Left(a)
               PROVE  \/ job[b].status = "running"
                      \/ job[b].status = "cancelled" /\ crashes + 1 > 0
                      \/ job[b].status = "deleted"
    BY <1>1 DEF ChildrenEnd, Children, IsActive, Left, Exists
  <2>1. job[b].status \in {"running", "cancelled", "deleted"}
    BY NoneLeft
  <2> QED BY <1>1, <2>1
<1> QED BY <1>2, <1>3, <1>4, <1>5 DEF IInv

LEMMA RestartKeeps ==
  ASSUME IInv, Restart
  PROVE  IInv'
<1> DEFINE orphaned == {a \in Analyses : job[a].status = "running" /\ row[a].status = "running"}
           books == {b \in Batches : job[b].status = "running"}
           lost == orphaned \cup UNION {LostRows(b) : b \in books}
           left == {a \in Analyses : job[a].status = "running"} \ orphaned
<1>1. /\ ~up /\ up' = TRUE
      /\ row' = [a \in Analyses |-> IF a \in lost THEN FailedRow(row[a], "stale_job_claim")
                                    ELSE row[a]]
      /\ UNCHANGED <<text, artifact, current, roster, run, request, crashes, errors, acts, withdrawn>>
  BY DEF Restart, view
<1>2. PICK expired \in SUBSET left :
        job' = [j \in Jobs |->
          IF j \in orphaned \cup books THEN [job[j] EXCEPT !.status = "failed"]
          ELSE IF j \in expired
          THEN [job[j] EXCEPT !.status =
                 IF job[j].attempts < MaxAttempts THEN "pending" ELSE "failed"]
          ELSE job[j]]
  BY DEF Restart
<1>3. /\ lost \in SUBSET Analyses /\ \A a \in lost : IsActive(a)
  BY DEF LostRows, Children, IsActive, Left, Active
<1>4. \A b \in Batches : job[b].status = "running" => \A a \in Children(b) : IsActive(a) => a \in lost
  BY DEF LostRows
<1>5. /\ job' \in [Jobs -> Job]
      /\ \A j \in Jobs : /\ job'[j].attempts = job[j].attempts
                         /\ job'[j].status = "absent" <=> job[j].status = "absent"
      /\ \A b \in Batches : IF job[b].status = "running" THEN job'[b].status = "failed"
                            ELSE job'[b] = job[b]
  <2>1. \A j \in Jobs : job[j] \in Job
    BY DEF IInv, TypeOK
  <2>2. ASSUME NEW j \in Jobs
        PROVE  /\ job'[j] \in Job /\ job'[j].attempts = job[j].attempts
               /\ job'[j].status = "absent" <=> job[j].status = "absent"
               /\ j \in Batches => IF job[j].status = "running" THEN job'[j].status = "failed"
                                   ELSE job'[j] = job[j]
    <3>1. CASE j \in orphaned \cup books
      <4>1. job'[j] = [job[j] EXCEPT !.status = "failed"] /\ job[j].status = "running"
        BY <1>2, <3>1
      <4> QED BY <2>1, <4>1 DEF Job
    <3>2. CASE j \notin orphaned \cup books /\ j \in expired
      <4> DEFINE s == IF job[j].attempts < MaxAttempts THEN "pending" ELSE "failed"
      <4>1. job'[j] = [job[j] EXCEPT !.status = s] /\ job[j].status = "running" /\ j \notin Batches
        BY <1>2, <3>2, Ids
      <4>2. s \in {"pending", "failed"}
        OBVIOUS
      <4> HIDE DEF s
      <4> QED BY <2>1, <4>1, <4>2 DEF Job
    <3>3. CASE j \notin orphaned \cup books /\ j \notin expired
      <4>1. job'[j] = job[j] /\ (j \in Batches => job[j].status # "running")
        BY <1>2, <3>3
      <4> QED BY <2>1, <4>1
    <3> QED BY <3>1, <3>2, <3>3
  <2>3. job' = [j \in Jobs |-> job'[j]]
    BY <1>2
  <2> HIDE DEF orphaned, books, left
  <2> QED BY <2>2, <2>3 DEF Jobs
<1> HIDE DEF lost, orphaned, books, left
<1>6. "stale_job_claim" \in Error
  BY PhaseNames
<1>7. /\ row' \in [Analyses -> Row]
      /\ \A a \in Analyses : /\ row'[a].chapter = row[a].chapter /\ row'[a].batch = row[a].batch
                             /\ row'[a].status # "absent" <=> row[a].status # "absent"
                             /\ a \in lost => row'[a].status = "failed"
                                              /\ row'[a].error = "stale_job_claim"
                             /\ a \notin lost => row'[a] = row[a]
                             /\ Shown(a) => a \notin lost
  BY <1>1, <1>3, <1>6, FailedFacts
<1>8. TypeOK'
  BY <1>1, <1>5, <1>7 DEF IInv, TypeOK
<1>9. Rows' /\ Inserted'
  <2>1. Rows'
    <3>1. \A a \in Analyses : /\ row'[a].status # "absent" => row'[a].chapter \in Chapters
                              /\ job'[a].status # "absent" =>
                                   row'[a].status # "absent" /\ row'[a].batch = 0
                              /\ job'[a].status = "absent" => job'[a].attempts = 0
      BY <1>5, <1>7 DEF IInv, Rows, Exists, Jobs
    <3> QED BY <1>1, <1>7, <3>1 DEF IInv, Rows, Exists
  <2>2. Inserted'
    BY <1>1 DEF IInv, Inserted, Down
  <2> QED BY <2>1, <2>2
<1>10. Held' /\ HarmlessRuns' /\ Alone' /\ Down'
  <2>1. ASSUME NEW k \in Consumers
        PROVE  /\ run'[k].job = 0 /\ run'[k] = Idle
               /\ OfSingle(run[k])' /\ OfBatch(run[k])' /\ Harmless(run[k])'
    <3>1. run'[k] = Idle /\ run'[k].job = 0 /\ run'[k].phase = "idle"
          /\ \A c \in Chapters : run'[k].seen[c] = 0
      BY <1>1, RunFacts, IdleFacts DEF IInv, Down
    <3> QED BY <3>1, Ids DEF OfSingle, OfBatch, Harmless, Showing
  <2> QED BY <1>1, <2>1 DEF Held, HarmlessRuns, Alone, Down
<1>11. Stopped'
  <2>1. withdrawn \subseteq Analyses
    BY DEF IInv, TypeOK
  <2> QED BY <1>1, <1>7, <2>1 DEF IInv, Stopped
<1>12. ShowsNothingElse'
  <2>1. \A c \in Chapters : current[c] \in Analyses \cup {0} /\ roster[c] \in Analyses \cup {0}
    BY DEF IInv, TypeOK
  <2> QED BY <1>1, <1>7, <2>1 DEF IInv, ShowsNothingElse, Shown
<1>13. ChildrenEnd'
  <2> SUFFICES ASSUME NEW b \in Batches, NEW a \in Analyses, row'[a].status # "absent",
                      row'[a].batch = b, row'[a].status \in Active,
                      "unprepared" \notin row'[a].past
               PROVE  \/ job'[b].status = "cancelled" /\ crashes > 0
                      \/ job'[b].status = "deleted"
    BY <1>1 DEF ChildrenEnd, Children, IsActive, Left, Exists
  <2>1. a \notin lost /\ a \in Children(b) /\ Left(a)
    BY <1>7 DEF Children, Exists, IsActive, Left, Active
  <2>2. job[b].status # "running" /\ job'[b] = job[b]
    BY <1>4, <1>5, <2>1 DEF Left
  <2>3. \A k \in Consumers : ~AtWork(k, b, a)
    BY <1>1, Ids DEF AtWork, IInv, Down
  <2> QED BY <2>1, <2>2, <2>3 DEF IInv, ChildrenEnd
<1> QED BY <1>8, <1>9, <1>10, <1>11, <1>12, <1>13 DEF IInv

-----------------------------------------------------------------------------
LEMMA InitHolds == Init => IInv
<1> SUFFICES ASSUME Init PROVE IInv
  OBVIOUS
<1>1. TypeOK
  BY IdleFacts, Ids DEF Init, TypeOK, NoRow, Row, NoJob, Job, NoRequest, Request, Error
<1>2. Rows /\ Inserted /\ Down /\ Stopped /\ ShowsNothingElse
  BY IdleFacts, Ids DEF Init, Rows, Inserted, Down, Stopped, ShowsNothingElse, Exists, NoRow, NoJob,
     NoRequest, Jobs
<1>3. Held /\ HarmlessRuns /\ Alone
  <2>1. \A k \in Consumers : /\ run[k] = Idle /\ run[k].job = 0 /\ run[k].phase = "idle"
                             /\ \A c \in Chapters : run[k].seen[c] = 0
    BY IdleFacts DEF Init
  <2> QED BY <2>1, Ids DEF Held, HarmlessRuns, Alone, OfSingle, OfBatch, Harmless, Showing
<1>4. ChildrenEnd
  BY DEF Init, ChildrenEnd, Children, Exists, NoRow
<1> QED BY <1>1, <1>2, <1>3, <1>4 DEF IInv

LEMMA StutterHolds == IInv /\ UNCHANGED vars => IInv'
<1> SUFFICES ASSUME IInv, UNCHANGED vars PROVE IInv'
  OBVIOUS
<1>1. UNCHANGED <<text, row, artifact, job, current, roster, run, request, up, crashes, errors, acts,
                  withdrawn>>
  BY DEF vars
<1> QED BY <1>1 DEF IInv, TypeOK, Rows, Inserted, Held, Alone, Down, Stopped, HarmlessRuns,
        ShowsNothingElse, ChildrenEnd, Exists, OfSingle, OfBatch, Harmless, Shown, IsActive, Left, Children,
        AtWork

LEMMA NextHolds == IInv /\ [Next]_vars => IInv'
<1> SUFFICES ASSUME IInv, [Next]_vars PROVE IInv'
  OBVIOUS
<1>1. ASSUME NEW k \in Consumers, Work(k)
      PROVE  IInv'
  BY <1>1, ClaimKeeps, BeginKeeps, OpenKeeps, NextChapterKeeps, StartChildKeeps, SetUpFailsKeeps, AnalyseKeeps,
     CheckKeeps, SaveKeeps, PublishKeeps, ProjectKeeps, WriteRosterKeeps, PointKeeps, FinishKeeps,
     CatchKeeps, NoteKeeps DEF Work
<1>2. ASSUME NEW u \in Requests, Serve(u)
      PROVE  IInv'
  BY <1>2, ServeKeeps, InsertKeeps DEF Serve
<1>3. ASSUME NEW a \in Analyses, Cancel(a)
      PROVE  IInv'
  BY <1>3, CancelKeeps
<1>4. ASSUME NEW b \in Batches, CancelBatch(b) \/ DeleteJob(b)
      PROVE  IInv'
  BY <1>4, CancelBatchKeeps, DeleteJobKeeps
<1>5. ASSUME NEW j \in Jobs, CancelJob(j) \/ RetryJob(j)
      PROVE  IInv'
  BY <1>5, CancelJobKeeps, RetryJobKeeps
<1>6. ASSUME NEW c \in Chapters, Edit(c)
      PROVE  IInv'
  BY <1>6, EditKeeps
<1>7. CASE Crash \/ Restart
  BY <1>7, CrashKeeps, RestartKeeps
<1>8. CASE UNCHANGED vars
  BY <1>8, StutterHolds
<1> QED BY <1>1, <1>2, <1>3, <1>4, <1>5, <1>6, <1>7, <1>8 DEF Next

LEMMA Inductive == Spec => []IInv
BY InitHolds, NextHolds, PTL DEF Spec

\* Every variable keeps its type, whatever the consumers, the requests and the
\* crashes do: the tables of AnalysisLifecycle are never written a value outside
\* them.
THEOREM TypeCorrect == Spec => []TypeOK
<1>1. IInv => TypeOK
  BY DEF IInv
<1> QED BY <1>1, Inductive, PTL

\* An analysis its author has cancelled never becomes ready and is shown by
\* neither the chapter nor the roster, at whatever step of execute_analysis its
\* worker was when the cancellation came, for any number of consumers.
THEOREM CancellationHolds == Spec => []CancelledHasNoEffect
<1>1. IInv => CancelledHasNoEffect
  <2> SUFFICES ASSUME IInv, NEW a \in withdrawn
               PROVE  /\ row[a].status # "ready"
                      /\ \A c \in Chapters : current[c] # a /\ roster[c] # a
    BY DEF CancelledHasNoEffect
  <2>1. row[a].status # "ready"
    BY DEF IInv, Stopped
  <2>2. a # 0
    BY Ids DEF IInv, TypeOK
  <2> QED BY <2>1, <2>2 DEF IInv, ShowsNothingElse, Shown
<1> QED BY <1>1, Inductive, PTL

\* A job over the whole book that has ended, and that nobody works on, leaves no
\* analysis of a chapter active but one whose set-up failed: neither a failure nor
\* a cancellation between two chapters nor a crash nor a recovery forgets one (but
\* for a crash after a cancellation).
THEOREM EndedBooksAreSettled == Spec => []EndedBookIsSettled
<1>1. IInv => EndedBookIsSettled
  <2> SUFFICES ASSUME IInv, NEW b \in Batches,
                      job[b].status \in {"success", "failed", "cancelled"},
                      \A k \in Consumers : run[k].job # b,
                      job[b].status = "cancelled" => crashes = 0,
                      NEW a \in Children(b), IsActive(a)
               PROVE  "unprepared" \in row[a].past
    BY DEF EndedBookIsSettled
  <2>1. \A k \in Consumers : ~AtWork(k, b, a)
    BY DEF AtWork
  <2> QED BY <2>1 DEF IInv, ChildrenEnd, Left
<1> QED BY <1>1, Inductive, PTL

-----------------------------------------------------------------------------
(* What an analysis is made from, and what a success leaves *)

First(a) == job[a].attempts <= 1
Closed(a) == row[a].status \in {"ready", "failed"}
Restored(a) == "restored" \in row[a].past
Outrun(a) == "outrun" \in row[a].past

\* What holds of an analysis whoever works on it.
OfAnalysis(a) ==
  /\ artifact[a] # 0 => Exists(a) /\ (artifact[a] = row[a].hash \/ Restored(a))
  /\ row[a].status = "ready" =>
       /\ First(a) => artifact[a] # 0
       /\ row[a].batch = 0 => job[a].attempts >= 1
  /\ job[a].status = "success" =>
       /\ Closed(a) \/ Outrun(a)
       /\ First(a) => row[a].status = "ready" \/ Outrun(a)

\* What its consumer has read, what it has written and what it may still write.
Before == Working \cup {"claimed", "opening"}
Reads(k) ==
  LET r == run[k]
      a == run[k].analysis
      c == row[run[k].analysis].chapter
  IN
  /\ r.job \in Batches /\ r.phase \in Working => row[a].hash = r.read[c]
  /\ r.job \in Analyses /\ r.phase \in {"analysing", "checking", "saving"} =>
       /\ r.read[c] # 0
       /\ r.read[c] = row[a].hash \/ Restored(a) \/ text[c] # row[a].hash
Makes(k) ==
  LET r == run[k]
      a == run[k].analysis
  IN
  /\ a # 0 /\ First(a) =>
       /\ r.phase \in Before => row[a].status # "ready"
       /\ r.phase = "publishing" => artifact[a] # 0
       /\ r.job \in Analyses =>
            /\ job[a].status # "success"
            /\ r.phase \in Showing => row[a].status = "ready"
            /\ r.phase = "finishing" => row[a].status = "ready" \/ Outrun(a)
  /\ r.job \in Analyses /\ r.phase = "finishing" => Closed(a) \/ Outrun(a)

SInv == /\ \A a \in Analyses : OfAnalysis(a)
        /\ \A k \in Consumers : Reads(k) /\ Makes(k)

LEMMA Attempts ==
  ASSUME TypeOK, NEW a \in Analyses
  PROVE  job[a].attempts \in Nat
<1>1. job[a] \in Job
  BY DEF TypeOK, Jobs
<1> QED BY <1>1 DEF Job

LEMMA NextAttempts ==
  ASSUME TypeOK', NEW a \in Analyses
  PROVE  job'[a].attempts \in Nat
<1>1. job'[a] \in Job
  BY DEF TypeOK, Jobs
<1> QED BY <1>1 DEF Job

\* What every step keeps of a row, and of a job.
SameRow(a) ==
  /\ row'[a].chapter = row[a].chapter /\ row'[a].hash = row[a].hash
  /\ row'[a].batch = row[a].batch /\ row[a].past \subseteq row'[a].past
  /\ (Exists(a)' <=> Exists(a)) /\ (row[a].batch = 0 /\ Closed(a) => Closed(a)')
MoreAttempts(a) == job[a].attempts <= job'[a].attempts
SameResult(a) == (row'[a].status = "ready" <=> row[a].status = "ready") /\ artifact'[a] = artifact[a]

LEMMA AttemptsStay ==
  ASSUME IInv, NEW a \in Analyses, job' = job
  PROVE  MoreAttempts(a)
BY Attempts DEF IInv, MoreAttempts

\* An analysis whose result is left alone, and whose job succeeds only with one.
LEMMA ResultStays ==
  ASSUME IInv, IInv', NEW a \in Analyses, OfAnalysis(a), SameRow(a), SameResult(a),
         MoreAttempts(a),
         job'[a].status = "success" =>
           \/ job[a].status = "success"
           \/ /\ Exists(a) /\ row[a].batch = 0 /\ (Closed(a) \/ Outrun(a))
              /\ job'[a].attempts <= 1 => row[a].status = "ready" \/ Outrun(a)
  PROVE  OfAnalysis(a)'
<1>1. job[a].attempts \in Nat /\ job'[a].attempts \in Nat
  BY Attempts, NextAttempts DEF IInv
<1>2. (First(a)' => First(a)) /\ (Restored(a) => Restored(a)') /\ (Outrun(a) => Outrun(a)')
  BY <1>1 DEF First, MoreAttempts, SameRow, Restored, Outrun
<1>3. job[a].status = "success" => Exists(a) /\ row[a].batch = 0
  BY DEF IInv, Rows
<1>4. artifact'[a] # 0 => Exists(a)' /\ (artifact'[a] = row'[a].hash \/ Restored(a)')
  BY <1>2 DEF OfAnalysis, SameRow, SameResult
<1>5. row'[a].status = "ready" =>
        /\ First(a)' => artifact'[a] # 0
        /\ row'[a].batch = 0 => job'[a].attempts >= 1
  BY <1>1, <1>2 DEF OfAnalysis, SameRow, SameResult, MoreAttempts
<1>6. ASSUME job'[a].status = "success"
      PROVE  /\ Closed(a)' \/ Outrun(a)'
             /\ First(a)' => row'[a].status = "ready" \/ Outrun(a)'
  <2>1. /\ row[a].batch = 0 /\ (Closed(a) \/ Outrun(a))
        /\ First(a)' => row[a].status = "ready" \/ Outrun(a)
    BY <1>2, <1>3, <1>6 DEF OfAnalysis, First
  <2>2. Closed(a) => Closed(a)'
    BY <2>1 DEF SameRow
  <2> QED BY <1>2, <2>1, <2>2 DEF SameResult
<1> QED BY <1>4, <1>5, <1>6 DEF OfAnalysis

\* The text of an analysis comes back while its consumer has read another one.
Back(l) ==
  LET a == run[l].analysis
      c == row[run[l].analysis].chapter
  IN
  text'[c] = row[a].hash /\ text[c] # row[a].hash /\ run[l].read[c] \notin {0, row[a].hash}

\* A consumer that does not move.
LEMMA ConsumerStays ==
  ASSUME IInv, IInv', NEW l \in Consumers, run'[l] = run[l], Reads(l), Makes(l),
         LET a == run[l].analysis IN
         a \in Analyses =>
           /\ SameRow(a) /\ MoreAttempts(a) /\ (Back(l) => Restored(a)')
           /\ job'[a].attempts <= 1 =>
                SameResult(a) /\ (run[l].job \in Analyses => job'[a].status # "success")
  PROVE  Reads(l)' /\ Makes(l)'
<1> DEFINE a == run[l].analysis
<1>0. a \in Analyses \cup {0} /\ (a \in Analyses => row[a].chapter \in Chapters)
  BY RunFacts
<1>1. ASSUME a = 0
      PROVE  Reads(l)' /\ Makes(l)'
  <2>1. run[l].phase \notin Working \/ run[l].job = 0
    BY <1>1, RunFacts, Ids DEF OfBatch, OfSingle
  <2>2. run[l].job \notin Analyses
    BY <1>1, RunFacts, Ids DEF OfSingle
  <2> QED BY <1>1, <2>1, <2>2, Ids DEF Reads, Makes
<1>2. ASSUME a \in Analyses
      PROVE  Reads(l)' /\ Makes(l)'
  <2>1. /\ SameRow(a) /\ MoreAttempts(a) /\ (Back(l) => Restored(a)')
        /\ job'[a].attempts <= 1 =>
             SameResult(a) /\ (run[l].job \in Analyses => job'[a].status # "success")
    BY <1>2
  <2>2. job[a].attempts \in Nat /\ job'[a].attempts \in Nat
    BY <1>2, Attempts, NextAttempts DEF IInv
  <2>3. (Restored(a) => Restored(a)') /\ (Outrun(a) => Outrun(a)')
    BY <2>1 DEF SameRow, Restored, Outrun
  <2>4. Reads(l)'
    <3> DEFINE c == row[a].chapter
    <3>1. /\ run'[l] = run[l] /\ row'[a].chapter = c /\ row'[a].hash = row[a].hash
      BY <2>1 DEF SameRow
    <3>2. run[l].job \in Batches /\ run[l].phase \in Working => row[a].hash = run[l].read[c]
      BY DEF Reads
    <3>3. ASSUME run[l].job \in Analyses, run[l].phase \in {"analysing", "checking", "saving"}
          PROVE  /\ run[l].read[c] # 0
                 /\ run[l].read[c] = row[a].hash \/ Restored(a)' \/ text'[c] # row[a].hash
      <4>1. /\ run[l].read[c] # 0
            /\ run[l].read[c] = row[a].hash \/ Restored(a) \/ text[c] # row[a].hash
        BY <3>3 DEF Reads
      <4> QED BY <2>1, <2>3, <4>1 DEF Back
    <3> QED BY <3>1, <3>2, <3>3 DEF Reads
  <2>5. First(a)' => First(a) /\ SameResult(a)
    BY <2>1, <2>2 DEF First, MoreAttempts
  <2>6. run[l].job \in Analyses => row[a].batch = 0
    BY <1>2, RunFacts, Ids
  <2>7. Makes(l)'
    BY <2>1, <2>3, <2>5, <2>6 DEF Makes, SameResult, SameRow, First
  <2> QED BY <2>4, <2>7
<1> QED BY <1>0, <1>1, <1>2

-----------------------------------------------------------------------------
(* A consumer works on its analysis *)

\* Whoever else is at the analysis claimed its job in another attempt.
LEMMA NotFirst ==
  ASSUME IInv, NEW k \in Consumers, NEW l \in Consumers, k # l,
         run[l].analysis = run[k].analysis, run[k].analysis \in Analyses
  PROVE  ~First(run[k].analysis)
<1>1. run[k].job = run[k].analysis /\ run[l].job = run[k].job /\ run[k].job # 0
  BY SharedFacts, Ids
<1> QED BY <1>1 DEF IInv, Alone, First

LEMMA WorkServes ==
  ASSUME IInv, IInv', SInv, NEW k \in Consumers, NEW a, a = run[k].analysis,
         UNCHANGED <<text, job>>,
         \A x \in Analyses : x # a => row'[x] = row[x] /\ artifact'[x] = artifact[x],
         a # 0 => SameRow(a) /\ OfAnalysis(a)',
         \A l \in Consumers : l # k => run'[l] = run[l],
         Reads(k)', Makes(k)'
  PROVE  SInv'
<1>1. \A x \in Analyses : MoreAttempts(x)
  BY Attempts DEF IInv, MoreAttempts
<1>2. \A x \in Analyses : x # a => SameRow(x) /\ SameResult(x)
  BY DEF SameRow, SameResult, Exists, Closed
<1>3. ASSUME NEW x \in Analyses PROVE OfAnalysis(x)'
  <2>1. CASE x = a
    BY <2>1, Ids
  <2>2. CASE x # a
    <3>1. OfAnalysis(x) /\ job'[x] = job[x]
      BY DEF SInv
    <3> QED BY <1>1, <1>2, <2>2, <3>1, ResultStays
  <2> QED BY <2>1, <2>2
<1>4. ASSUME NEW l \in Consumers, l # k
      PROVE  Reads(l)' /\ Makes(l)'
  <2>1. run'[l] = run[l] /\ Reads(l) /\ Makes(l)
    BY <1>4 DEF SInv
  <2> DEFINE x == run[l].analysis
  <2>2. ASSUME x \in Analyses
        PROVE  /\ SameRow(x) /\ MoreAttempts(x) /\ ~Back(l)
               /\ job'[x].attempts <= 1 =>
                    SameResult(x) /\ (run[l].job \in Analyses => job'[x].status # "success")
    <3>1. SameRow(x) /\ MoreAttempts(x) /\ ~Back(l)
      BY <1>1, <1>2, <2>2, Ids DEF Back
    <3>2. job'[x] = job[x]
      OBVIOUS
    <3>3. job[x].attempts <= 1 => x # a
      BY <1>4, <2>2, NotFirst DEF First
    <3>4. job[x].attempts <= 1 /\ run[l].job \in Analyses => job[x].status # "success"
      BY <2>1, <2>2, Ids DEF Makes, First
    <3> QED BY <1>2, <2>2, <3>1, <3>2, <3>3, <3>4
  <2> QED BY <1>1, <2>1, <2>2, ConsumerStays
<1>5. \A l \in Consumers : Reads(l)' /\ Makes(l)'
  BY <1>4
<1> QED BY <1>3, <1>5 DEF SInv

\* It writes nothing.
LEMMA MoveServes ==
  ASSUME IInv, IInv', SInv, NEW k \in Consumers, UNCHANGED <<text, job, row, artifact>>,
         \A l \in Consumers : l # k => run'[l] = run[l],
         Reads(k)', Makes(k)'
  PROVE  SInv'
<1> SUFFICES ASSUME NEW a, a = run[k].analysis PROVE SInv'
  OBVIOUS
<1>1. ASSUME a # 0 PROVE SameRow(a) /\ OfAnalysis(a)'
  <2>1. a \in Analyses
    BY <1>1, RunFacts
  <2>2. SameRow(a) /\ SameResult(a) /\ OfAnalysis(a) /\ job'[a] = job[a]
    BY <2>1 DEF SInv, SameRow, SameResult, Exists, Closed
  <2>3. MoreAttempts(a)
    BY <2>1, Attempts DEF IInv, MoreAttempts
  <2> QED BY <2>1, <2>2, <2>3, ResultStays
<1> QED BY <1>1, WorkServes

\* It has done with its job.
LEMMA RestReads ==
  ASSUME NEW k \in Consumers, run'[k] = Idle
  PROVE  Reads(k)' /\ Makes(k)'
BY IdleFacts, Ids DEF Reads, Makes

LEMMA FailedSame ==
  ASSUME NEW a \in Analyses, row[a] \in Row, Exists(a), NEW e, row'[a] = FailedRow(row[a], e)
  PROVE  SameRow(a) /\ row'[a].status = "failed"
<1>1. LET f == FailedRow(row[a], e) IN
      /\ f.chapter = row[a].chapter /\ f.hash = row[a].hash /\ f.batch = row[a].batch
      /\ f.past = row[a].past /\ f.status = "failed"
  BY DEF FailedRow, Row
<1> QED BY <1>1 DEF SameRow, Exists, Closed

\* It fails the row.
LEMMA FailServes ==
  ASSUME IInv, IInv', SInv, NEW k \in Consumers, NEW a, a = run[k].analysis, a # 0, NEW e,
         UNCHANGED <<text, job>>,
         row' = [row EXCEPT ![a] = FailedRow(@, e)],
         artifact' = artifact \/ artifact' = [artifact EXCEPT ![a] = 0],
         \A l \in Consumers : l # k => run'[l] = run[l],
         Reads(k)', Makes(k)'
  PROVE  SInv'
<1>1. /\ a \in Analyses /\ row[a] \in Row /\ Exists(a) /\ row \in [Analyses -> Row]
      /\ artifact \in [Analyses -> Revisions \cup {0}]
      /\ run[k].job \in Analyses \/ run[k].job \in Batches
      /\ row[a].batch = (IF run[k].job \in Batches THEN run[k].job ELSE 0)
  BY RunFacts, IdleFacts DEF IInv, TypeOK
<1>2. row'[a] = FailedRow(row[a], e) /\ \A x \in Analyses : x # a => row'[x] = row[x]
  BY <1>1
<1>3. SameRow(a) /\ row'[a].status = "failed"
  BY <1>1, <1>2, FailedSame
<1>4. artifact'[a] \in {artifact[a], 0} /\ \A x \in Analyses : x # a => artifact'[x] = artifact[x]
  BY <1>1
<1>5. job[a].status = "success" => ~First(a)
  <2>1. CASE run[k].job \in Analyses
    BY <2>1 DEF SInv, Makes
  <2>2. CASE run[k].job \in Batches
    <3>1. row[a].batch # 0
      BY <1>1, <2>2, Ids
    <3> QED BY <1>1, <3>1 DEF IInv, Rows
  <2> QED BY <1>1, <2>1, <2>2
<1>6. OfAnalysis(a)'
  <2>1. OfAnalysis(a)
    BY <1>1 DEF SInv
  <2>2. artifact'[a] # 0 => Exists(a)' /\ (artifact'[a] = row'[a].hash \/ Restored(a)')
    BY <1>3, <1>4, <2>1 DEF OfAnalysis, SameRow, Restored
  <2>3. ~(job'[a].status = "success" /\ First(a)')
    BY <1>5 DEF First
  <2> QED BY <1>3, <2>2, <2>3 DEF OfAnalysis, Closed
<1> QED BY <1>2, <1>3, <1>4, <1>6, WorkServes

\* Where it goes, with what it has read.
Turns(k, phase) ==
  /\ run'[k].phase = phase
  /\ run'[k].job = run[k].job /\ run'[k].analysis = run[k].analysis /\ run'[k].read = run[k].read
  /\ \A l \in Consumers : l # k => run'[l] = run[l]

LEMMA GotoTurns ==
  ASSUME IInv, NEW k \in Consumers, NEW phase, Goto(k, phase)
  PROVE  Turns(k, phase)
<1>1. run[k] \in Run /\ run \in [Consumers -> Run]
  BY DEF IInv, TypeOK
<1> DEFINE next == [run[k] EXCEPT !.phase = phase]
<1>2. run'[k] = next /\ \A l \in Consumers : l # k => run'[l] = run[l]
  BY <1>1 DEF Goto
<1>3. next.phase = phase /\ next.job = run[k].job /\ next.analysis = run[k].analysis
      /\ next.read = run[k].read
  BY <1>1 DEF Run
<1> QED BY <1>2, <1>3 DEF Turns

LEMMA RestTurns ==
  ASSUME IInv, NEW k \in Consumers, Rest(k)
  PROVE  /\ Reads(k)' /\ Makes(k)'
         /\ \A l \in Consumers : l # k => run'[l] = run[l]
<1>1. run'[k] = Idle /\ \A l \in Consumers : l # k => run'[l] = run[l]
  BY DEF Rest, IInv, TypeOK
<1> QED BY <1>1, RestReads

\* The row of the consumer stays about the same text.
LEMMA TurnReads ==
  ASSUME IInv, NEW k \in Consumers, NEW a, a = run[k].analysis, NEW phase, Turns(k, phase),
         text' = text, Reads(k), a # 0 => SameRow(a),
         run[k].job \in Batches => run[k].phase # "claimed",
         phase \in Working /\ run[k].job \in Batches => run[k].phase \in Working,
         phase \in {"analysing", "checking", "saving"} /\ run[k].job \in Analyses =>
           run[k].phase \in {"analysing", "checking", "saving"}
  PROVE  Reads(k)'
<1>1. run[k].job \in Batches /\ run[k].phase \in Working => a # 0
  BY RunFacts DEF OfBatch
<1>2. run[k].job \in Analyses => a # 0
  BY RunFacts, Ids DEF OfSingle
<1>3. Restored(a) /\ a # 0 => Restored(a)'
  BY DEF Restored, SameRow
<1> QED BY <1>1, <1>2, <1>3 DEF Turns, Reads, SameRow

\* It raises, having at most removed a file that is not the one of a first
\* attempt.
LEMMA RaiseServes ==
  ASSUME IInv, IInv', SInv, NEW k \in Consumers, NEW a, a = run[k].analysis, a # 0,
         NEW e, Raise(k, e), UNCHANGED <<text, job>>,
         \/ artifact' = artifact
         \/ artifact' = [artifact EXCEPT ![a] = 0] /\ (First(a) => row[a].status # "ready")
  PROVE  SInv'
<1>1. /\ a \in Analyses /\ row[a] \in Row /\ Exists(a) /\ row \in [Analyses -> Row]
      /\ artifact \in [Analyses -> Revisions \cup {0}] /\ run[k] \in Run /\ run \in [Consumers -> Run]
      /\ run[k].job \in Analyses \/ run[k].job \in Batches
      /\ run[k].job \in Batches => run[k].phase # "claimed"
      /\ Reads(k) /\ Makes(k) /\ OfAnalysis(a)
  BY RunFacts, IdleFacts DEF IInv, TypeOK, SInv, OfBatch
<1>2. CASE IsBatch(k)
  <2> DEFINE phase == IF e = "analysis_cancelled" THEN "finishing" ELSE "next"
             f == IF e \in Error THEN e ELSE "failed"
  <2>1. row' = [row EXCEPT ![a] = FailedRow(@, f)] /\ Goto(k, phase) /\ phase \notin Working
        /\ phase \notin Before
    BY <1>2 DEF Raise, Working, Before
  <2> HIDE DEF phase, f
  <2>2. Turns(k, phase) /\ run[k].job \in Batches /\ run[k].job \notin Analyses
    BY <1>2, <2>1, GotoTurns, Ids DEF IsBatch
  <2>3. SameRow(a)
    <3>1. row'[a] = FailedRow(row[a], f)
      BY <1>1, <2>1
    <3> QED BY <1>1, <3>1, FailedSame
  <2>4. Reads(k)'
    BY <1>1, <2>1, <2>2, <2>3, TurnReads
  <2>5. Makes(k)'
    BY <2>1, <2>2 DEF Makes, Turns, Before, Working
  <2> QED BY <1>1, <2>1, <2>2, <2>4, <2>5, FailServes DEF Turns
<1>3. CASE ~IsBatch(k)
  <2> DEFINE next == [run[k] EXCEPT !.phase = "caught", !.error = e]
  <2>1. row' = row /\ run' = [run EXCEPT ![k] = next]
    BY <1>3 DEF Raise
  <2>2. next.phase = "caught" /\ next.job = run[k].job /\ next.analysis = run[k].analysis
        /\ next.read = run[k].read
    BY <1>1 DEF Run
  <2>3. run'[k] = next /\ \A l \in Consumers : l # k => run'[l] = run[l]
    BY <1>1, <2>1
  <2> HIDE DEF next
  <2>4. Turns(k, "caught") /\ run[k].job \in Analyses
    BY <1>1, <1>3, <2>2, <2>3 DEF Turns, IsBatch
  <2>5. Reads(k)'
    BY <2>4, Ids DEF Reads, Turns
  <2>6. Makes(k)'
    BY <1>1, <2>4 DEF Makes, Turns, Before, Working, Showing, First
  <2>7. SameRow(a) /\ \A x \in Analyses : x # a => artifact'[x] = artifact[x]
    BY <1>1, <2>1 DEF SameRow, Exists, Closed
  <2>8. OfAnalysis(a)'
    <3>1. CASE artifact' = artifact
      <4>1. MoreAttempts(a) /\ SameResult(a)
        BY <1>1, <2>1, <3>1, Attempts DEF IInv, MoreAttempts, SameResult
      <4> QED BY <1>1, <2>7, <4>1, ResultStays
    <3>2. CASE artifact' = [artifact EXCEPT ![a] = 0] /\ (First(a) => row[a].status # "ready")
      <4>1. artifact'[a] = 0
        BY <1>1, <3>2
      <4> QED BY <1>1, <2>1, <3>2, <4>1 DEF OfAnalysis, First, Exists, Closed, Outrun
    <3> QED BY <3>1, <3>2
  <2> QED BY <2>1, <2>4, <2>5, <2>6, <2>7, <2>8, WorkServes DEF Turns
<1> QED BY <1>2, <1>3

\* The source has changed.
LEMMA RejectServes ==
  ASSUME IInv, IInv', SInv, NEW k \in Consumers, NEW a, a = run[k].analysis, a # 0,
         row' = [row EXCEPT ![a] = FailedRow(@, "source_changed")],
         Goto(k, IF IsBatch(k) THEN "next" ELSE "rejected"),
         UNCHANGED <<text, job, artifact>>
  PROVE  SInv'
<1>1. /\ a \in Analyses /\ row[a] \in Row /\ Exists(a) /\ row \in [Analyses -> Row]
      /\ run[k].job \in Analyses \/ run[k].job \in Batches
      /\ run[k].job \in Batches => run[k].phase # "claimed"
      /\ Reads(k) /\ Makes(k)
  BY RunFacts, IdleFacts DEF IInv, TypeOK, SInv, OfBatch
<1> DEFINE phase == IF IsBatch(k) THEN "next" ELSE "rejected"
<1>2. Turns(k, phase) /\ phase \in {"next", "rejected"}
  BY GotoTurns
<1> HIDE DEF phase
<1>3. SameRow(a)
  <2>1. row'[a] = FailedRow(row[a], "source_changed")
    BY <1>1
  <2> QED BY <1>1, <2>1, FailedSame
<1>4. Reads(k)'
  BY <1>1, <1>2, <1>3, TurnReads DEF Working
<1>5. Makes(k)'
  BY <1>1, <1>2 DEF Makes, Turns, Before, Working, Showing, First
<1> QED BY <1>1, <1>2, <1>4, <1>5, FailServes DEF Turns

\* What a consumer at work knows of its analysis.
LEMMA AtWorkServes ==
  ASSUME IInv, SInv, NEW k \in Consumers, NEW a, a = run[k].analysis,
         run[k].phase \in Working \cup Showing \cup {"opening", "noting_retry", "noting_failure"}
  PROVE  /\ a \in Analyses /\ a # 0 /\ row[a] \in Row /\ Exists(a) /\ row[a].chapter \in Chapters
         /\ run[k].job \in Analyses \/ run[k].job \in Batches
         /\ IsBatch(k) <=> run[k].job \in Batches
         /\ run[k].job \in Batches => run[k].job \notin Analyses /\ row[a].batch # 0
         /\ run[k].job \in Analyses =>
              run[k].job \notin Batches /\ row[a].batch = 0 /\ job[a].attempts >= 1
         /\ Reads(k) /\ Makes(k) /\ OfAnalysis(a)
         /\ row \in [Analyses -> Row] /\ artifact \in [Analyses -> Revisions \cup {0}]
         /\ run[k] \in Run /\ run \in [Consumers -> Run]
<1>1. run[k].phase = "opening" => run[k].job \in Analyses
  BY RunFacts, IdleFacts DEF OfBatch, Working, Showing
<1>2. run[k].job # 0
  BY RunFacts DEF Working, Showing
<1>3. a \in Analyses
  <2>1. CASE run[k].phase = "opening"
    BY <1>1, <2>1, RunFacts DEF OfSingle
  <2>2. CASE run[k].phase # "opening"
    BY <2>2, AtAnalysis
  <2> QED BY <2>1, <2>2
<1>4. run[k].job \in Batches => row[a].batch # 0
  BY <1>3, RunFacts, Ids
<1>5. run[k].job \in Analyses => row[a].batch = 0 /\ job[a].attempts >= 1
  BY <1>3, RunFacts, Ids DEF OfSingle
<1>6. Reads(k) /\ Makes(k) /\ OfAnalysis(a)
  BY <1>3 DEF SInv
<1>7. row \in [Analyses -> Row] /\ artifact \in [Analyses -> Revisions \cup {0}]
      /\ run[k] \in Run /\ run \in [Consumers -> Run]
  BY DEF IInv, TypeOK
<1> QED BY <1>2, <1>3, <1>4, <1>5, <1>6, <1>7, RunFacts, Ids DEF IsBatch

LEMMA BeginServes ==
  ASSUME IInv, IInv', SInv, NEW k \in Consumers, Begin(k)
  PROVE  SInv'
<1>1. /\ run[k].phase = "claimed" /\ UNCHANGED <<text, job, request, row, artifact>>
      /\ run[k] \in Run /\ run \in [Consumers -> Run] /\ Reads(k) /\ Makes(k)
      /\ run[k].job \in Analyses \/ run[k].job \in Batches
      /\ run[k].job \in Batches => run[k].analysis = 0
  BY RunFacts DEF Begin, tables, IInv, TypeOK, SInv, OfBatch
<1>2. CASE Rest(k)
  BY <1>1, <1>2, RestTurns, MoveServes
<1>3. CASE ~IsBatch(k) /\ Goto(k, "opening")
  <2>1. Turns(k, "opening") /\ run[k].job \in Analyses /\ run[k].job \notin Batches
    BY <1>1, <1>3, GotoTurns DEF IsBatch
  <2>2. Reads(k)'
    BY <2>1 DEF Reads, Turns
  <2>3. Makes(k)'
    BY <1>1, <2>1 DEF Makes, Turns, Before, Working, Showing, First
  <2> QED BY <1>1, <2>1, <2>2, <2>3, MoveServes DEF Turns
<1>4. CASE /\ IsBatch(k)
           /\ run' = [run EXCEPT ![k].phase = "next", ![k].read = text, ![k].todo = Chapters]
  <2> DEFINE next == [run[k] EXCEPT !.phase = "next", !.read = text, !.todo = Chapters]
  <2>1. run'[k] = next /\ \A l \in Consumers : l # k => run'[l] = run[l]
    BY <1>1, <1>4
  <2>2. /\ next.phase = "next" /\ next.job = run[k].job /\ next.analysis = run[k].analysis
        /\ next.read = text
    BY <1>1 DEF Run
  <2> HIDE DEF next
  <2>4. Reads(k)'
    BY <1>1, <1>4, <2>1, <2>2, Ids DEF Reads, IsBatch, Working
  <2>5. Makes(k)'
    BY <1>1, <1>4, <2>1, <2>2, Ids DEF Makes, IsBatch
  <2> QED BY <1>1, <2>1, <2>4, <2>5, MoveServes
<1> QED BY <1>2, <1>3, <1>4 DEF Begin

LEMMA OpenServes ==
  ASSUME IInv, IInv', SInv, NEW k \in Consumers, Open(k)
  PROVE  SInv'
<1> SUFFICES ASSUME NEW a, a = run[k].analysis PROVE SInv'
  OBVIOUS
<1>1. /\ run[k].phase = "opening" /\ UNCHANGED <<text, job, request, artifact>>
  BY DEF Open
<1>2. /\ a \in Analyses /\ a # 0 /\ row[a] \in Row /\ Exists(a) /\ row[a].chapter \in Chapters
      /\ run[k].job \in Analyses \/ run[k].job \in Batches
      /\ run[k].job \in Analyses => run[k].job \notin Batches
      /\ Reads(k) /\ Makes(k) /\ OfAnalysis(a)
      /\ row \in [Analyses -> Row] /\ run[k] \in Run /\ run \in [Consumers -> Run]
  BY <1>1, AtWorkServes
<1>3. CASE Raise(k, "analysis_cancelled")
  BY <1>1, <1>2, <1>3, RaiseServes
<1>4. CASE /\ row' = [row EXCEPT ![run[k].analysis].status = IF @ = "queued" THEN "running" ELSE @]
           /\ run' = [run EXCEPT ![k].phase = "analysing", ![k].read[Chapter(k)] = text[Chapter(k)]]
  <2> DEFINE c == row[a].chapter
             s == IF row[a].status = "queued" THEN "running" ELSE row[a].status
             new == [row[a] EXCEPT !.status = s]
             reads == [run[k].read EXCEPT ![c] = text[c]]
             next == [run[k] EXCEPT !.phase = "analysing", !.read = reads]
  <2>1. row'[a] = new /\ \A x \in Analyses : x # a => row'[x] = row[x]
    BY <1>2, <1>4
  <2>2. run' = [run EXCEPT ![k] = next]
    BY <1>2, <1>4 DEF Chapter, Analysis
  <2>3. run[k].read \in [Chapters -> Revisions \cup {0}]
    BY <1>2 DEF Run
  <2>4. reads[c] = text[c]
    BY <1>2, <2>3
  <2> HIDE DEF reads
  <2>5. /\ next.phase = "analysing" /\ next.job = run[k].job /\ next.analysis = run[k].analysis
        /\ next.read = reads
    BY <1>2 DEF Run
  <2>6. run'[k] = next /\ \A l \in Consumers : l # k => run'[l] = run[l]
    BY <1>2, <2>2
  <2> HIDE DEF next
  <2>7. /\ new.chapter = row[a].chapter /\ new.hash = row[a].hash /\ new.batch = row[a].batch
        /\ new.status = s /\ new.past = row[a].past
    BY <1>2 DEF Row
  <2>8. (s = "ready" <=> row[a].status = "ready") /\ s # "absent" /\ (Closed(a) => s = row[a].status)
    BY <1>2 DEF Exists, Closed
  <2> HIDE DEF new, s
  <2>9. SameRow(a) /\ SameResult(a)
    BY <1>1, <1>2, <2>1, <2>7, <2>8 DEF SameRow, SameResult, Exists, Closed
  <2>10. OfAnalysis(a)'
    <3>1. MoreAttempts(a) /\ job'[a] = job[a]
      BY <1>1, <1>2, Attempts DEF MoreAttempts, IInv
    <3> QED BY <1>2, <2>9, <3>1, ResultStays
  <2>11. run[k].job \in Analyses /\ run[k].job \notin Batches
    BY <1>1, <1>2, RunFacts DEF OfBatch, Working, Showing
  <2>12. Reads(k)'
    <3>1. text[c] \in Revisions
      BY <1>2 DEF IInv, TypeOK
    <3>2. text[c] # 0
      BY <3>1, Ids
    <3> QED BY <1>1, <1>2, <2>1, <2>4, <2>5, <2>6, <2>7, <2>11, <3>2 DEF Reads
  <2>13. Makes(k)'
    BY <1>1, <1>2, <2>5, <2>6, <2>9, <2>11 DEF Makes, SameResult, Before, Showing, First
  <2> QED BY <1>1, <2>1, <2>6, <2>9, <2>10, <2>12, <2>13, WorkServes
<1> QED BY <1>3, <1>4 DEF Open

LEMMA StartChildServes ==
  ASSUME IInv, IInv', SInv, NEW k \in Consumers, StartChild(k)
  PROVE  SInv'
<1> SUFFICES ASSUME NEW a, a = run[k].analysis PROVE SInv'
  OBVIOUS
<1>1. /\ run[k].phase = "starting" /\ UNCHANGED <<text, job, request, artifact>>
      /\ row' = [row EXCEPT ![a].status = "running"] /\ Goto(k, "analysing")
  BY DEF StartChild
<1>2. /\ a \in Analyses /\ a # 0 /\ row[a] \in Row /\ Exists(a)
      /\ run[k].job \in Analyses \/ run[k].job \in Batches
      /\ run[k].job \in Batches => run[k].job \notin Analyses /\ row[a].batch # 0
      /\ Reads(k) /\ Makes(k) /\ OfAnalysis(a)
      /\ row \in [Analyses -> Row]
  BY <1>1, AtWorkServes DEF Working
<1>3. run[k].job \in Batches
  BY <1>1, <1>2, RunFacts DEF OfSingle
<1> DEFINE new == [row[a] EXCEPT !.status = "running"]
<1>4. row'[a] = new /\ \A x \in Analyses : x # a => row'[x] = row[x]
  BY <1>1, <1>2
<1>5. /\ new.chapter = row[a].chapter /\ new.hash = row[a].hash /\ new.batch = row[a].batch
      /\ new.status = "running" /\ new.past = row[a].past
  BY <1>2 DEF Row
<1> HIDE DEF new
<1>6. SameRow(a)
  BY <1>2, <1>3, <1>4, <1>5 DEF SameRow, Exists
<1>7. OfAnalysis(a)'
  <2>1. job[a].status # "success"
    BY <1>2, <1>3 DEF IInv, Rows
  <2> QED BY <1>1, <1>2, <1>4, <1>5, <1>6, <2>1 DEF OfAnalysis, SameRow, Restored
<1>8. Turns(k, "analysing")
  BY <1>1, GotoTurns
<1>9. Reads(k)'
  BY <1>1, <1>2, <1>3, <1>6, <1>8, TurnReads DEF Working
<1>10. Makes(k)'
  BY <1>2, <1>3, <1>4, <1>5, <1>8 DEF Makes, Turns, Showing
<1> QED BY <1>1, <1>4, <1>6, <1>7, <1>8, <1>9, <1>10, WorkServes DEF Turns

LEMMA SetUpFailsServes ==
  ASSUME IInv, IInv', SInv, NEW k \in Consumers, SetUpFails(k)
  PROVE  SInv'
<1> SUFFICES ASSUME NEW a, a = run[k].analysis PROVE SInv'
  OBVIOUS
<1>1. PICK e \in {"retryable", "permanent"} :
        run' = [run EXCEPT ![k].phase = "caught", ![k].error = e]
  BY DEF SetUpFails
<1>2. /\ run[k].phase \in {"opening", "next", "starting"} /\ UNCHANGED <<text, job, artifact>>
      /\ run[k] \in Run /\ run \in [Consumers -> Run] /\ Reads(k) /\ Makes(k)
      /\ run[k].job \in Analyses => run[k].job \notin Batches
  BY Ids DEF SetUpFails, IInv, TypeOK, SInv
<1> DEFINE next == [run[k] EXCEPT !.phase = "caught", !.error = e]
<1>3. run'[k] = next /\ \A l \in Consumers : l # k => run'[l] = run[l]
  BY <1>1, <1>2
<1>4. /\ next.phase = "caught" /\ next.job = run[k].job /\ next.analysis = run[k].analysis
      /\ next.read = run[k].read
  BY <1>2 DEF Run
<1> HIDE DEF next
<1>5. Reads(k)'
  BY <1>2, <1>3, <1>4 DEF Reads, Working
<1>6. CASE run[k].phase \in {"opening", "next"}
  <2>1. row' = row
    BY <1>6 DEF SetUpFails
  <2>2. run[k].job \in Analyses => a # 0
    BY RunFacts, Ids DEF OfSingle
  <2>3. Makes(k)'
    BY <1>2, <1>3, <1>4, <2>1, <2>2 DEF Makes, Before, Working, Showing, First
  <2> QED BY <1>2, <1>3, <1>5, <2>1, <2>3, MoveServes
<1>7. CASE run[k].phase = "starting"
  <2>1. /\ a \in Analyses /\ a # 0 /\ row[a] \in Row /\ Exists(a)
        /\ run[k].job \in Analyses \/ run[k].job \in Batches
        /\ run[k].job \in Batches => run[k].job \notin Analyses /\ row[a].batch # 0
        /\ OfAnalysis(a) /\ row \in [Analyses -> Row]
    BY <1>7, AtWorkServes DEF Working
  <2>2. run[k].job \in Batches
    BY <1>7, <2>1, RunFacts DEF OfSingle
  <2>3. PICK status \in {row[a].status, "running"} :
          row' = [row EXCEPT ![a] = Befallen([@ EXCEPT !.status = status], "unprepared")]
    BY <1>7 DEF SetUpFails
  <2> DEFINE started == [row[a] EXCEPT !.status = status]
             past == row[a].past \cup {"unprepared"}
             new == [started EXCEPT !.past = past]
  <2>4. row'[a] = new /\ \A x \in Analyses : x # a => row'[x] = row[x]
    <3>1. started.past = row[a].past
      BY <2>1 DEF Row
    <3> QED BY <2>1, <2>3, <3>1 DEF Befallen
  <2>5. row[a].past \subseteq past
    OBVIOUS
  <2> HIDE DEF past
  <2>6. /\ new.chapter = row[a].chapter /\ new.hash = row[a].hash /\ new.batch = row[a].batch
        /\ new.status = status /\ new.past = past
    BY <2>1 DEF Row
  <2> HIDE DEF new
  <2>7. SameRow(a)
    BY <2>1, <2>2, <2>4, <2>5, <2>6 DEF SameRow, Exists
  <2>8. job[a].status # "success" /\ job[a].attempts = 0
    BY <2>1, <2>2 DEF IInv, Rows
  <2>9. row'[a].status # "ready"
    <3>1. row[a].status # "ready"
      BY <1>2, <1>7, <2>1, <2>8 DEF Makes, First, Before, Working
    <3> QED BY <2>4, <2>6, <3>1
  <2>10. OfAnalysis(a)'
    BY <1>2, <2>1, <2>7, <2>8, <2>9 DEF OfAnalysis, SameRow, Restored
  <2>11. Makes(k)'
    BY <1>2, <1>3, <1>4, <2>2 DEF Makes, Before, Working
  <2> QED BY <1>2, <1>3, <1>5, <2>4, <2>7, <2>10, <2>11, WorkServes
<1> QED BY <1>2, <1>6, <1>7

LEMMA AnalyseServes ==
  ASSUME IInv, IInv', SInv, NEW k \in Consumers, Analyse(k)
  PROVE  SInv'
<1> SUFFICES ASSUME NEW a, a = run[k].analysis PROVE SInv'
  OBVIOUS
<1>1. run[k].phase = "analysing" /\ UNCHANGED <<text, job, request, artifact>>
  BY DEF Analyse
<1>2. /\ a # 0 /\ Reads(k) /\ Makes(k)
      /\ run[k].job \in Batches => run[k].phase # "claimed"
  BY <1>1, AtWorkServes DEF Working
<1>3. CASE Goto(k, "checking") /\ UNCHANGED row
  <2>1. Turns(k, "checking") /\ SameRow(a)
    BY <1>3, GotoTurns DEF SameRow, Exists, Closed
  <2>2. Reads(k)'
    BY <1>1, <1>2, <2>1, TurnReads DEF Working
  <2>3. Makes(k)'
    BY <1>1, <1>2, <1>3, <2>1 DEF Makes, Turns, Before, Working, Showing, First
  <2> QED BY <1>1, <1>3, <2>1, <2>2, <2>3, MoveServes DEF Turns
<1>4. CASE \E e \in {"retryable", "permanent"} : Raise(k, e)
  BY <1>1, <1>2, <1>4, RaiseServes
<1>5. CASE /\ row' = [row EXCEPT ![a] = FailedRow(@, "source_changed")]
           /\ Goto(k, IF IsBatch(k) THEN "next" ELSE "rejected")
  BY <1>1, <1>2, <1>5, RejectServes
<1> QED BY <1>3, <1>4, <1>5 DEF Analyse

LEMMA CheckServes ==
  ASSUME IInv, IInv', SInv, NEW k \in Consumers, Check(k)
  PROVE  SInv'
<1> SUFFICES ASSUME NEW a, a = run[k].analysis PROVE SInv'
  OBVIOUS
<1>1. run[k].phase = "checking" /\ UNCHANGED <<text, job, request, artifact>>
  BY DEF Check
<1>2. /\ a \in Analyses /\ a # 0 /\ row[a] \in Row /\ Exists(a)
      /\ row[a].chapter \in Chapters /\ row \in [Analyses -> Row]
      /\ Reads(k) /\ Makes(k) /\ OfAnalysis(a)
      /\ run[k].job \in Analyses \/ run[k].job \in Batches
      /\ IsBatch(k) <=> run[k].job \in Batches
      /\ run[k].job \in Analyses => run[k].job \notin Batches
  BY <1>1, AtWorkServes DEF Working
<1>3. CASE Raise(k, "analysis_cancelled") \/ Raise(k, "source_changed")
  BY <1>1, <1>2, <1>3, RaiseServes
<1>4. CASE Goto(k, "saving") /\ UNCHANGED row
  <2>1. Turns(k, "saving") /\ SameRow(a)
    BY <1>4, GotoTurns DEF SameRow, Exists, Closed
  <2>2. Reads(k)'
    BY <1>1, <1>2, <2>1, TurnReads DEF Working
  <2>3. Makes(k)'
    BY <1>1, <1>2, <1>4, <2>1 DEF Makes, Turns, Before, Working, Showing, First
  <2> QED BY <1>1, <1>4, <2>1, <2>2, <2>3, MoveServes DEF Turns
<1>5. CASE /\ ~IsBatch(k) /\ row' = [row EXCEPT ![a] = Befallen(@, "outrun")]
           /\ Goto(k, IF Analysis(k).status = "failed" THEN "rejected" ELSE "finishing")
  <2> DEFINE phase == IF Analysis(k).status = "failed" THEN "rejected" ELSE "finishing"
             past == row[a].past \cup {"outrun"}
             new == [row[a] EXCEPT !.past = past]
  <2>1. Turns(k, phase) /\ phase \in {"rejected", "finishing"}
    BY <1>5, GotoTurns
  <2> HIDE DEF phase
  <2>2. row'[a] = new /\ \A x \in Analyses : x # a => row'[x] = row[x]
    BY <1>2, <1>5 DEF Befallen
  <2>3. row[a].past \subseteq past /\ "outrun" \in past
    OBVIOUS
  <2> HIDE DEF past
  <2>4. /\ new.chapter = row[a].chapter /\ new.hash = row[a].hash /\ new.batch = row[a].batch
        /\ new.status = row[a].status /\ new.past = past
    BY <1>2 DEF Row
  <2> HIDE DEF new
  <2>5. SameRow(a) /\ SameResult(a) /\ Outrun(a)'
    BY <1>1, <2>2, <2>3, <2>4 DEF SameRow, SameResult, Exists, Closed, Outrun
  <2>6. OfAnalysis(a)'
    <3>1. MoreAttempts(a) /\ job'[a] = job[a]
      BY <1>1, <1>2, AttemptsStay
    <3> QED BY <1>2, <2>5, <3>1, ResultStays
  <2>7. Reads(k)'
    BY <1>1, <1>2, <2>1, <2>5, TurnReads DEF Working
  <2>8. Makes(k)'
    BY <1>1, <1>2, <2>1, <2>5 DEF Makes, Turns, Before, Working, Showing, First
  <2> QED BY <1>1, <2>1, <2>2, <2>5, <2>6, <2>7, <2>8, WorkServes DEF Turns
<1> QED BY <1>3, <1>4, <1>5 DEF Check

LEMMA SaveServes ==
  ASSUME IInv, IInv', SInv, NEW k \in Consumers, Save(k)
  PROVE  SInv'
<1> SUFFICES ASSUME NEW a, a = run[k].analysis PROVE SInv'
  OBVIOUS
<1>1. run[k].phase = "saving" /\ UNCHANGED <<text, job, request>>
  BY DEF Save
<1>2. /\ a \in Analyses /\ a # 0 /\ Exists(a) /\ row[a].chapter \in Chapters
      /\ Reads(k) /\ Makes(k) /\ OfAnalysis(a)
      /\ artifact \in [Analyses -> Revisions \cup {0}] /\ run[k] \in Run
      /\ run[k].job \in Analyses \/ run[k].job \in Batches
  BY <1>1, AtWorkServes DEF Working
<1>3. CASE /\ ~SourceChanged(k) /\ UNCHANGED row
           /\ artifact' = [artifact EXCEPT ![a] = run[k].read[Chapter(k)]]
           /\ Goto(k, "publishing")
  <2> DEFINE c == row[a].chapter
  <2>1. Turns(k, "publishing") /\ SameRow(a)
    BY <1>3, GotoTurns DEF SameRow, Exists, Closed
  <2>2. text[c] = row[a].hash /\ text[c] # 0
    <3>1. text[c] = row[a].hash
      BY <1>2, <1>3 DEF SourceChanged, Chapter, Analysis
    <3>2. text[c] \in Revisions
      BY <1>2 DEF IInv, TypeOK
    <3> QED BY <3>1, <3>2, Ids
  <2>3. run[k].read[c] # 0 /\ (run[k].read[c] = row[a].hash \/ Restored(a))
    <3>1. CASE run[k].job \in Batches
      BY <1>1, <1>2, <2>2, <3>1 DEF Reads, Working
    <3>2. CASE run[k].job \in Analyses
      BY <1>1, <1>2, <2>2, <3>2 DEF Reads
    <3> QED BY <1>2, <3>1, <3>2
  <2>4. artifact'[a] = run[k].read[c] /\ \A x \in Analyses : x # a => artifact'[x] = artifact[x]
    BY <1>2, <1>3, <2>3 DEF Chapter, Analysis
  <2>5. OfAnalysis(a)'
    <3>1. row' = row /\ job' = job
      BY <1>1, <1>3
    <3> QED BY <1>2, <2>3, <2>4, <3>1 DEF OfAnalysis, First, Exists, Closed, Restored, Outrun
  <2>6. Reads(k)'
    BY <1>1, <1>2, <2>1, TurnReads DEF Working
  <2>7. Makes(k)'
    BY <1>1, <1>2, <1>3, <2>1, <2>3, <2>4 DEF Makes, Turns, Before, Working, Showing, First
  <2> QED BY <1>1, <1>3, <2>1, <2>4, <2>5, <2>6, <2>7, WorkServes DEF Turns
<1>4. CASE /\ row' = [row EXCEPT ![a] = FailedRow(@, "source_changed")] /\ UNCHANGED artifact
           /\ Goto(k, IF IsBatch(k) THEN "next" ELSE "rejected")
  BY <1>1, <1>2, <1>4, RejectServes
<1> QED BY <1>3, <1>4 DEF Save

LEMMA PublishServes ==
  ASSUME IInv, IInv', SInv, NEW k \in Consumers, Publish(k)
  PROVE  SInv'
<1> SUFFICES ASSUME NEW a, a = run[k].analysis PROVE SInv'
  OBVIOUS
<1>1. run[k].phase = "publishing" /\ UNCHANGED <<text, job, request>>
  BY DEF Publish
<1>2. /\ a \in Analyses /\ a # 0 /\ row[a] \in Row /\ Exists(a)
      /\ Reads(k) /\ Makes(k) /\ OfAnalysis(a)
      /\ run[k].job \in Analyses \/ run[k].job \in Batches
      /\ run[k].job \in Batches => run[k].job \notin Analyses /\ row[a].batch # 0
      /\ run[k].job \in Analyses => run[k].job \notin Batches /\ job[a].attempts >= 1
      /\ row \in [Analyses -> Row]
  BY <1>1, AtWorkServes DEF Working
<1>3. CASE /\ row' = [row EXCEPT ![a].status = "ready", ![a].error = ""]
           /\ Goto(k, "projecting") /\ UNCHANGED artifact
  <2> DEFINE new == [row[a] EXCEPT !.status = "ready", !.error = ""]
  <2>1. row'[a] = new /\ \A x \in Analyses : x # a => row'[x] = row[x]
    BY <1>2, <1>3
  <2>2. /\ new.chapter = row[a].chapter /\ new.hash = row[a].hash /\ new.batch = row[a].batch
        /\ new.status = "ready" /\ new.past = row[a].past
    BY <1>2 DEF Row
  <2> HIDE DEF new
  <2>3. SameRow(a)
    BY <1>2, <2>1, <2>2 DEF SameRow, Exists, Closed
  <2>4. Turns(k, "projecting")
    BY <1>3, GotoTurns
  <2>5. OfAnalysis(a)'
    <3>1. First(a) => artifact[a] # 0
      BY <1>1, <1>2 DEF Makes
    <3>2. row[a].batch = 0 => job[a].attempts >= 1
      BY <1>2
    <3> QED BY <1>1, <1>2, <1>3, <2>1, <2>2, <2>3, <3>1, <3>2
        DEF OfAnalysis, SameRow, First, Closed, Restored
  <2>6. Reads(k)'
    BY <1>1, <1>2, <2>3, <2>4, TurnReads DEF Working
  <2>7. Makes(k)'
    BY <1>1, <1>2, <2>1, <2>2, <2>4 DEF Makes, Turns, Before, Working, First
  <2> QED BY <1>1, <1>3, <2>1, <2>3, <2>4, <2>5, <2>6, <2>7, WorkServes DEF Turns
<1>4. CASE /\ artifact' = [artifact EXCEPT ![a] = 0]
           /\ \E e \in {"analysis_cancelled", "permanent"} : Raise(k, e)
  <2>1. First(a) => row[a].status # "ready"
    BY <1>1, <1>2 DEF Makes, Before, Working
  <2> QED BY <1>1, <1>2, <1>4, <2>1, RaiseServes
<1> QED BY <1>3, <1>4 DEF Publish

\* A consumer that shows its analysis turns, and its row at most loses an error.
LEMMA ShowServes ==
  ASSUME IInv, IInv', SInv, NEW k \in Consumers, NEW a, a = run[k].analysis,
         run[k].phase \in Showing, NEW phase, phase \notin Before, Turns(k, phase),
         phase \in Showing \/ phase = AfterProjection(k),
         UNCHANGED <<text, job, request, artifact>>,
         row' = row \/ row' = [row EXCEPT ![a].error = ""]
  PROVE  SInv'
<1>1. /\ a \in Analyses /\ a # 0 /\ row[a] \in Row /\ Exists(a)
      /\ Reads(k) /\ Makes(k) /\ OfAnalysis(a)
      /\ run[k].job \in Analyses \/ run[k].job \in Batches
      /\ run[k].job \in Batches => run[k].phase # "claimed"
      /\ row \in [Analyses -> Row]
      /\ run[k].job \in Analyses => Closed(a)
  <2>1. run[k].job \in Analyses => Closed(a)
    BY RunFacts DEF Harmless, Shown, Closed
  <2> QED BY <2>1, AtWorkServes DEF Showing
<1>2. /\ SameRow(a) /\ row'[a].status = row[a].status
      /\ \A x \in Analyses : x # a => row'[x] = row[x]
  <2>1. CASE row' = row
    BY <2>1 DEF SameRow, Exists, Closed
  <2>2. CASE row' = [row EXCEPT ![a].error = ""]
    <3> DEFINE new == [row[a] EXCEPT !.error = ""]
    <3>1. row'[a] = new /\ \A x \in Analyses : x # a => row'[x] = row[x]
      BY <1>1, <2>2
    <3>2. /\ new.chapter = row[a].chapter /\ new.hash = row[a].hash /\ new.batch = row[a].batch
          /\ new.status = row[a].status /\ new.past = row[a].past
      BY <1>1 DEF Row
    <3> HIDE DEF new
    <3> QED BY <3>1, <3>2 DEF SameRow, Exists, Closed
  <2> QED BY <2>1, <2>2
<1>3. OfAnalysis(a)'
  <2>1. SameResult(a) /\ job'[a] = job[a]
    BY <1>2 DEF SameResult
  <2>2. MoreAttempts(a)
    BY <1>1, AttemptsStay
  <2> QED BY <1>1, <1>2, <2>1, <2>2, ResultStays
<1>4. Reads(k)'
  BY <1>1, <1>2, TurnReads DEF Before, Working
<1>5. Makes(k)'
  BY <1>1, <1>2 DEF Makes, Turns, Before, Working, First, SameRow, Closed
<1> QED BY ZenonT(40), <1>1, <1>2, <1>3, <1>4, <1>5, WorkServes DEF Turns

LEMMA ProjectServes ==
  ASSUME IInv, IInv', SInv, NEW k \in Consumers, Project(k)
  PROVE  SInv'
<1> DEFINE phase == IF Projects(k) THEN "writing" ELSE AfterProjection(k)
           seen == IF Projects(k) THEN roster ELSE run[k].seen
           next == [run[k] EXCEPT !.phase = phase, !.seen = seen]
<1>1. /\ run[k].phase = "projecting" /\ UNCHANGED <<text, job, request, artifact, row>>
      /\ run' = [run EXCEPT ![k] = next]
      /\ run[k] \in Run /\ run \in [Consumers -> Run]
  BY DEF Project, tables, IInv, TypeOK
<1>2. /\ next.phase = phase /\ next.job = run[k].job /\ next.analysis = run[k].analysis
      /\ next.read = run[k].read
  BY <1>1 DEF Run
<1>3. run'[k] = next /\ \A l \in Consumers : l # k => run'[l] = run[l]
  BY <1>1
<1>4. phase \in {"writing", AfterProjection(k)} /\ phase \notin Before
  BY DEF AfterProjection, Before, Working
<1> HIDE DEF next, phase, seen
<1>5. Turns(k, phase)
  BY <1>2, <1>3 DEF Turns
<1> QED BY <1>1, <1>4, <1>5, ShowServes DEF Showing

LEMMA WriteRosterServes ==
  ASSUME IInv, IInv', SInv, NEW k \in Consumers, WriteRoster(k)
  PROVE  SInv'
<1> DEFINE next == [run[k] EXCEPT !.phase = "pointing", !.seen = Idle.seen]
<1>1. /\ run[k].phase = "writing" /\ UNCHANGED <<text, job, request, artifact, row>>
      /\ run' = [run EXCEPT ![k] = next]
      /\ run[k] \in Run /\ run \in [Consumers -> Run]
  BY DEF WriteRoster, tables, IInv, TypeOK
<1>2. /\ next.phase = "pointing" /\ next.job = run[k].job /\ next.analysis = run[k].analysis
      /\ next.read = run[k].read
  BY <1>1 DEF Run
<1>3. run'[k] = next /\ \A l \in Consumers : l # k => run'[l] = run[l]
  BY <1>1
<1> HIDE DEF next
<1>4. Turns(k, "pointing")
  BY <1>2, <1>3 DEF Turns
<1> QED BY <1>1, <1>4, ShowServes DEF Showing, Before, Working

LEMMA PointServes ==
  ASSUME IInv, IInv', SInv, NEW k \in Consumers, Point(k)
  PROVE  SInv'
<1>1. /\ run[k].phase = "pointing" /\ UNCHANGED <<text, job, request, artifact>>
      /\ row' = [row EXCEPT ![run[k].analysis].error = ""]
      /\ Turns(k, AfterProjection(k))
  BY GotoTurns DEF Point
<1>2. AfterProjection(k) \notin Before
  BY DEF AfterProjection, Before, Working
<1> QED BY <1>1, <1>2, ShowServes DEF Showing

LEMMA NoteServes ==
  ASSUME IInv, IInv', SInv, NEW k \in Consumers, Note(k)
  PROVE  SInv'
<1> SUFFICES ASSUME NEW a, a = run[k].analysis PROVE SInv'
  OBVIOUS
<1>1. /\ run[k].phase \in {"noting_retry", "noting_failure"}
      /\ UNCHANGED <<text, job, request, artifact>>
      /\ Reads(k)' /\ Makes(k)' /\ \A l \in Consumers : l # k => run'[l] = run[l]
  BY RestTurns DEF Note
<1>2. /\ a \in Analyses /\ a # 0 /\ row[a] \in Row /\ Exists(a) /\ OfAnalysis(a)
      /\ row \in [Analyses -> Row]
  BY <1>1, AtWorkServes
<1>3. CASE row' = [row EXCEPT ![a] = FailedRow(@, "failed")]
  BY <1>1, <1>2, <1>3, FailServes
<1>4. CASE row' = [row EXCEPT ![a].error = "retrying"]
  <2> DEFINE new == [row[a] EXCEPT !.error = "retrying"]
  <2>1. row'[a] = new /\ \A x \in Analyses : x # a => row'[x] = row[x]
    BY <1>2, <1>4
  <2>2. /\ new.chapter = row[a].chapter /\ new.hash = row[a].hash /\ new.batch = row[a].batch
        /\ new.status = row[a].status /\ new.past = row[a].past
    BY <1>2 DEF Row
  <2> HIDE DEF new
  <2>3. SameRow(a) /\ SameResult(a) /\ MoreAttempts(a) /\ job'[a] = job[a]
    BY <1>1, <1>2, <2>1, <2>2, Attempts DEF SameRow, SameResult, MoreAttempts, Exists,
       Closed, IInv
  <2>4. OfAnalysis(a)'
    BY <1>2, <2>3, ResultStays
  <2> QED BY <1>1, <2>1, <2>3, <2>4, WorkServes
<1> QED BY <1>3, <1>4 DEF Note

-----------------------------------------------------------------------------
(* The jobs change, the rows and the files do not *)

LEMMA SameRows ==
  ASSUME row' = row, artifact' = artifact, NEW a \in Analyses
  PROVE  SameRow(a) /\ SameResult(a)
BY DEF SameRow, SameResult, Exists, Closed

LEMMA JobsServes ==
  ASSUME IInv, IInv', SInv, UNCHANGED <<text, row, artifact>>,
         \A a \in Analyses : MoreAttempts(a),
         \A a \in Analyses : job'[a].status = "success" =>
           \/ job[a].status = "success"
           \/ /\ Exists(a) /\ row[a].batch = 0 /\ (Closed(a) \/ Outrun(a))
              /\ job'[a].attempts <= 1 => row[a].status = "ready" \/ Outrun(a),
         \A l \in Consumers :
           \/ Reads(l)' /\ Makes(l)'
           \/ /\ run'[l] = run[l]
              /\ run[l].job \in Analyses /\ job'[run[l].analysis].attempts <= 1 =>
                   job'[run[l].analysis].status # "success"
  PROVE  SInv'
<1>1. \A a \in Analyses : SameRow(a) /\ SameResult(a) /\ OfAnalysis(a)
  BY SameRows DEF SInv
<1>2. \A a \in Analyses : OfAnalysis(a)'
  BY <1>1, ResultStays
<1>3. ASSUME NEW l \in Consumers PROVE Reads(l)' /\ Makes(l)'
  <2>1. CASE /\ run'[l] = run[l]
             /\ run[l].job \in Analyses /\ job'[run[l].analysis].attempts <= 1 =>
                  job'[run[l].analysis].status # "success"
    <3>1. Reads(l) /\ Makes(l)
      BY DEF SInv
    <3>2. LET a == run[l].analysis IN
          a \in Analyses =>
            /\ SameRow(a) /\ MoreAttempts(a) /\ ~Back(l)
            /\ job'[a].attempts <= 1 =>
                 SameResult(a) /\ (run[l].job \in Analyses => job'[a].status # "success")
      BY <1>1, <2>1 DEF Back
    <3> QED BY <2>1, <3>1, <3>2, ConsumerStays
  <2> QED BY <2>1
<1> QED BY <1>2, <1>3 DEF SInv

\* No job succeeds.
LEMMA QuietJobs ==
  ASSUME IInv, IInv', SInv, UNCHANGED <<text, row, artifact>>,
         \A a \in Analyses : MoreAttempts(a),
         \A a \in Analyses : job'[a].status = "success" => job[a].status = "success",
         \A l \in Consumers : (Reads(l)' /\ Makes(l)') \/ run'[l] = run[l]
  PROVE  SInv'
<1>1. ASSUME NEW l \in Consumers, run[l].job \in Analyses,
             job'[run[l].analysis].attempts <= 1, job'[run[l].analysis].status = "success"
      PROVE  FALSE
  <2> SUFFICES ASSUME NEW a, a = run[l].analysis PROVE FALSE
    OBVIOUS
  <2>1. a \in Analyses /\ a # 0
    BY <1>1, RunFacts, Ids DEF OfSingle
  <2>2. job[a].attempts \in Nat /\ job'[a].attempts \in Nat /\ job[a].attempts <= job'[a].attempts
    BY <2>1, Attempts, NextAttempts DEF IInv, MoreAttempts
  <2>3. First(a) /\ job[a].status = "success"
    BY <1>1, <2>1, <2>2 DEF First
  <2> QED BY <1>1, <2>1, <2>3 DEF SInv, Makes
<1> QED BY <1>1, JobsServes

\* One job moves, to a state that is not success.
LEMMA OneJobServes ==
  ASSUME IInv, IInv', SInv, UNCHANGED <<text, row, artifact>>,
         NEW j \in Jobs, \A i \in Jobs : i # j => job'[i] = job[i],
         job'[j].attempts = job[j].attempts, job'[j].status \in {job[j].status} \cup
           {"pending", "running", "stale", "failed", "cancelled", "deleted"},
         \A l \in Consumers : (Reads(l)' /\ Makes(l)') \/ run'[l] = run[l]
  PROVE  SInv'
<1>1. \A a \in Analyses : /\ job[a].attempts \in Nat /\ a \in Jobs
                          /\ job'[a].attempts = job[a].attempts
                          /\ job'[a].status = "success" => job[a].status = "success"
  BY Attempts DEF Jobs, IInv
<1>2. \A a \in Analyses : MoreAttempts(a)
  BY <1>1 DEF MoreAttempts
<1> QED BY <1>1, <1>2, QuietJobs

LEMMA CancelJobServes ==
  ASSUME IInv, IInv', SInv, NEW j \in Jobs, CancelJob(j)
  PROVE  SInv'
<1>1. /\ UNCHANGED <<row, artifact, text, run>> /\ job \in [Jobs -> Job] /\ job[j] \in Job
  BY DEF CancelJob, view, IInv, TypeOK
<1>2. /\ \A i \in Jobs : i # j => job'[i] = job[i]
      /\ job'[j].attempts = job[j].attempts /\ job'[j].status \in {job[j].status, "cancelled"}
  BY <1>1 DEF CancelJob, Job
<1> QED BY <1>1, <1>2, OneJobServes

LEMMA RetryJobServes ==
  ASSUME IInv, IInv', SInv, NEW j \in Jobs, RetryJob(j)
  PROVE  SInv'
<1>1. /\ UNCHANGED <<row, artifact, text, run>> /\ job \in [Jobs -> Job] /\ job[j] \in Job
  BY DEF RetryJob, view, IInv, TypeOK
<1>2. /\ \A i \in Jobs : i # j => job'[i] = job[i]
      /\ job'[j].attempts = job[j].attempts /\ job'[j].status = "pending"
  BY <1>1 DEF RetryJob, Job
<1> QED BY <1>1, <1>2, OneJobServes

LEMMA DeleteJobServes ==
  ASSUME IInv, IInv', SInv, NEW b \in Batches, DeleteJob(b)
  PROVE  SInv'
<1>1. /\ UNCHANGED <<row, artifact, text, run>> /\ job \in [Jobs -> Job] /\ job[b] \in Job
      /\ b \in Jobs
  BY DEF DeleteJob, view, IInv, TypeOK, Jobs
<1>2. /\ \A i \in Jobs : i # b => job'[i] = job[i]
      /\ job'[b].attempts = job[b].attempts /\ job'[b].status = "deleted"
  BY <1>1 DEF DeleteJob, Job
<1> QED BY <1>1, <1>2, OneJobServes

\* An edit that restores a text marks the rows whose consumers have read another.
LEMMA EditServes ==
  ASSUME IInv, IInv', SInv, NEW c \in Chapters, Edit(c)
  PROVE  SInv'
<1>1. UNCHANGED <<artifact, job, run>> /\ text \in [Chapters -> Revisions] /\ row \in [Analyses -> Row]
  BY DEF Edit, IInv, TypeOK
<1>2. PICK w \in Rewrites :
        /\ text' = [text EXCEPT ![c] = w[3]]
        /\ row' = [a \in Analyses |->
             IF Restores(c, w[3], a) THEN Befallen(row[a], "restored") ELSE row[a]]
  BY DEF Edit
<1>3. ASSUME NEW a \in Analyses
      PROVE  /\ SameRow(a) /\ SameResult(a) /\ MoreAttempts(a)
             /\ Restores(c, w[3], a) => Restored(a)'
  <2> DEFINE past == row[a].past \cup {"restored"}
             new == [row[a] EXCEPT !.past = past]
  <2>1. row'[a] = IF Restores(c, w[3], a) THEN new ELSE row[a]
    BY <1>2 DEF Befallen
  <2>2. row[a].past \subseteq past /\ "restored" \in past
    OBVIOUS
  <2> HIDE DEF past
  <2>3. /\ new.chapter = row[a].chapter /\ new.hash = row[a].hash /\ new.batch = row[a].batch
        /\ new.status = row[a].status /\ new.past = past
    BY <1>1 DEF Row
  <2> HIDE DEF new
  <2>4. MoreAttempts(a)
    BY <1>1, AttemptsStay
  <2> QED BY <1>1, <2>1, <2>2, <2>3, <2>4 DEF SameRow, SameResult, Exists, Closed, Restored
<1>4. \A a \in Analyses : OfAnalysis(a)'
  BY <1>1, <1>3, ResultStays DEF SInv
<1>5. ASSUME NEW l \in Consumers
      PROVE  Reads(l)' /\ Makes(l)'
  <2> DEFINE a == run[l].analysis
  <2>1. run'[l] = run[l] /\ Reads(l) /\ Makes(l)
    BY <1>1 DEF SInv
  <2>2. ASSUME a \in Analyses
        PROVE  /\ Back(l) => Restored(a)'
               /\ job'[a].attempts <= 1 =>
                    SameResult(a) /\ (run[l].job \in Analyses => job'[a].status # "success")
    <3>1. Back(l) => Restores(c, w[3], a)
      <4>1. row[a].chapter \in Chapters
        BY <2>2, RunFacts
      <4> QED BY <1>1, <1>2, <2>2, <4>1 DEF Back, Restores
    <3>2. job'[a] = job[a]
      BY <1>1
    <3>3. job[a].attempts <= 1 /\ run[l].job \in Analyses => job[a].status # "success"
      BY <2>1, <2>2, Ids DEF Makes, First
    <3> QED BY <1>1, <1>3, <2>1, <2>2, <3>1, <3>2, <3>3
  <2> QED BY <1>3, <2>1, <2>2, ConsumerStays
<1> QED BY <1>4, <1>5 DEF SInv

-----------------------------------------------------------------------------
(* Requests *)

LEMMA AskServes ==
  ASSUME IInv, IInv', SInv, NEW u \in Requests, (\E c \in Chapters : Ask(u, c)) \/ AskBatch(u)
  PROVE  SInv'
<1>1. UNCHANGED <<row, artifact, text, run, job>>
  BY DEF Ask, AskBatch, tables
<1>2. \A a \in Analyses : MoreAttempts(a)
  BY <1>1, AttemptsStay
<1> QED BY <1>1, <1>2, QuietJobs

LEMMA EnqueueServes ==
  ASSUME IInv, IInv', SInv, NEW u \in Requests, Enqueue(u)
  PROVE  SInv'
<1> SUFFICES ASSUME NEW a, a = request[u].analysis PROVE SInv'
  OBVIOUS
<1>1. /\ UNCHANGED <<row, artifact, text, run>> /\ job \in [Jobs -> Job]
      /\ a \in Analyses /\ a \in Jobs /\ job[a].attempts = 0
  BY DEF Enqueue, view, IInv, TypeOK, Inserted, Rows, Jobs
<1> DEFINE new == [NoJob EXCEPT !.status = "pending", !.hash = text[request[u].chapter]]
<1>2. job' = [job EXCEPT ![a] = new]
  BY DEF Enqueue
<1>3. new.status = "pending" /\ new.attempts = 0
  BY DEF NoJob
<1>4. job'[a].status = "pending" /\ job'[a].attempts = job[a].attempts
      /\ \A i \in Jobs : i # a => job'[i] = job[i]
  BY <1>1, <1>2, <1>3
<1> HIDE DEF new
<1> QED BY <1>1, <1>4, OneJobServes

LEMMA EnqueueBatchServes ==
  ASSUME IInv, IInv', SInv, NEW u \in Requests, NEW b \in Batches, EnqueueBatch(u, b)
  PROVE  SInv'
<1>1. /\ UNCHANGED <<row, artifact, text, run>> /\ job \in [Jobs -> Job]
      /\ b \in Jobs /\ job[b] \in Job /\ job' = [job EXCEPT ![b].status = "pending"]
  BY DEF EnqueueBatch, view, IInv, TypeOK, Jobs
<1>2. job'[b].status = "pending" /\ job'[b].attempts = job[b].attempts
      /\ \A i \in Jobs : i # b => job'[i] = job[i]
  BY <1>1 DEF Job
<1> QED BY <1>1, <1>2, OneJobServes

-----------------------------------------------------------------------------
(* A consumer takes a job and gives it back *)

LEMMA ClaimServes ==
  ASSUME IInv, IInv', SInv, NEW k \in Consumers, Claim(k)
  PROVE  SInv'
<1>1. PICK j \in Jobs :
        /\ job[j].status = "pending"
        /\ run' = [run EXCEPT ![k] = [Idle EXCEPT !.phase = "claimed", !.job = j,
                     !.analysis = IF j \in Analyses THEN j ELSE 0]]
        /\ job'[j].status = "running"
        /\ job'[j].attempts = job[j].attempts + 1
        /\ \A i \in Jobs \ {j} : /\ job'[i].attempts = job[i].attempts
                                 /\ job'[i].status \in {job[i].status, "stale"}
  BY ZenonT(40), ClaimFacts
<1> DEFINE next == [Idle EXCEPT !.phase = "claimed", !.job = j,
                                !.analysis = IF j \in Analyses THEN j ELSE 0]
<1>2. UNCHANGED <<row, artifact, text>> /\ run \in [Consumers -> Run]
  <2>1. UNCHANGED <<row, artifact, text>>
    BY DEF Claim
  <2>2. run \in [Consumers -> Run]
    BY DEF IInv, TypeOK
  <2> QED BY <2>1, <2>2
<1>3. /\ next.phase = "claimed" /\ next.job = j
      /\ next.analysis = (IF j \in Analyses THEN j ELSE 0)
  BY IdleFacts DEF Run
<1>4. run'[k] = next /\ \A l \in Consumers : l # k => run'[l] = run[l]
  BY <1>1, <1>2
<1> HIDE DEF next
<1>5. \A a \in Analyses : a \in Jobs /\ job[a].attempts \in Nat /\ job'[a].attempts \in Nat
  BY Attempts, NextAttempts DEF IInv, Jobs
<1>6. \A a \in Analyses : MoreAttempts(a)
  <2> SUFFICES ASSUME NEW a \in Analyses PROVE job[a].attempts <= job'[a].attempts
    BY DEF MoreAttempts
  <2>1. a = j \/ job'[a].attempts = job[a].attempts
    BY <1>1, <1>5
  <2> QED BY <1>1, <1>5, <2>1
<1>7. \A a \in Analyses : job'[a].status = "success" => job[a].status = "success"
  BY <1>1, <1>5
<1>8. Reads(k)'
  BY <1>3, <1>4 DEF Reads, Working
<1>9. ASSUME j \in Analyses, First(j)'
      PROVE  row[j].status # "ready"
  <2>1. job[j].attempts = 0
    <3>1. job[j].attempts \in Nat /\ job'[j].attempts <= 1
      BY <1>5, <1>9 DEF First
    <3>2. job'[j].attempts = job[j].attempts + 1
      BY <1>1
    <3> QED BY <3>1, <3>2
  <2>2. row[j].batch = 0 /\ OfAnalysis(j)
    BY <1>1, <1>9 DEF IInv, Rows, SInv
  <2> QED BY <2>1, <2>2 DEF OfAnalysis
<1>10. Makes(k)'
  BY <1>1, <1>2, <1>3, <1>4, <1>9, Ids DEF Makes, Before, Working, Showing, First
<1> QED BY <1>2, <1>4, <1>6, <1>7, <1>8, <1>10, QuietJobs

\* finalize_generation_job, or the pending of a retry.
LEMMA FinishServes ==
  ASSUME IInv, IInv', SInv, NEW k \in Consumers, Finish(k)
  PROVE  SInv'
<1> SUFFICES ASSUME NEW j, j = run[k].job PROVE SInv'
  OBVIOUS
<1>1. PICK outcome \in {"success", "failed"} :
        /\ job' = Finalized(j, outcome)
        /\ outcome = "success" => run[k].phase = "finishing"
  BY DEF Finish
<1>2. /\ run[k].phase \in {"finishing", "rejected"}
      /\ UNCHANGED <<row, artifact, text>>
      /\ Reads(k)' /\ Makes(k)' /\ \A l \in Consumers : l # k => run'[l] = run[l]
  BY RestTurns DEF Finish, view
<1>3. j # 0 /\ run[k].phase \notin Working
  BY <1>2, RunFacts DEF Working
<1> DEFINE new == IF job[j].status = "running"
                  THEN [job[j] EXCEPT !.status = IF job[j].cancel THEN "cancelled" ELSE outcome]
                  ELSE job[j]
<1>4. job' = [job EXCEPT ![j] = new] /\ j \in Jobs /\ new.attempts = job[j].attempts
  BY <1>1, <1>3, FinalizedFacts
<1>5. new.status = "success" => job[j].status = "success" \/ outcome = "success"
  BY <1>4 DEF IInv, TypeOK, Job
<1> HIDE DEF new
<1>6. job'[j] = new /\ \A i \in Jobs : i # j => job'[i] = job[i]
  BY <1>4 DEF IInv, TypeOK
<1>7. \A a \in Analyses : a \in Jobs /\ job'[a].attempts = job[a].attempts /\ job[a].attempts \in Nat
  BY <1>4, <1>6, Attempts DEF IInv, Jobs
<1>8. \A a \in Analyses : MoreAttempts(a)
  BY <1>7 DEF MoreAttempts
<1>9. j \in Analyses => run[k].analysis = j /\ j # 0
  BY RunFacts, Ids DEF OfSingle
<1>10. \A a \in Analyses : job'[a].status = "success" =>
         \/ job[a].status = "success"
         \/ /\ Exists(a) /\ row[a].batch = 0 /\ (Closed(a) \/ Outrun(a))
            /\ job'[a].attempts <= 1 => row[a].status = "ready" \/ Outrun(a)
  <2> SUFFICES ASSUME NEW a \in Analyses, job'[a].status = "success", job[a].status # "success"
               PROVE  /\ Exists(a) /\ row[a].batch = 0 /\ (Closed(a) \/ Outrun(a))
                      /\ job'[a].attempts <= 1 => row[a].status = "ready" \/ Outrun(a)
    OBVIOUS
  <2>1. a = j /\ run[k].phase = "finishing" /\ run[k].analysis = a /\ run[k].job \in Analyses
    BY <1>1, <1>5, <1>6, <1>7, <1>9
  <2>2. Makes(k) /\ a # 0
    BY <1>9, <2>1 DEF SInv
  <2>3. /\ Closed(a) \/ Outrun(a)
        /\ job'[a].attempts <= 1 => row[a].status = "ready" \/ Outrun(a)
    BY <1>7, <2>1, <2>2 DEF Makes, First
  <2>4. Exists(a) /\ row[a].batch = 0
    BY <2>1, RunFacts, Ids
  <2> QED BY <2>3, <2>4
<1>11. \A l \in Consumers :
         \/ Reads(l)' /\ Makes(l)'
         \/ /\ run'[l] = run[l]
            /\ run[l].job \in Analyses /\ job'[run[l].analysis].attempts <= 1 =>
                 job'[run[l].analysis].status # "success"
  <2> SUFFICES ASSUME NEW l \in Consumers, l # k, run[l].job \in Analyses,
                      NEW a, a = run[l].analysis, job'[a].attempts <= 1
               PROVE  job'[a].status # "success"
    BY <1>2
  <2>1. a = run[l].job /\ a \in Analyses /\ a # 0 /\ job[a].attempts <= 1
    BY <1>7, RunFacts, Ids DEF OfSingle
  <2>2. a # j
    BY <1>3, <2>1 DEF IInv, Alone
  <2>3. job'[a] = job[a]
    BY <1>6, <1>7, <2>1, <2>2
  <2> QED BY <2>1, <2>3 DEF SInv, Makes, First
<1> QED BY <1>2, <1>8, <1>10, <1>11, JobsServes

LEMMA CatchServes ==
  ASSUME IInv, IInv', SInv, NEW k \in Consumers, Catch(k)
  PROVE  SInv'
<1> SUFFICES ASSUME NEW j, j = run[k].job PROVE SInv'
  OBVIOUS
<1>1. /\ run[k].phase = "caught" /\ UNCHANGED <<row, artifact, text>>
      /\ job \in [Jobs -> Job] /\ Reads(k) /\ Makes(k)
  BY DEF Catch, view, IInv, TypeOK, SInv
<1>2. j # 0 /\ run[k].phase \notin Working
  BY <1>1, RunFacts DEF Working
<1>3. /\ j \in Jobs /\ job[j] \in Job
      /\ ~IsBatch(k) => j \in Analyses /\ j \notin Batches /\ run[k].analysis = j
  BY <1>1, <1>2, RunFacts, Ids DEF OfSingle, IsBatch, Jobs
<1>4. /\ job'[j].attempts = job[j].attempts
      /\ job'[j].status \in {job[j].status, "cancelled", "failed", "pending"}
      /\ \A i \in Jobs : i # j => job'[i] = job[i]
  <2>1. ASSUME NEW outcome \in {"failed", "cancelled"}, job' = Finalized(j, outcome)
        PROVE  /\ job'[j].attempts = job[j].attempts
               /\ job'[j].status \in {job[j].status, "cancelled", "failed", "pending"}
               /\ \A i \in Jobs : i # j => job'[i] = job[i]
    <3> DEFINE s == IF job[j].cancel THEN "cancelled" ELSE outcome
    <3>1. s \in {"cancelled", "failed"}
      OBVIOUS
    <3>2. job' = IF job[j].status = "running" THEN [job EXCEPT ![j].status = s] ELSE job
      BY <2>1 DEF Finalized
    <3> HIDE DEF s
    <3> QED BY <1>1, <1>3, <3>1, <3>2 DEF Job
  <2>2. CASE job' = IF job[j].status = "running" THEN [job EXCEPT ![j].status = "pending"] ELSE job
    BY <1>1, <1>3, <2>2 DEF Job
  <2> QED BY <2>1, <2>2 DEF Catch
<1>5. Reads(k)' /\ Makes(k)' /\ \A l \in Consumers : l # k => run'[l] = run[l]
  <2>1. CASE Rest(k)
    BY <2>1, RestTurns
  <2>2. ASSUME NEW phase \in {"noting_retry", "noting_failure"}, ~IsBatch(k), Goto(k, phase)
        PROVE  Reads(k)' /\ Makes(k)' /\ \A l \in Consumers : l # k => run'[l] = run[l]
    <3>1. Turns(k, phase)
      BY <2>2, GotoTurns
    <3>2. Reads(k)'
      BY <1>3, <2>2, <3>1 DEF Reads, Turns
    <3>3. job'[j].attempts <= 1 => job'[j].status # "success"
      BY <1>1, <1>2, <1>3, <1>4, <2>2 DEF Makes, First
    <3>4. Makes(k)'
      BY <1>3, <2>2, <3>1, <3>3 DEF Makes, Turns, Before, Working, Showing, First
    <3> QED BY <3>1, <3>2, <3>4 DEF Turns
  <2> QED BY <2>1, <2>2 DEF Catch, Then
<1> QED BY <1>1, <1>3, <1>4, <1>5, OneJobServes

LEMMA CrashServes ==
  ASSUME IInv, IInv', SInv, Crash
  PROVE  SInv'
<1>1. UNCHANGED <<row, artifact, text, job>> /\ \A k \in Consumers : run'[k] = Idle
  BY DEF Crash, tables
<1>2. \A k \in Consumers : Reads(k)' /\ Makes(k)'
  BY <1>1, RestReads
<1>3. \A a \in Analyses : MoreAttempts(a)
  BY <1>1, AttemptsStay
<1> QED BY <1>1, <1>2, <1>3, QuietJobs

-----------------------------------------------------------------------------
(* Rows that are ended, and rows that begin *)

LEMMA EndServes ==
  ASSUME IInv, IInv', SInv, NEW S \in SUBSET Analyses, \A a \in S : IsActive(a), NEW e \in Error,
         row' = [a \in Analyses |-> IF a \in S THEN FailedRow(row[a], e) ELSE row[a]],
         UNCHANGED <<text, artifact, run>>,
         \A a \in Analyses : /\ job'[a].attempts = job[a].attempts
                             /\ job'[a].status = "success" => job[a].status = "success"
  PROVE  SInv'
<1>1. \A a \in Analyses : SameRow(a) /\ SameResult(a)
  <2> SUFFICES ASSUME NEW a \in Analyses PROVE SameRow(a) /\ SameResult(a)
    OBVIOUS
  <2>1. /\ row'[a].chapter = row[a].chapter /\ row'[a].batch = row[a].batch
        /\ row'[a].hash = row[a].hash /\ row'[a].past = row[a].past
        /\ row'[a].status # "absent" <=> row[a].status # "absent"
        /\ a \in S => row'[a].status = "failed"
        /\ a \notin S => row'[a] = row[a]
    BY FailedFacts
  <2>2. a \in S => row[a].status # "ready"
    BY DEF IsActive, Active
  <2> QED BY <2>1, <2>2 DEF SameRow, SameResult, Exists, Closed
<1>2. \A a \in Analyses : MoreAttempts(a)
  BY Attempts DEF IInv, MoreAttempts
<1>3. \A a \in Analyses : OfAnalysis(a)'
  BY <1>1, <1>2, ResultStays DEF SInv
<1>4. ASSUME NEW l \in Consumers PROVE Reads(l)' /\ Makes(l)'
  <2>1. run'[l] = run[l] /\ Reads(l) /\ Makes(l)
    BY DEF SInv
  <2>2. LET a == run[l].analysis IN
        a \in Analyses =>
          /\ SameRow(a) /\ MoreAttempts(a) /\ ~Back(l)
          /\ job'[a].attempts <= 1 =>
               SameResult(a) /\ (run[l].job \in Analyses => job'[a].status # "success")
    BY <1>1, <1>2, <2>1, Ids DEF Makes, First, Back
  <2> QED BY <1>2, <2>1, <2>2, ConsumerStays
<1> QED BY <1>3, <1>4 DEF SInv

LEMMA CancelServes ==
  ASSUME IInv, IInv', SInv, NEW a \in Analyses, Cancel(a)
  PROVE  SInv'
<1>1. /\ "analysis_cancelled" \in Error /\ {a} \in SUBSET Analyses /\ \A x \in {a} : IsActive(x)
  BY DEF Cancel, Cancellable, Error
<1>2. row' = [x \in Analyses |-> IF x \in {a} THEN FailedRow(row[x], "analysis_cancelled")
                                 ELSE row[x]]
  BY DEF Cancel, IInv, TypeOK
<1>3. /\ UNCHANGED <<text, artifact, run>> /\ job' = [job EXCEPT ![a].status = "cancelled"]
      /\ job \in [Jobs -> Job] /\ Analyses \subseteq Jobs
  BY DEF Cancel, IInv, TypeOK, Jobs
<1>4. \A x \in Analyses : /\ job'[x].attempts = job[x].attempts
                          /\ job'[x].status = "success" => job[x].status = "success"
  BY <1>3 DEF Job
<1> QED BY <1>1, <1>2, <1>3, <1>4, EndServes

LEMMA CancelBatchServes ==
  ASSUME IInv, IInv', SInv, NEW b \in Batches, CancelBatch(b)
  PROVE  SInv'
<1> DEFINE S == {a \in Children(b) : IsActive(a)}
<1>1. "analysis_cancelled" \in Error /\ S \in SUBSET Analyses /\ \A x \in S : IsActive(x)
  BY DEF Children, Error
<1>2. row' = [x \in Analyses |-> IF x \in S THEN FailedRow(row[x], "analysis_cancelled")
                                 ELSE row[x]]
  BY DEF CancelBatch
<1>3. /\ UNCHANGED <<text, artifact, run>> /\ job' = [job EXCEPT ![b].status = "cancelled"]
      /\ job \in [Jobs -> Job]
  BY DEF CancelBatch, IInv, TypeOK
<1>4. \A x \in Analyses : job'[x] = job[x]
  BY <1>3, Ids DEF Jobs
<1> HIDE DEF S
<1> QED BY <1>1, <1>2, <1>3, <1>4, EndServes

LEMMA RestartServes ==
  ASSUME IInv, IInv', SInv, Restart
  PROVE  SInv'
<1> DEFINE orphaned == {a \in Analyses : job[a].status = "running" /\ row[a].status = "running"}
           books == {b \in Batches : job[b].status = "running"}
           lost == orphaned \cup UNION {LostRows(b) : b \in books}
<1>1. /\ row' = [a \in Analyses |-> IF a \in lost THEN FailedRow(row[a], "stale_job_claim")
                                    ELSE row[a]]
      /\ UNCHANGED <<text, artifact, run>>
  BY DEF Restart
<1>2. PICK expired \in SUBSET Analyses :
        job' = [j \in Jobs |->
          IF j \in orphaned \cup books THEN [job[j] EXCEPT !.status = "failed"]
          ELSE IF j \in expired
          THEN [job[j] EXCEPT !.status =
                 IF job[j].attempts < MaxAttempts THEN "pending" ELSE "failed"]
          ELSE job[j]]
  BY DEF Restart
<1>3. lost \in SUBSET Analyses /\ (\A a \in lost : IsActive(a)) /\ "stale_job_claim" \in Error
  BY DEF LostRows, Children, IsActive, Active, Error
<1> HIDE DEF lost, orphaned, books
<1>4. ASSUME NEW a \in Analyses
      PROVE  /\ job'[a].attempts = job[a].attempts
             /\ job'[a].status = "success" => job[a].status = "success"
  <2>1. a \in Jobs /\ job[a] \in Job
    BY DEF IInv, TypeOK, Jobs
  <2> DEFINE s == IF job[a].attempts < MaxAttempts THEN "pending" ELSE "failed"
  <2>2. s \in {"pending", "failed"}
    OBVIOUS
  <2>3. \/ job'[a] = job[a] \/ job'[a] = [job[a] EXCEPT !.status = "failed"]
        \/ job'[a] = [job[a] EXCEPT !.status = s]
    BY <1>2, <2>1
  <2> HIDE DEF s
  <2> QED BY <2>1, <2>2, <2>3 DEF Job
<1> QED BY <1>1, <1>3, <1>4, EndServes

LEMMA NewRowServes ==
  ASSUME IInv, IInv', SInv, NEW n, NEW new, NewRow(n, new),
         \A l \in Consumers : \/ Reads(l)' /\ Makes(l)'
                              \/ run'[l] = run[l] /\ run[l].analysis # n
  PROVE  SInv'
<1>1. /\ n \in Analyses /\ ~Exists(n) /\ job[n].status = "absent" /\ new.status = "queued"
      /\ UNCHANGED <<text, artifact, job>> /\ OfAnalysis(n)
  BY DEF NewRow, SInv
<1>2. row'[n] = new /\ \A a \in Analyses : a # n => row'[a] = row[a]
  BY NewRowFacts
<1>3. OfAnalysis(n)'
  BY <1>1, <1>2 DEF OfAnalysis
<1>4. \A a \in Analyses : MoreAttempts(a)
  BY <1>1, AttemptsStay
<1>5. \A a \in Analyses : a # n => SameRow(a) /\ SameResult(a)
  BY <1>1, <1>2 DEF SameRow, SameResult, Exists, Closed
<1>6. ASSUME NEW a \in Analyses, a # n PROVE OfAnalysis(a)'
  <2>1. OfAnalysis(a) /\ job'[a] = job[a]
    BY <1>1 DEF SInv
  <2> QED BY <1>4, <1>5, <1>6, <2>1, ResultStays
<1>7. ASSUME NEW l \in Consumers PROVE Reads(l)' /\ Makes(l)'
  <2>1. CASE run'[l] = run[l] /\ run[l].analysis # n
    <3>1. Reads(l) /\ Makes(l)
      BY DEF SInv
    <3>2. LET a == run[l].analysis IN
          a \in Analyses =>
            /\ SameRow(a) /\ MoreAttempts(a) /\ ~Back(l)
            /\ job'[a].attempts <= 1 =>
                 SameResult(a) /\ (run[l].job \in Analyses => job'[a].status # "success")
      BY <1>1, <1>4, <1>5, <2>1, <3>1, Ids DEF Makes, First, Back
    <3> QED BY <1>4, <2>1, <3>1, <3>2, ConsumerStays
  <2> QED BY <2>1
<1> QED BY <1>3, <1>6, <1>7 DEF SInv

LEMMA InsertServes ==
  ASSUME IInv, IInv', SInv, NEW u \in Requests, Insert(u)
  PROVE  SInv'
<1> DEFINE n == Min(Free)
           new == [status |-> "queued", error |-> "", chapter |-> request[u].chapter,
                   hash |-> request[u].hash, batch |-> 0, past |-> {}]
<1>1. /\ request[u].phase = "checked" /\ Free # {} /\ request[u] \in Request
      /\ row' = [row EXCEPT ![n] = new]
      /\ UNCHANGED <<text, artifact, job, withdrawn, current, roster, run, up, crashes, errors, acts>>
  BY DEF Insert, view, process, IInv, TypeOK
<1>2. /\ n \in Analyses /\ ~Exists(n) /\ n \notin withdrawn /\ job[n].status = "absent"
      /\ \A k \in Consumers : run[k].analysis # n
  BY <1>1, FreeFacts
<1> HIDE DEF n
<1>3. request[u].chapter \in Chapters
  BY <1>1 DEF IInv, Inserted
<1>4. /\ new \in Row /\ new.status = "queued" /\ new.chapter = request[u].chapter
      /\ new.hash = request[u].hash
  BY <1>1, <1>3, PhaseNames, Ids DEF Row, Active, Request
<1> HIDE DEF new
<1>5. NewRow(n, new)
  BY <1>1, <1>2, <1>3, <1>4 DEF NewRow
<1> QED BY <1>1, <1>2, <1>5, NewRowServes

LEMMA NextChapterServes ==
  ASSUME IInv, IInv', SInv, NEW k \in Consumers, NextChapter(k)
  PROVE  SInv'
<1>1. /\ run[k].phase = "next" /\ run[k].job # 0 /\ run[k] \in Run /\ run[k].job \in Batches
      /\ run[k].job \notin Analyses /\ Reads(k) /\ Makes(k)
      /\ UNCHANGED <<text, artifact, job, withdrawn, current, roster, request, up, crashes, errors, acts>>
      /\ run \in [Consumers -> Run] /\ run[k].analysis \in Analyses \cup {0}
  BY RunFacts, Ids DEF NextChapter, view, process, IInv, TypeOK, OfSingle, SInv
<1>2. CASE Goto(k, "finishing") /\ UNCHANGED row
  <2>1. Turns(k, "finishing")
    BY <1>2, GotoTurns
  <2>2. Reads(k)' /\ Makes(k)'
    BY <1>1, <1>2, <2>1 DEF Turns, Reads, Makes, Before, Working
  <2> QED BY <1>1, <1>2, <2>1, <2>2, MoveServes DEF Turns
<1>3. CASE ~(run[k].todo = {} \/ job[run[k].job].status = "cancelled")
  <2> DEFINE n == Min(Free)
             c == Min(run[k].todo)
             new == [status |-> "queued", error |-> "", chapter |-> c,
                     hash |-> run[k].read[c], batch |-> run[k].job, past |-> {}]
             next == [run[k] EXCEPT !.phase = "starting", !.analysis = n, !.todo = @ \ {c}]
  <2>0. run' = [run EXCEPT ![k] = next]
    BY <1>3 DEF NextChapter
  <2>1. /\ Free # {} /\ row' = [row EXCEPT ![n] = new]
    BY <1>3 DEF NextChapter
  <2>2. /\ n \in Analyses /\ ~Exists(n) /\ n # 0 /\ n \notin withdrawn /\ job[n].status = "absent"
        /\ \A l \in Consumers : run[l].analysis # n
    BY <2>1, FreeFacts
  <2>3. c \in Chapters
    <3>1. run[k].todo \subseteq Chapters
      BY <1>1 DEF Run
    <3> QED BY <1>3, <3>1, LeastOf, Ids
  <2>4. /\ next.phase = "starting" /\ next.analysis = n /\ next.job = run[k].job
        /\ next.read = run[k].read
    BY <1>1 DEF Run
  <2> HIDE DEF n, c, next
  <2>5. /\ new \in Row /\ new.status = "queued" /\ new.chapter = c
        /\ new.hash = run[k].read[c]
    <3>1. run[k].read[c] \in Revisions \cup {0}
      BY <1>1, <2>3 DEF Run
    <3> QED BY <1>1, <2>3, <3>1, PhaseNames DEF Row, Active
  <2> HIDE DEF new
  <2>6. NewRow(n, new)
    BY <1>1, <2>1, <2>2, <2>3, <2>5 DEF NewRow
  <2>7. row'[n] = new
    BY <2>6, NewRowFacts
  <2>8. run'[k] = next /\ \A l \in Consumers : l # k => run'[l] = run[l]
    BY <1>1, <2>0
  <2>9. Reads(k)'
    BY <1>1, <2>4, <2>5, <2>7, <2>8 DEF Reads
  <2>10. Makes(k)'
    BY <1>1, <2>4, <2>5, <2>7, <2>8 DEF Makes
  <2>11. \A l \in Consumers : \/ Reads(l)' /\ Makes(l)'
                              \/ run'[l] = run[l] /\ run[l].analysis # n
    BY <1>1, <2>2, <2>8, <2>9, <2>10
  <2> QED BY <2>6, <2>11, NewRowServes
<1> QED BY <1>2, <1>3 DEF NextChapter

-----------------------------------------------------------------------------
LEMMA InitServes == Init => SInv
<1> SUFFICES ASSUME Init PROVE SInv
  OBVIOUS
<1>1. \A a \in Analyses : OfAnalysis(a)
  BY DEF Init, OfAnalysis, Exists, NoRow, NoJob, Jobs
<1>2. \A k \in Consumers : Reads(k) /\ Makes(k)
  BY IdleFacts, Ids DEF Init, Reads, Makes
<1> QED BY <1>1, <1>2 DEF SInv

LEMMA NextServes ==
  ASSUME IInv, SInv, [Next]_vars
  PROVE  IInv' /\ SInv'
<1>0. IInv'
  BY NextHolds
<1>1. ASSUME NEW k \in Consumers, Work(k)
      PROVE  SInv'
  BY <1>0, <1>1, ClaimServes, BeginServes, OpenServes, NextChapterServes, StartChildServes,
     SetUpFailsServes, AnalyseServes, CheckServes, SaveServes, PublishServes, ProjectServes, WriteRosterServes,
     PointServes, FinishServes, CatchServes, NoteServes DEF Work
<1>2. ASSUME NEW u \in Requests, Serve(u)
      PROVE  SInv'
  BY <1>0, <1>2, AskServes, InsertServes, EnqueueServes, EnqueueBatchServes DEF Serve
<1>3. ASSUME NEW a \in Analyses, Cancel(a)
      PROVE  SInv'
  BY <1>0, <1>3, CancelServes
<1>4. ASSUME NEW b \in Batches, CancelBatch(b) \/ DeleteJob(b)
      PROVE  SInv'
  BY <1>0, <1>4, CancelBatchServes, DeleteJobServes
<1>5. ASSUME NEW j \in Jobs, CancelJob(j) \/ RetryJob(j)
      PROVE  SInv'
  BY <1>0, <1>5, CancelJobServes, RetryJobServes
<1>6. ASSUME NEW c \in Chapters, Edit(c)
      PROVE  SInv'
  BY <1>0, <1>6, EditServes
<1>7. CASE Crash \/ Restart
  BY <1>0, <1>7, CrashServes, RestartServes
<1>8. CASE UNCHANGED vars
  <2>1. UNCHANGED <<text, row, artifact, job, run>>
    BY <1>8 DEF vars
  <2>2. \A a \in Analyses : MoreAttempts(a)
    BY <2>1, AttemptsStay
  <2> QED BY <1>0, <2>1, <2>2, QuietJobs
<1> QED BY <1>0, <1>1, <1>2, <1>3, <1>4, <1>5, <1>6, <1>7, <1>8 DEF Next

LEMMA InductiveServes == Spec => [](IInv /\ SInv)
<1>1. Init => IInv /\ SInv
  BY InitHolds, InitServes
<1>2. IInv /\ SInv /\ [Next]_vars => (IInv /\ SInv)'
  BY NextServes
<1> QED BY <1>1, <1>2, PTL DEF Spec

\* What a ready analysis shows was made from the very text it is recorded for:
\* execute_analysis compares the chapter with the analysis without a lock, and the
\* comparisons are enough, but where the text comes back while the consumer works
\* on another one.  A later attempt may remove the file and leaves no other.
THEOREM ReadyResultsAreOfTheirSource == Spec => []ReadyIsOfItsSource
<1>1. IInv /\ SInv => ReadyIsOfItsSource
  <2> SUFFICES ASSUME IInv, SInv, NEW a \in Analyses, row[a].status = "ready"
               PROVE  \/ artifact[a] = row[a].hash
                      \/ "restored" \in row[a].past
                      \/ artifact[a] = 0 /\ job[a].attempts > 1
    BY DEF ReadyIsOfItsSource
  <2>1. job[a].attempts \in Nat
    BY Attempts DEF IInv
  <2> QED BY <2>1 DEF SInv, OfAnalysis, First, Restored
<1> QED BY <1>1, InductiveServes, PTL

\* A job that has succeeded has left a ready analysis, or its consumer had found
\* another text, or an earlier attempt failed the row afterwards: a rejected
\* result, a cancellation and a failure of the provider or of the set-up never end
\* as a success without one.
THEOREM SuccessesAreReady == Spec => []SuccessIsReady
<1>1. IInv /\ SInv => SuccessIsReady
  <2> SUFFICES ASSUME IInv, SInv, NEW a \in Analyses, job[a].status = "success"
               PROVE  \/ row[a].status = "ready"
                      \/ "outrun" \in row[a].past
                      \/ row[a].status = "failed" /\ job[a].attempts > 1
    BY DEF SuccessIsReady
  <2>1. job[a].attempts \in Nat
    BY Attempts DEF IInv
  <2> QED BY <2>1 DEF SInv, OfAnalysis, First, Closed, Outrun
<1> QED BY <1>1, InductiveServes, PTL
=============================================================================
