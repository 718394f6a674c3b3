---------------------------- MODULE JobLifecycle ----------------------------
(***************************************************************************)
(* What the generation queue promises of every job, whatever consumers,     *)
(* operators, crashes and restarts do: a job is held by one turn at a time, *)
(* turns are numbered without gaps, a turn is given back only while the     *)
(* retry budget lasts, and a job that succeeded, was cancelled or went      *)
(* stale never comes back; a failed one does only by an operator's retry.   *)
(* One step may move several jobs.                                          *)
(***************************************************************************)
EXTENDS Naturals

CONSTANTS Jobs, Limit

VARIABLES stage, turn

Stage == {"absent", "queued", "held", "succeeded", "failed", "abandoned", "gone"}

LifecycleTypeOK == stage \in [Jobs -> Stage] /\ turn \in [Jobs -> Nat]

Init == stage = [j \in Jobs |-> "absent"] /\ turn = [j \in Jobs |-> 0]

Keep(j) == turn'[j] = turn[j]

Submit(j) == stage[j] = "absent" /\ stage'[j] = "queued" /\ Keep(j)
Hold(j) == stage[j] = "queued" /\ stage'[j] = "held" /\ turn'[j] = turn[j] + 1
GiveBack(j) == stage[j] = "held" /\ turn[j] < Limit /\ stage'[j] = "queued" /\ Keep(j)
Succeed(j) == stage[j] = "held" /\ stage'[j] = "succeeded" /\ Keep(j)
Fail(j) == stage[j] = "held" /\ stage'[j] = "failed" /\ Keep(j)
Abandon(j) == stage[j] \in {"queued", "held"} /\ stage'[j] = "abandoned" /\ Keep(j)
Reopen(j) == stage[j] = "failed" /\ stage'[j] = "queued" /\ Keep(j)
Remove(j) == stage[j] \notin {"absent", "gone"} /\ stage'[j] = "gone" /\ turn'[j] = 0

Move(j) ==
  \/ stage'[j] = stage[j] /\ Keep(j)
  \/ Submit(j) \/ Hold(j) \/ GiveBack(j) \/ Succeed(j) \/ Fail(j)
  \/ Abandon(j) \/ Reopen(j) \/ Remove(j)

Next ==
  /\ stage' \in [Jobs -> Stage]
  /\ turn' \in [Jobs -> Nat]
  /\ \A j \in Jobs : Move(j)

Spec == Init /\ [][Next]_<<stage, turn>>
=============================================================================
