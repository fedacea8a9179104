---------------------------- MODULE ProbeHistory -----------------------------
(***************************************************************************)
(* One node's life under the checker: probes succeed or fail in any order, *)
(* the penalty that a failure starts may run out between two probes.       *)
(* MaxFailures only bounds the counters for model checking; from 22        *)
(* failures on the score no longer depends on the exact number.            *)
(***************************************************************************)
EXTENDS HealthScore

CONSTANT MaxFailures

ASSUME MaxFailuresAssumption == MaxFailures \in Nat

VARIABLES
  nodeStatus, \* the node's NodeStatus
  penalized   \* whether its penalty window is running

life == <<nodeStatus, penalized>>

(* Any history that RestoreSnapshot finds in the state file, that of a     *)
(* node never seen included.  The pool's Restore may find a window or none *)
(* with any of them: the two are saved one after the other, and the window *)
(* may run out while the program is down.                                  *)
LifeInit ==
  /\ nodeStatus \in Restorable(MaxFailures)
  /\ penalized \in BOOLEAN

ProbeSucceeds ==
  /\ penalized' = FALSE
  /\ nodeStatus' = AfterProbe(nodeStatus, TRUE, FALSE)

ProbeFails ==
  /\ nodeStatus.failureCount < MaxFailures
  /\ penalized' = TRUE
  /\ nodeStatus' = AfterProbe(nodeStatus, FALSE, TRUE)

(* The window runs out; the stored score stays until the next probe.       *)
WindowEnds ==
  /\ penalized
  /\ penalized' = FALSE
  /\ UNCHANGED nodeStatus

LifeNext == ProbeSucceeds \/ ProbeFails \/ WindowEnds

LifeSpec == LifeInit /\ [][LifeNext]_life

-----------------------------------------------------------------------------

(* A score is 0, which no probe leaves, only if the state file had none.   *)
LifeTypeOK ==
  /\ nodeStatus \in StatusType
  /\ nodeStatus.score \in {0} \cup MinScore..MaxScore
  /\ penalized \in BOOLEAN

(* One failure is enough to put any node, however good its past, into the  *)
(* lowest bucket, and it stays there until it answers a probe.             *)
FailingNodesAreLast ==
  nodeStatus.consecutiveFailures > 0 => ScoreBucket(nodeStatus.score) = 0

(* A successful probe never lowers a node's score, nor its weight in the   *)
(* random group.                                                           *)
SuccessNeverHurts ==
  [][ProbeSucceeds =>
       /\ nodeStatus'.score >= nodeStatus.score
       /\ RandomWeight(nodeStatus'.score) >= RandomWeight(nodeStatus.score)]_life

(* failureCount is never forgotten: after seven failures in a node's life  *)
(* no run of successes makes it ready again, after fifteen it stays in the *)
(* lowest bucket for good, restarts included (and every status has its     *)
(* type).                                                                  *)
OldFailuresStay ==
  /\ LifeTypeOK
  /\ nodeStatus.failureCount >= 7 => ~Ready(nodeStatus.score)
  /\ nodeStatus.failureCount >= 15 => ScoreBucket(nodeStatus.score) = 0

=============================================================================
