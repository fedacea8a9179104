----------------------------- MODULE HealthScore -----------------------------
(***************************************************************************)
(* How internal/health/checker.go turns the probe results of a node into a *)
(* score, and what the score decides: the selection bucket, the ready      *)
(* threshold and the weight in the random group.  Pure operators.          *)
(*                                                                         *)
(* The last failure is later than the last success exactly when the latest *)
(* probe failed, that is when consecutiveFailures > 0, so the timestamps of *)
(* a NodeStatus are left out.  SuccessCount only matters up to 4 and is    *)
(* kept up to there.                                                       *)
(***************************************************************************)
EXTENDS Integers

MinScore == 5
MaxScore == 100
ReadyScore == 80

StatusType ==
  [successCount : 0..4, failureCount : Nat, consecutiveFailures : Nat, score : 0..MaxScore]

(* What SetNodes gives to a node that was never seen.                      *)
FreshStatus ==
  [successCount |-> 0, failureCount |-> 0, consecutiveFailures |-> 0, score |-> MaxScore]

Penalty(yes, points) == IF yes THEN points ELSE 0

MutantRawCapsFailures(s, penalized) ==
  MaxScore
  - Penalty(s.consecutiveFailures > 0, 20)
  - 15 * s.consecutiveFailures
  - 5 * (IF s.failureCount < 4 THEN s.failureCount ELSE 4)
  + 3 * s.successCount
  - Penalty(penalized, 35)

MutantRawIgnoresPenalty(s, penalized) ==
  MaxScore
  - Penalty(s.consecutiveFailures > 0, 20)
  - 15 * s.consecutiveFailures
  - 5 * s.failureCount
  + 3 * s.successCount

RawScore(s, penalized) ==
  MaxScore
  - Penalty(s.consecutiveFailures > 0, 20)
  - 15 * s.consecutiveFailures
  - 5 * s.failureCount
  + 3 * s.successCount
  - Penalty(penalized, 35)

Clamp(raw) ==
  IF raw < MinScore THEN MinScore ELSE IF raw > MaxScore THEN MaxScore ELSE raw

ComputeScore(s, penalized) == Clamp(RawScore(s, penalized))

(* updatePenalties: the counters after a probe.                            *)
Succeeded(s) ==
  [successCount |-> IF s.successCount < 4 THEN s.successCount + 1 ELSE 4,
   failureCount |-> s.failureCount,
   consecutiveFailures |-> 0,
   score |-> s.score]

Failed(s) ==
  [successCount |-> s.successCount,
   failureCount |-> s.failureCount + 1,
   consecutiveFailures |-> s.consecutiveFailures + 1,
   score |-> s.score]

MutantSwapped(s, reachable) == IF reachable THEN Failed(s) ELSE Succeeded(s)

Counted(s, reachable) == IF reachable THEN Succeeded(s) ELSE Failed(s)

(* nodeStatus: a stored score of 0 means "no score yet".                   *)
Read(s) == IF s.score = 0 THEN [s EXCEPT !.score = MaxScore] ELSE s

(* The status a probe leaves behind.                                       *)
AfterProbe(s, reachable, penalized) ==
  LET counted == Counted(Read(s), reachable)
  IN  [counted EXCEPT !.score = ComputeScore(counted, penalized)]

(* What the state file may hold of a node with up to maxFailures failures: *)
(* the counters that probes leave (without an answer all failures are in   *)
(* the latest run), with the score that goes with them, or with none: the  *)
(* file of an older version has no scores, which Load takes as 0.          *)
Restorable(maxFailures) ==
  LET counted ==
        {s \in [successCount : 0..4, failureCount : 0..maxFailures,
                consecutiveFailures : 0..maxFailures, score : {0}] :
           \/ s.consecutiveFailures = s.failureCount
           \/ s.consecutiveFailures < s.failureCount /\ s.successCount > 0}
  IN  counted \cup
      {[s EXCEPT !.score = ComputeScore(s, s.consecutiveFailures > 0)] : s \in counted}

(* The selection signature of a node (the same table in app/runtime.go).   *)
ScoreBucket(score) ==
  IF score >= 90 THEN 3 ELSE IF score >= 70 THEN 2 ELSE IF score >= 40 THEN 1 ELSE 0

(* options_builder.go: the weight of a node in the random group.           *)
RandomWeight(score) == CASE ScoreBucket(score) = 3 -> 8
                         [] ScoreBucket(score) = 2 -> 5
                         [] ScoreBucket(score) = 1 -> 3
                         [] OTHER -> 1

Ready(score) == score >= ReadyScore

=============================================================================
