--------------------------- MODULE HealthCheckerMC ---------------------------
(* HealthChecker with lists of one, two and three nodes; a round over the  *)
(* longest, and only that, may outlast a window of two ticks.              *)
EXTENDS HealthChecker

CONSTANT MaxNode

MCNodeKey == 1..MaxNode

MCNodeLists == {<<1>>, <<3, 2>>, <<2, 3, 1>>}

(* A status of an older version, without a score, and one of a failure.    *)
MCSaved == {[FreshStatus EXCEPT !.score = 0], AfterProbe(FreshStatus, FALSE, TRUE)}

=============================================================================
