---------------------------- MODULE PenaltyLedger ----------------------------
(***************************************************************************)
(* What the penalty pool promises, without its map, its lock and its lazy  *)
(* clean-up: every node has a deadline; a failure puts the deadline at     *)
(* most one window ahead, a success lifts it, and the clock reaching it    *)
(* ends it.  Nothing else moves a deadline.                                *)
(***************************************************************************)
EXTENDS Naturals

CONSTANTS
  NodeKey,   \* the keys of the nodes that can be penalised
  Window     \* length of a penalty, in clock ticks

VARIABLES
  now,       \* the clock
  deadline   \* [NodeKey -> Nat]: end of the penalty in force, 0 when free

ledgerVars == <<now, deadline>>

(* A deadline that the clock has reached is the same as none. *)
InForce(until, at) == IF until > at THEN until ELSE 0

Init ==
  /\ now \in Nat
  /\ deadline \in [NodeKey -> {0} \cup (now + 1)..(now + Window)]

Tick ==
  /\ now' = now + 1
  /\ deadline' = [n \in NodeKey |-> InForce(deadline[n], now')]

(* A slow caller may record a failure some time after it saw it, so the    *)
(* deadline may already be behind the clock.                               *)
Fail(n) ==
  /\ \E until \in 0..(now + Window) :
        deadline' = [deadline EXCEPT ![n] = InForce(until, now)]
  /\ UNCHANGED now

Succeed(n) ==
  /\ deadline' = [deadline EXCEPT ![n] = 0]
  /\ UNCHANGED now

Next == Tick \/ \E n \in NodeKey : Fail(n) \/ Succeed(n)

Spec == Init /\ [][Next]_ledgerVars

=============================================================================
