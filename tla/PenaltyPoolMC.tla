---------------------------- MODULE PenaltyPoolMC ----------------------------
(***************************************************************************)
(* PenaltyPool on a small instance, with a history variable: for each      *)
(* caller, the nodes that were free at some instant of its current call.   *)
(***************************************************************************)
EXTENDS PenaltyPool

VARIABLE seenFree

FreeNow == {n \in NodeKey : penalties[n] <= now}

InitMC == Init /\ seenFree = [c \in Caller |-> {}]

NextMC ==
  /\ Next
  /\ seenFree' = [c \in Caller |->
                    IF pc'[c] = "idle" THEN {}
                    ELSE IF pc[c] = "idle" THEN FreeNow'
                    ELSE seenFree[c] \cup FreeNow']

SpecMC == InitMC /\ [][NextMC]_<<vars, seenFree>>

(* FilterCandidatesWithStats passes a node as free only if the node really *)
(* was free at some instant of the call, although the clock it compares    *)
(* with was read earlier and the map may have changed since; when it       *)
(* returns, it returns something, and if it names a node that was          *)
(* penalised throughout the call then it names them all (the all-penalised *)
(* fallback).                                                              *)
FilterAnswersTruly ==
  \A c \in Caller :
    /\ kept[c] \subseteq seenFree[c]
    /\ (pc[c] = "filtering" /\ todo[c] = {}) =>
         /\ Filtered(c) # {}
         /\ Filtered(c) \subseteq seenFree[c] \/ Filtered(c) = input[c]
         /\ Filtered(c) \subseteq input[c]

=============================================================================
