----------------------------- MODULE LogHistory -----------------------------
(***************************************************************************)
(* What the log buffer promises: the last entries, at most Capacity of     *)
(* them, oldest first, and whether any were lost.                          *)
(***************************************************************************)
EXTENDS Naturals, Sequences

CONSTANTS Entries, Capacity

VARIABLES recent, lost

Init == recent = <<>> /\ lost = FALSE

Write(entry) ==
  IF Len(recent) < Capacity
    THEN recent' = Append(recent, entry) /\ UNCHANGED lost
    ELSE recent' = Append(Tail(recent), entry) /\ lost' = TRUE

Next == \E entry \in Entries : Write(entry)

Spec == Init /\ [][Next]_<<recent, lost>>
=============================================================================
