----------------------------- MODULE StateStoreMC -----------------------------
(***************************************************************************)
(* StateStore with a history variable: every snapshot a flush collected.   *)
(***************************************************************************)
EXTENDS StateStore

VARIABLE collected

InitMC == StoreInit /\ collected = {}

Collects(f) == pc[f] = "reading" /\ pc'[f] = "saving"

NextMC ==
  /\ StoreNext
  /\ collected' = collected \cup {draft'[f] : f \in {g \in Flusher : Collects(g)}}

StoreFairSpecMC == InitMC /\ [][NextMC]_<<store, collected>> /\ StoreFairness

(* A file that parses holds one snapshot, as one flush collected it, and   *)
(* never pieces of two, although two goroutines rewrite it in place, any   *)
(* write may fail half way and the process may be killed at any point.     *)
FileIsOneSnapshot ==
  Parses => [pool |-> file.pool, status |-> file.status] \in collected

=============================================================================
