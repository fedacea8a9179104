------------------------------ MODULE RuntimeMC ------------------------------
(* Two nodes, the second of which has the smaller key, and no state file.  *)
EXTENDS Runtime

MCSources == <<2, 1>>

MCNothing == {Unknown}

=============================================================================
