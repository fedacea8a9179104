---------------------------- MODULE CoreLifecycle ----------------------------
(***************************************************************************)
(* What the rest of the program may assume of the proxy core: it is either *)
(* down or serving one configuration, it goes down before it serves        *)
(* another, and it never replaces one configuration by another in place.   *)
(***************************************************************************)
CONSTANTS
  Config,   \* what a core can be built from: an ordered list of candidates
  Down      \* no core is serving

VARIABLE serving

Init == serving = Down

Stop ==
  /\ serving # Down
  /\ serving' = Down

Bring(config) ==
  /\ serving = Down
  /\ serving' = config

Next == Stop \/ \E config \in Config : Bring(config)

Spec == Init /\ [][Next]_serving

=============================================================================
