--------------------------- MODULE OptionsBuilderMC ---------------------------
(* Up to four nodes: vmess nodes with one id, at any of three scores and     *)
(* with or without an unsupported transport, HTTP proxies, and a trojan node *)
(* whose options do not parse.                                               *)
EXTENDS OptionsBuilder, SequencesExt

VMess(transport, score) ==
  [id |-> "vmess-1", protocol |-> "vmess", addressed |-> TRUE, complete |-> TRUE,
   transport |-> transport, score |-> score]

HTTP(score) ==
  [id |-> "http-1", protocol |-> "http", addressed |-> TRUE, complete |-> TRUE,
   transport |-> "tcp", score |-> score]

Trojan ==
  [id |-> "trojan-1", protocol |-> "trojan", addressed |-> TRUE, complete |-> FALSE,
   transport |-> "ws", score |-> 100]

MCId == {"vmess-1", "http-1", "trojan-1"}

MCNodes ==
  {VMess("ws", score) : score \in {100, 60, 5}}
    \cup {VMess("other", 60), HTTP(100), HTTP(60), Trojan}

MCLists == UNION {[1..n -> MCNodes] : n \in 0..4}

MCConfigs ==
  {[strategy |-> "random", hybridTopK |-> 0], [strategy |-> "urltest", hybridTopK |-> 0]}
    \cup {[strategy |-> "hybrid", hybridTopK |-> k] : k \in {0, 1, 2}}

=============================================================================
