---------------------------- MODULE ConsolePagesMC ----------------------------
(***************************************************************************)
(* Instance of ConsolePages for TLC: two nodes, scores at the borders of   *)
(* the tiers and of ready, a status without a score, a refresh that the    *)
(* filter leaves without a candidate.                                      *)
(***************************************************************************)
EXTENDS ConsolePages, TLC

Node(key, passes) == [key |-> key, passes |-> passes]

Refreshed(nodes, statuses, handedOver, penalized) ==
  [nodes |-> nodes, statuses |-> statuses, sources |-> <<"list", "file">>,
   handedOver |-> handedOver, penalized |-> penalized]

MCRefreshes ==
  {Refreshed(<<Node("a", TRUE), Node("b", TRUE)>>, ("a" :> 70) @@ ("b" :> 90), <<"b", "a">>, {}),
   Refreshed(<<Node("a", TRUE), Node("b", TRUE)>>, ("a" :> 39) @@ ("b" :> 39), <<>>, {"a", "b"}),
   Refreshed(<<Node("b", FALSE), Node("a", TRUE)>>, ("a" :> 0) @@ ("b" :> 40), <<"b">>, {"a"}),
   Refreshed(<<Node("b", TRUE), Node("a", TRUE)>>, ("b" :> 80), <<"b">>, {}),
   Refreshed(<<Node("a", FALSE), Node("b", FALSE)>>, <<>>, <<>>, {"b"})}

MCEarly == {{}, {"candidates"}, {"status", "nodes", "health"}}

MCKeywords == {"a", "9"}

MCNameHas == [key \in {"a", "b"} |-> IF key = "a" THEN {"a"} ELSE {}]

MCScoreHas == [score \in 0..100 |-> IF score \in {39, 90} THEN {"9"} ELSE {}]

MCSourceHas == [source \in {"list", "file"} |-> {}]
=============================================================================
