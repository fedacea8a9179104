--------------------------- MODULE SourcePipelineMC ---------------------------
(* Three sources, two of them of one name; a node in two countries, one in   *)
(* one and one whose name has no address; texts with repeated, bare, hidden  *)
(* and bad links, base64 lists in one row per link and in more rows than     *)
(* links, documents that parse or do not.                                    *)
EXTENDS SourcePipeline

MCSources ==
  <<[name |-> "s", kind |-> "remote"], [name |-> "f", kind |-> "file"],
    [name |-> "s", kind |-> "node"]>>

A == [key |-> "ka", label |-> "a", good |-> TRUE]

AliasOfA == [key |-> "ka", label |-> "alias", good |-> TRUE]

B == [key |-> "kb", label |-> "b", good |-> TRUE]

Bad == [key |-> "kb", label |-> "bad", good |-> FALSE]

C == [key |-> "kc", label |-> "c", good |-> TRUE]

MCLinks == {AliasOfA, Bad, C}

Line(form, link) == [form |-> form, link |-> link]

MCContents ==
  {Text(<<>>, FALSE),
   Text(<<Line("link", A), Line("bare", B), Line("link", A)>>, FALSE),
   Text(<<Line("comment", NoLink), Line("link", Bad), Line("link", AliasOfA)>>, FALSE),
   Text(<<Line("comment", A), Line("bare", B)>>, FALSE),
   Text(<<Line("comment", NoLink), Line("link", A)>>, TRUE),
   Base64(<<B, A>>, 2),
   Base64(<<B>>, 4),
   Document(<<B, Bad, AliasOfA>>, TRUE),
   Document(<<A>>, FALSE)}

MCAddressesOf ==
  [k \in {"ka", "kb", "kc"} |->
     CASE k = "ka" -> <<"nowhere", "X", "Y">> [] k = "kb" -> <<"Y">> [] k = "kc" -> <<>>]

Config(allow, block, path, url) ==
  [allow |-> allow, block |-> block, path |-> path, url |-> url]

MCConfigs ==
  {Config({}, {"Y"}, FALSE, TRUE), Config({"X", "Y"}, {"Y"}, FALSE, FALSE),
   Config({"Y"}, {}, TRUE, TRUE)}

=============================================================================
