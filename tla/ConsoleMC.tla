------------------------------ MODULE ConsoleMC ------------------------------
(***************************************************************************)
(* Instance of Console for TLC: a server behind the page's own origin that *)
(* asks for a token under the default header.                              *)
(***************************************************************************)
EXTENDS Console

MCWords == {"", "/", "X-GeoLoom-Token", "no header", "right", "wrong"}
MCIllegal == {"no header"}
MCWithoutSlash == [word \in MCWords |-> IF word = "/" THEN "" ELSE word]
MCServers == {""}
MCCredential == [header |-> "X-GeoLoom-Token", token |-> "right"]

Spaced(word) == [word |-> word, padded |-> TRUE]

(* A token in white space, a header that is cleared and one HTTP refuses.  *)
MCInputs ==
  [baseUrl    |-> {},
   token      |-> {Spaced("right"), Plain("wrong")},
   authHeader |-> {Spaced(""), Plain("no header")}]

(* Nothing, an object without the fields, and a base with a slash.         *)
MCInitialStorage ==
  {Absent,
   [baseUrl |-> Null, token |-> Null, authHeader |-> Null],
   [baseUrl |-> Plain("/"), token |-> Plain("right"), authHeader |-> Plain("X-GeoLoom-Token")]}

MCOtherSettings ==
  {[baseUrl |-> Plain("/"), token |-> Plain("right"), authHeader |-> Plain("")]}
=============================================================================
