----------------------------- MODULE ConsoleApi -----------------------------
(***************************************************************************)
(* frontend/src/lib/api.ts: the connection settings of the console, what   *)
(* is made of them by localStorage and by a request, and what the          *)
(* management API (internal/api/server.go) says to the request.  Pure      *)
(* operators.                                                              *)
(*                                                                         *)
(* A text of an input field is told by its trimmed word and by whether     *)
(* there is white space around it.  Words are compared as HTTP does it,    *)
(* so two spellings of one header name are one word.                       *)
(***************************************************************************)
EXTENDS Naturals

CONSTANTS
  Words,          \* trimmed texts, the empty one included
  Empty,
  DefaultHeader,  \* 'X-GeoLoom-Token'
  Illegal,        \* words that fetch refuses in a header
  WithoutSlash,   \* a word without its last character, if that is a slash
  Servers,        \* base addresses behind which this server listens
  Credential,     \* [header, token]: what the server asks for, Empty for nothing
  Absent,         \* nothing, or nothing readable, in localStorage
  Null            \* a stored field that is missing or not a text

ASSUME WordsAssumption ==
  /\ {Empty, DefaultHeader} \subseteq Words
  /\ Empty # DefaultHeader
  /\ WithoutSlash \in [Words -> Words]
  /\ Illegal \subseteq Words \ {Empty, DefaultHeader}
  /\ Servers \subseteq Words
  /\ Credential \in [header : Words \ {Empty}, token : Words]

-----------------------------------------------------------------------------
(* Settings                                                                *)

Text == [word : Words, padded : BOOLEAN]
Plain(word) == [word |-> word, padded |-> FALSE]
Blank(text) == text.word = Empty

ConnectionSettings == [baseUrl : Text, token : Text, authHeader : Text]

DefaultConnection ==
  [baseUrl |-> Plain(Empty), token |-> Plain(Empty), authHeader |-> Plain(DefaultHeader)]

(* What may be found under the key: nothing or garbage, or an object whose *)
(* fields may be missing or no texts (someone else may have written it).   *)
StoredObject ==
  [baseUrl : Text \cup {Null}, token : Text \cup {Null}, authHeader : Text \cup {Null}]

ASSUME AbsenceAssumption ==
  /\ Null \notin Text
  /\ Absent \notin StoredObject
  /\ Absent \notin [base : Words, header : Words, token : Words]

LoadConnectionSettings(stored) ==
  IF stored = Absent THEN DefaultConnection
  ELSE [baseUrl    |-> IF stored.baseUrl = Null THEN Plain(Empty) ELSE stored.baseUrl,
        token      |-> IF stored.token = Null THEN Plain(Empty) ELSE stored.token,
        authHeader |-> IF stored.authHeader = Null \/ Blank(stored.authHeader)
                         THEN Plain(DefaultHeader) ELSE stored.authHeader]

-----------------------------------------------------------------------------
(* Requests                                                                *)

Base(text) == WithoutSlash[text.word]

MutantHeaderName(text) == text.word

HeaderName(text) == IF Blank(text) THEN DefaultHeader ELSE text.word

RequestType == [base : Words, header : Words, token : Words]

(* The path apart: no header is sent without a token.                      *)
RequestOf(settings) ==
  [base   |-> Base(settings.baseUrl),
   header |-> IF Blank(settings.token) THEN Empty ELSE HeaderName(settings.authHeader),
   token  |-> settings.token.word]

(* Headers.set throws on a name or a value that HTTP does not know.        *)
Sendable(request) == {request.header, request.token} \cap Illegal = {}

(* authMiddleware                                                          *)
Authorized(request) ==
  \/ Credential.token = Empty
  \/ request.header = Credential.header /\ request.token = Credential.token

MutantOutcomes(request) ==
  IF ~Sendable(request) THEN {}
  ELSE IF request.base \notin Servers THEN {"failed", "unauthorized"}
  ELSE IF Authorized(request) THEN {"failed", "ok"}
  ELSE {"failed", "unauthorized"}

(* How requestJson may end.  A network may always fail; behind another     *)
(* address there may be a server of any kind, but none that answers as     *)
(* this one does.                                                          *)
Outcomes(request) ==
  IF ~Sendable(request) THEN {"failed"}
  ELSE IF request.base \notin Servers THEN {"failed", "unauthorized"}
  ELSE IF Authorized(request) THEN {"failed", "ok"}
  ELSE {"failed", "unauthorized"}

=============================================================================
