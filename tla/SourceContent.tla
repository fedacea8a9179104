----------------------------- MODULE SourceContent -----------------------------
(***************************************************************************)
(* internal/provider/source/subscription.go and provider/parser/           *)
(* dispatcher.go: how the content of a source becomes a list of nodes.     *)
(*                                                                         *)
(* A link is told by the node it names (its key, what goes into the        *)
(* fingerprint), the label after "#", and whether the parser of its        *)
(* protocol accepts it; unknown schemes, bad ports and the like are links  *)
(* that are not good.  A content is one of three:                          *)
(*   a text, whose lines are links, bare addresses and comments (which may *)
(*     contain a link); `marked` if "proxies:" occurs in it, or "outbounds" *)
(*     in something that begins with a brace;                              *)
(*   a base64 text in so many rows, which decodes to links;                *)
(*   a Clash or sing-box document, which may be malformed.                 *)
(* Contents of more than 4 MiB are left out.                               *)
(***************************************************************************)
EXTENDS Integers, Lists

Text(lines, marked) == [form |-> "text", lines |-> lines, marked |-> marked]

Base64(links, rows) == [form |-> "base64", links |-> links, rows |-> rows]

Document(links, parses) == [form |-> "document", links |-> links, parses |-> parses]

IsText(content) == content.form = "text" /\ ~content.marked

NoLink == [key |-> "none", label |-> "", good |-> FALSE]

(* The links of some of the lines; Distinct is for the `seen` maps of      *)
(* extractLinks and parseEntriesFromLines.                                 *)
LinksOf(lines, chosen) == Distinct(Sublist([i \in DOMAIN lines |-> lines[i].link], chosen))

LinksIn(lines) ==
  LinksOf(lines, {i \in DOMAIN lines : lines[i].form # "bare" /\ lines[i].link # NoLink})

(* ParseEntriesFromContent: every link that occurs, in comments too.       *)
ParseEntriesFromContent(content) ==
  CASE content.form = "text" -> LinksIn(content.lines)
    [] content.form = "base64" -> Distinct(content.links)

(* A row of base64 becomes a socks5 link, without a port.                  *)
Row == [key |-> "row", label |-> "", good |-> FALSE]

(* parseEntriesFromLines: every line but the comments; a bare line becomes *)
(* the socks5 link of its address.                                         *)
ParseEntriesFromLines(content) ==
  CASE content.form = "text" ->
         LinksOf(content.lines,
                 {i \in DOMAIN content.lines : content.lines[i].form # "comment"})
    [] content.form = "base64" -> [i \in 1..content.rows |-> Row]

MutantEntries(kind, content) ==
  LET links == ParseEntriesFromContent(content)
      lines == ParseEntriesFromLines(content) IN
  IF kind = "file" \/ links = <<>> THEN lines ELSE links

(* FetchResult: a file is read by lines, a remote text by whichever of the *)
(* two readings gives more.                                                *)
Entries(kind, content) ==
  LET links == ParseEntriesFromContent(content)
      lines == ParseEntriesFromLines(content) IN
  IF kind = "file" \/ Len(lines) > Len(links) \/ links = <<>> THEN lines ELSE links

(* parseStructuredSourceContent: what looks like a document is handled as  *)
(* one, also if it turns out not to be one.                                *)
Handled(content) == content.form = "document" \/ (content.form = "text" /\ content.marked)

Good(links) == Sublist(links, {i \in DOMAIN links : links[i].good})

DocumentNodes(content) ==
  IF content.form = "document" /\ content.parses THEN Good(content.links) ELSE <<>>

Failure == [ok |-> FALSE, nodes |-> <<>>, unsupported |-> 0]

Success(nodes, unsupported) == [ok |-> TRUE, nodes |-> nodes, unsupported |-> unsupported]

(* parseSourceContent: a source without a single node is an error.         *)
ParseSourceContent(kind, content) ==
  IF Handled(content)
  THEN LET nodes == DocumentNodes(content) IN
       IF nodes = <<>> THEN Failure ELSE Success(nodes, 0)
  ELSE LET entries == Entries(kind, content)
           nodes == Good(entries) IN
       IF nodes = <<>> THEN Failure ELSE Success(nodes, Len(entries) - Len(nodes))

=============================================================================
