---------------------------- MODULE SourcePipeline ----------------------------
(***************************************************************************)
(* The first half of a refresh: collectNodesDetailed (internal/app/        *)
(* runtime.go) reads the sources one after the other, DedupNodes           *)
(* (internal/domain) merges equal nodes, applyGeo (internal/app/           *)
(* bootstrap.go) prepares the country database and locates the nodes, and  *)
(* the filter engine (internal/filter) divides them into candidates and    *)
(* dropped ones.  Only one refresh runs at a time, and all that one leaves *)
(* to the next is the database file; what is published comes from the      *)
(* local variables as they are in phase "publishing".                      *)
(*                                                                         *)
(* The country cache lives as long as one applyGeo and holds what the      *)
(* database says, so it does not show.  A node's protocol is one that the  *)
(* parsers make, so its fingerprint can always be built.                   *)
(***************************************************************************)
EXTENDS SourceContent, FiniteSets

CONSTANTS
  Key,        \* what fingerprints tell apart
  Label,      \* names of nodes
  SourceName,
  Sources,    \* cfg.Sources: their names and kinds
  Links,      \* links a source of type "node" may be
  Contents,   \* contents the other sources may have
  Country,
  AddressesOf, \* the addresses of a node, as a sequence of country codes
  Configs     \* policy.filter and geo

(* AddressesOf gives, for each address, the country the database knows it  *)
(* by, or Nowhere.                                                         *)
Nowhere == "nowhere"

ASSUME SourcesAssumption ==
  Sources \in Seq([name : SourceName, kind : {"remote", "file", "node"}])

Link == [key : Key, label : Label, good : BOOLEAN]

TextLine ==
  [form : {"link", "bare"}, link : Link \ {NoLink}]
    \cup [form : {"comment"}, link : Link \cup {NoLink}]

Content ==
  [form : {"text"}, lines : Seq(TextLine), marked : BOOLEAN]
    \cup [form : {"base64"}, links : Seq(Link), rows : Nat]
    \cup [form : {"document"}, links : Seq(Link), parses : BOOLEAN]

ASSUME LinksAssumption == Links \subseteq Link
ASSUME ContentsAssumption == Contents \subseteq Content
ASSUME AddressesAssumption ==
  Nowhere \notin Country /\ AddressesOf \in [Key -> Seq(Country \cup {Nowhere})]
ASSUME ConfigsAssumption ==
  Configs \subseteq [allow : SUBSET Country, block : SUBSET Country,
                     path : BOOLEAN, url : BOOLEAN]

GoodLink == [key : Key, label : Label, good : {TRUE}]

Result == [ok : BOOLEAN, nodes : Seq(GoodLink), unsupported : Nat]

(* A node of NodeMetadata, its source names as a set.                      *)
Node ==
  [key : Key, label : Label, names : SUBSET SourceName, country : Country \cup {Nowhere}]

VARIABLES
  cfg,
  phase,
  next,        \* index of the loop that runs
  read,        \* kind and content of the source read last
  raw,         \* rawNodes
  statuses,    \* sources
  deduped,
  mmdb,        \* the file of the country database
  resolved,
  failed,      \* nodes that could not be located
  candidates,
  dropped

vars == <<cfg, phase, next, read, raw, statuses, deduped, mmdb, resolved, failed,
          candidates, dropped>>

Phases == {"idle", "collecting", "deduplicating", "preparing", "downloading",
           "opening", "locating", "filtering", "publishing"}

Nothing == <<>>

Status == [ok : BOOLEAN, nodes : Nat, unsupported : Nat]

(* What the loop of a phase runs over.                                     *)
Loop ==
  CASE phase = "collecting" -> Sources
    [] phase = "deduplicating" -> raw
    [] phase = "locating" -> deduped
    [] phase \in {"filtering", "publishing"} -> resolved
    [] OTHER -> <<>>

TypeOK ==
  /\ cfg \in Configs
  /\ phase \in Phases
  /\ next \in 1..(Len(Loop) + 1)
  /\ read \in {Nothing} \cup ({"remote", "file"} \X Contents)
  /\ raw \in Seq(Node)
  /\ statuses \in Seq(Status)
  /\ deduped \in Seq(Node)
  /\ mmdb \in {"absent", "damaged", "intact"}
  /\ resolved \in Seq(Node)
  /\ failed \in Nat
  /\ candidates \in Seq(Node)
  /\ dropped \in Seq(Node)

(* The refresh ends; its local variables are gone.                         *)
Reset ==
  /\ next' = 1
  /\ read' = Nothing
  /\ raw' = <<>>
  /\ statuses' = <<>>
  /\ deduped' = <<>>
  /\ resolved' = <<>>
  /\ failed' = 0
  /\ candidates' = <<>>
  /\ dropped' = <<>>

Init ==
  /\ cfg \in Configs
  /\ phase = "idle"
  /\ mmdb \in {"absent", "damaged", "intact"}
  /\ next = 1
  /\ read = Nothing
  /\ raw = <<>>
  /\ statuses = <<>>
  /\ deduped = <<>>
  /\ resolved = <<>>
  /\ failed = 0
  /\ candidates = <<>>
  /\ dropped = <<>>

-----------------------------------------------------------------------------
(* Collecting.                                                             *)

Begin ==
  /\ phase = "idle"
  /\ phase' = "collecting"
  /\ Reset
  /\ UNCHANGED <<cfg, mmdb>>

Named(links, name) ==
  [i \in 1..Len(links) |->
     [key |-> links[i].key, label |-> links[i].label, names |-> {name},
      country |-> Nowhere]]

Record(result) ==
  /\ statuses' = Append(statuses, [ok |-> result.ok, nodes |-> Len(result.nodes),
                                   unsupported |-> result.unsupported])
  /\ raw' = raw \o Named(result.nodes, Sources[next].name)
  /\ next' = next + 1
  /\ UNCHANGED <<cfg, phase, deduped, mmdb, resolved, failed, candidates, dropped>>

Reading == phase = "collecting" /\ next <= Len(Sources)

FetchSource ==
  /\ Reading /\ Sources[next].kind # "node"
  /\ \E content \in Contents :
       /\ read' = <<Sources[next].kind, content>>
       /\ Record(ParseSourceContent(Sources[next].kind, content))

MutantFetchFails ==
  /\ Reading /\ Sources[next].kind # "node"
  /\ read' = Nothing
  /\ statuses' = Append(statuses, [ok |-> FALSE, nodes |-> 0, unsupported |-> 0])
  /\ next' = Len(Sources) + 1
  /\ UNCHANGED <<cfg, phase, raw, deduped, mmdb, resolved, failed, candidates, dropped>>

(* No answer, a bad status, no such file.                                  *)
FetchFails ==
  /\ Reading /\ Sources[next].kind # "node"
  /\ read' = Nothing
  /\ Record(Failure)

ReadNode ==
  /\ Reading /\ Sources[next].kind = "node"
  /\ read' = Nothing
  /\ \E link \in Links : Record(IF link.good THEN Success(<<link>>, 0) ELSE Failure)

Collected ==
  /\ phase = "collecting" /\ next > Len(Sources)
  /\ phase' = "deduplicating"
  /\ next' = 1
  /\ read' = Nothing
  /\ UNCHANGED <<cfg, raw, statuses, deduped, mmdb, resolved, failed, candidates,
                 dropped>>

-----------------------------------------------------------------------------
(* DedupNodes.                                                             *)

Deduplicating == phase = "deduplicating" /\ next <= Len(raw)

IndexOf(key) == {i \in 1..Len(deduped) : deduped[i].key = key}

KeepNode ==
  /\ Deduplicating
  /\ IndexOf(raw[next].key) = {}
  /\ deduped' = Append(deduped, raw[next])
  /\ next' = next + 1
  /\ UNCHANGED <<cfg, phase, read, raw, statuses, mmdb, resolved, failed, candidates,
                 dropped>>

MutantMergeNode ==
  /\ Deduplicating
  /\ \E i \in IndexOf(raw[next].key) :
       deduped' = [deduped EXCEPT ![i] = raw[next]]
  /\ next' = next + 1
  /\ UNCHANGED <<cfg, phase, read, raw, statuses, mmdb, resolved, failed, candidates,
                 dropped>>

MergeNode ==
  /\ Deduplicating
  /\ \E i \in IndexOf(raw[next].key) :
       deduped' = [deduped EXCEPT ![i].names = @ \cup raw[next].names]
  /\ next' = next + 1
  /\ UNCHANGED <<cfg, phase, read, raw, statuses, mmdb, resolved, failed, candidates,
                 dropped>>

(* applyGeo returns at once when there are no nodes.                       *)
Deduplicated ==
  /\ phase = "deduplicating" /\ next > Len(raw)
  /\ phase' = IF deduped = <<>> THEN "filtering" ELSE "preparing"
  /\ next' = 1
  /\ UNCHANGED <<cfg, read, raw, statuses, deduped, mmdb, resolved, failed, candidates,
                 dropped>>

-----------------------------------------------------------------------------
(* applyGeo.                                                               *)

(* Every way in which the database is not to be had: the nodes go on       *)
(* without a country.                                                      *)
SkipGeo ==
  /\ phase' = "filtering"
  /\ next' = 1
  /\ resolved' = deduped
  /\ UNCHANGED <<cfg, read, raw, statuses, deduped, failed, candidates, dropped>>

GoTo(p) ==
  /\ phase' = p
  /\ UNCHANGED <<cfg, next, read, raw, statuses, deduped, resolved, failed, candidates,
                 dropped>>

(* prepareMMDBPath: the configured path, the default file if there is one, *)
(* a download, or nothing.                                                 *)
Prepare ==
  /\ phase = "preparing"
  /\ \/ (cfg.path \/ mmdb # "absent") /\ GoTo("opening")
     \/ ~cfg.path /\ mmdb = "absent" /\ cfg.url /\ GoTo("downloading")
     \/ ~cfg.path /\ mmdb = "absent" /\ ~cfg.url /\ SkipGeo
  /\ UNCHANGED mmdb

(* downloadMMDB: what comes with a good status is written, whatever it is. *)
Download ==
  /\ phase = "downloading"
  /\ mmdb' \in {"intact", "damaged"}
  /\ GoTo("opening")

DownloadFails ==
  /\ phase = "downloading"
  /\ SkipGeo
  /\ UNCHANGED mmdb

(* os.WriteFile leaves nothing, or a piece.                                *)
WriteFails ==
  /\ phase = "downloading"
  /\ mmdb' \in {"absent", "damaged"}
  /\ SkipGeo

Open ==
  /\ phase = "opening"
  /\ \/ mmdb = "intact" /\ GoTo("locating")
     \/ mmdb # "intact" /\ SkipGeo
  /\ UNCHANGED mmdb

Locating == phase = "locating" /\ next <= Len(deduped)

(* ResolveNodeCountry: the first address that has a country decides.       *)
Decides(key, i) ==
  /\ AddressesOf[key][i] # Nowhere
  /\ \A j \in 1..(i - 1) : AddressesOf[key][j] = Nowhere

Placed(node, i) == [node EXCEPT !.country = AddressesOf[node.key][i]]

MutantLocateNode ==
  /\ Locating
  /\ LET node == deduped[next]
         places == {i \in DOMAIN AddressesOf[node.key] : Decides(node.key, i)} IN
     \/ \E i \in places : resolved' = Append(resolved, Placed(node, i))
     \/ places = {} /\ resolved' = Append(resolved, node)
  /\ next' = next + 1
  /\ UNCHANGED <<cfg, phase, read, raw, statuses, deduped, mmdb, failed, candidates,
                 dropped>>

LocateNode ==
  /\ Locating
  /\ \E i \in DOMAIN AddressesOf[deduped[next].key] :
       /\ Decides(deduped[next].key, i)
       /\ resolved' = Append(resolved, Placed(deduped[next], i))
  /\ next' = next + 1
  /\ UNCHANGED <<cfg, phase, read, raw, statuses, deduped, mmdb, failed, candidates,
                 dropped>>

(* The name does not resolve in time, or no address has a country: the     *)
(* node is left out.                                                       *)
LocateFails ==
  /\ Locating
  /\ failed' = failed + 1
  /\ next' = next + 1
  /\ UNCHANGED <<cfg, phase, read, raw, statuses, deduped, mmdb, resolved, candidates,
                 dropped>>

Located ==
  /\ phase = "locating" /\ next > Len(deduped)
  /\ phase' = "filtering"
  /\ next' = 1
  /\ UNCHANGED <<cfg, read, raw, statuses, deduped, mmdb, resolved, failed, candidates,
                 dropped>>

-----------------------------------------------------------------------------
(* Engine.Filter and what RefreshOnce does next.                           *)

Filtering == phase = "filtering" /\ next <= Len(resolved)

Passes(country) ==
  /\ country \notin cfg.block
  /\ cfg.allow # {} => country \in cfg.allow

Accept ==
  /\ Filtering
  /\ Passes(resolved[next].country)
  /\ candidates' = Append(candidates, resolved[next])
  /\ next' = next + 1
  /\ UNCHANGED <<cfg, phase, read, raw, statuses, deduped, mmdb, resolved, failed,
                 dropped>>

Drop ==
  /\ Filtering
  /\ ~Passes(resolved[next].country)
  /\ dropped' = Append(dropped, resolved[next])
  /\ next' = next + 1
  /\ UNCHANGED <<cfg, phase, read, raw, statuses, deduped, mmdb, resolved, failed,
                 candidates>>

Filtered ==
  /\ phase = "filtering" /\ next > Len(resolved)
  /\ candidates # <<>>
  /\ phase' = "publishing"
  /\ UNCHANGED <<cfg, next, read, raw, statuses, deduped, mmdb, resolved, failed,
                 candidates, dropped>>

(* Without a candidate the refresh is an error.                            *)
NoCandidates ==
  /\ phase = "filtering" /\ next > Len(resolved)
  /\ candidates = <<>>
  /\ phase' = "idle"
  /\ Reset
  /\ UNCHANGED <<cfg, mmdb>>

(* Scores, core and snapshot (module Runtime).                             *)
Publish ==
  /\ phase = "publishing"
  /\ phase' = "idle"
  /\ Reset
  /\ UNCHANGED <<cfg, mmdb>>

-----------------------------------------------------------------------------

Step ==
  \/ FetchSource
  \/ FetchFails
  \/ ReadNode
  \/ Collected
  \/ KeepNode
  \/ MergeNode
  \/ Deduplicated
  \/ Prepare
  \/ Open
  \/ LocateNode
  \/ LocateFails
  \/ Located
  \/ Accept
  \/ Drop
  \/ Filtered
  \/ NoCandidates
  \/ Publish

Next == Begin \/ Step \/ Download \/ DownloadFails \/ WriteFails

Spec == Init /\ [][Next]_vars

-----------------------------------------------------------------------------

HidesNothing(content) ==
  \A i \in 1..Len(content.lines) :
    content.lines[i].form = "comment" => content.lines[i].link = NoLink

LinksOfLines(content) ==
  LinksOf(content.lines, {i \in DOMAIN content.lines : content.lines[i].link # NoLink})

LastStatus == statuses[Len(statuses)]

(* The source counts the good ones of these links and the others, and is   *)
(* an error if none is good.                                               *)
Yields(links) ==
  /\ LastStatus.ok = (Good(links) # <<>>)
  /\ LastStatus.ok =>
       /\ LastStatus.nodes = Len(Good(links))
       /\ LastStatus.unsupported = Len(links) - Len(Good(links))

CleanTextIsRead ==
  read # Nothing /\ IsText(read[2]) /\ HidesNothing(read[2]) => Yields(LinksOfLines(read[2]))

OutsideComments(content) ==
  LinksOf(content.lines, {i \in DOMAIN content.lines : content.lines[i].form # "comment"})

NoTextShrinks ==
  read # Nothing /\ IsText(read[2]) /\ LastStatus.ok =>
    LastStatus.nodes + LastStatus.unsupported >= Len(OutsideComments(read[2]))

EncodedListIsRead ==
  read # Nothing /\ read[2].form = "base64" =>
    LET links == Distinct(read[2].links) IN
    IF read[1] = "remote" /\ read[2].rows <= Len(links)
      THEN Yields(links)
      ELSE ~LastStatus.ok

DocumentIsRead ==
  read # Nothing /\ Handled(read[2]) =>
    /\ LastStatus.ok =
         (read[2].form = "document" /\ read[2].parses /\ Good(read[2].links) # <<>>)
    /\ LastStatus.ok =>
         LastStatus.nodes = Len(Good(read[2].links)) /\ LastStatus.unsupported = 0

(* What becomes of a content, whichever of its readings wins.  A text in   *)
(* which comments hide no link loses none, from either kind of source: its *)
(* good links count once each, and the others too.  If comments do hide    *)
(* links, those may stand in for bare lines, but the source counts no      *)
(* fewer than there are outside comments, or is an error.  A base64 list   *)
(* gives its links from a remote source, if it has no more rows than       *)
(* links, and is an error otherwise.  And what looks like a document gives *)
(* the good links of one, or is an error even if it is a list.             *)
ListsAreRead == CleanTextIsRead /\ NoTextShrinks /\ EncodedListIsRead /\ DocumentIsRead

(* Deduplication: one node for each key that was read, in the order and    *)
(* with the label of its first occurrence, and with the names of all the   *)
(* sources that have it.                                                   *)
First(list, key) == CHOOSE i \in 1..Len(list) :
  list[i].key = key /\ \A j \in 1..(i - 1) : list[j].key # key

Keys(list) == {list[i].key : i \in 1..Len(list)}

DedupIsExact ==
  phase \in Phases \ {"idle", "collecting", "deduplicating"} =>
    /\ Keys(deduped) = Keys(raw)
    /\ \A i, j \in 1..Len(deduped) :
         i < j => First(raw, deduped[i].key) < First(raw, deduped[j].key)
    /\ \A i \in 1..Len(deduped) :
         /\ deduped[i].label = raw[First(raw, deduped[i].key)].label
         /\ deduped[i].names =
              UNION {raw[j].names : j \in {k \in 1..Len(raw) : raw[k].key = deduped[i].key}}

(* Every node that was read has a source that worked and bears its name;   *)
(* the sources' nodes stand in the order of the sources, and a source      *)
(* counts as many as stem from it.                                         *)
Explains(origin) ==
  /\ \A i, j \in 1..Len(raw) : i < j => origin[i] <= origin[j]
  /\ \A i \in 1..Len(raw) :
       raw[i].names = {Sources[origin[i]].name} /\ statuses[origin[i]].ok
  /\ \A s \in 1..Len(statuses) :
       statuses[s].nodes = Cardinality({i \in 1..Len(raw) : origin[i] = s})

StatusesExplainRaw ==
  /\ Len(statuses) = Len(Sources)
  /\ \E origin \in [1..Len(raw) -> 1..Len(statuses)] : Explains(origin)

(* What is published accounts for every source and every node.  Each       *)
(* source was read whatever became of the others; every node that was gone *)
(* on with was counted for its source and comes from one that worked; and  *)
(* every node that was read is a candidate or dropped, one of the two, or  *)
(* one of those not located.  (The variables keep their types.)            *)
EveryNodeIsAccountedFor ==
  /\ TypeOK
  /\ phase = "publishing" =>
       /\ StatusesExplainRaw
       /\ Keys(candidates) \cup Keys(dropped) = Keys(resolved)
       /\ Keys(candidates) \cap Keys(dropped) = {}
       /\ Len(candidates) + Len(dropped) = Len(resolved)
       /\ Len(resolved) + failed = Cardinality(Keys(raw))

AllowIsStrict ==
  cfg.allow # {} =>
    \A i \in 1..Len(candidates) :
      \E j \in 1..Len(AddressesOf[candidates[i].key]) :
        AddressesOf[candidates[i].key][j] \in cfg.allow

BlockedStayOut ==
  \A i \in 1..Len(candidates) :
    \/ \E j \in 1..Len(AddressesOf[candidates[i].key]) :
         AddressesOf[candidates[i].key][j] \in Country \ cfg.block
    \/ candidates[i].country = Nowhere /\ cfg.allow = {}

DroppedForCause ==
  \A i \in 1..Len(dropped) :
    \/ dropped[i].country = Nowhere /\ cfg.allow # {}
    \/ \E j \in 1..Len(AddressesOf[dropped[i].key]) :
         LET country == AddressesOf[dropped[i].key][j] IN
         /\ country # Nowhere
         /\ country \in cfg.block \/ (cfg.allow # {} /\ country \notin cfg.allow)

LocatedAllOrNone ==
  \/ \A i \in 1..Len(resolved) : resolved[i].country # Nowhere
  \/ failed = 0 /\ \A i \in 1..Len(resolved) : resolved[i].country = Nowhere

(* With an allow list no node gets through unless one of its addresses is  *)
(* in a country of the list, also when there is no database.  A node all   *)
(* of whose addresses are in blocked countries, or unknown, is a candidate *)
(* only without a country: when the database is missing and there is no    *)
(* allow list.  The other way round, a node is dropped only if an address  *)
(* of it is in a country that the lists refuse, or if it has no country    *)
(* and there is an allow list.  And a node that cannot be located does not *)
(* pass for one of a refresh without a database: all published nodes were  *)
(* located or none.                                                        *)
FilterHolds ==
  phase = "publishing" =>
    AllowIsStrict /\ BlockedStayOut /\ DroppedForCause /\ LocatedAllOrNone

=============================================================================
