------------------------ MODULE SourcePipeline_proofs ------------------------
(***************************************************************************)
(* Proofs about SourcePipeline, for any sources, contents, nodes, addresses *)
(* and configurations: what is published accounts for every node that was  *)
(* read, deduplication is exact, and the country filter holds.             *)
(*                                                                         *)
(* The invariant has a part for each stage.  Each says what the stage's    *)
(* loop has done up to its index, and what it leaves behind when it ends.  *)
(***************************************************************************)
EXTENDS SourcePipeline, Lists_proofs, SequenceTheorems, FiniteSetTheorems, TLAPS

(* The phases before the sources are read, before the nodes are located    *)
(* and before they are filtered.                                           *)
Unread == {"idle", "collecting"}
Unlocated == Unread \cup {"deduplicating", "preparing", "downloading", "opening"}
Unfiltered == Unlocated \cup {"locating"}

(* The status recorded last is that of the content read last.              *)
ReadInv ==
  read # Nothing =>
    LET result == ParseSourceContent(read[1], read[2])
    IN  /\ phase = "collecting" /\ Len(statuses) > 0
        /\ statuses[Len(statuses)] = [ok |-> result.ok, nodes |-> Len(result.nodes),
                                      unsupported |-> result.unsupported]

(* collectNodesDetailed: a status per source read, and every raw node has  *)
(* a source.                                                               *)
CollectInv ==
  /\ phase = "idle" => raw = <<>> /\ statuses = <<>>
  /\ phase = "collecting" => Len(statuses) = next - 1
  /\ phase \notin Unread => Len(statuses) = Len(Sources)
  /\ \A i \in 1..Len(raw) : raw[i].country = Nowhere
  /\ \E origin \in [1..Len(raw) -> 1..Len(statuses)] : Explains(origin)

(* DedupNodes: the list is what the first n raw nodes merge to.            *)
IsFirst(list, key, f) ==
  /\ list[f].key = key
  /\ \A k \in 1..(f - 1) : list[k].key # key

KeysDiffer(list) == \A i, j \in 1..Len(list) : list[i].key = list[j].key => i = j

Sharing(list, key, n) == {k \in 1..n : list[k].key = key}

NamesOf(list, key, n) == UNION {list[k].names : k \in Sharing(list, key, n)}

Merged(n) ==
  /\ KeysDiffer(deduped)
  /\ \A k \in 1..n : \E i \in 1..Len(deduped) : deduped[i].key = raw[k].key
  /\ \A i \in 1..Len(deduped) : \E f \in 1..n :
       IsFirst(raw, deduped[i].key, f) /\ deduped[i].label = raw[f].label
  /\ \A i, j \in 1..Len(deduped), f, g \in 1..n :
       i < j /\ IsFirst(raw, deduped[i].key, f) /\ IsFirst(raw, deduped[j].key, g) => f < g
  /\ \A i \in 1..Len(deduped) :
       /\ deduped[i].names = NamesOf(raw, deduped[i].key, n)
       /\ deduped[i].country = Nowhere

DedupInv ==
  /\ phase \in Unread => deduped = <<>>
  /\ phase = "deduplicating" => Merged(next - 1)
  /\ phase \notin Unread \cup {"deduplicating"} => Merged(Len(raw))

(* applyGeo: of the first n deduplicated nodes each is located or failed.  *)
InItsCountry(node) ==
  /\ node.country # Nowhere
  /\ \E a \in DOMAIN AddressesOf[node.key] : AddressesOf[node.key][a] = node.country

Resolved(n) ==
  /\ Len(resolved) + failed = n
  /\ KeysDiffer(resolved)
  /\ \A i \in 1..Len(resolved) : \E k \in 1..n : resolved[i].key = deduped[k].key

LocateInv ==
  /\ phase \in Unlocated => resolved = <<>> /\ failed = 0
  /\ phase = "locating" => Resolved(next - 1)
  /\ phase \notin Unfiltered => Resolved(Len(deduped))
  /\ \/ \A i \in 1..Len(resolved) : InItsCountry(resolved[i])
     \/ /\ phase # "locating" /\ failed = 0
        /\ \A i \in 1..Len(resolved) : resolved[i].country = Nowhere

(* Engine.Filter: the first n nodes are divided in two.                    *)
Divided(n) ==
  /\ Len(candidates) + Len(dropped) = n
  /\ \A k \in 1..n : \/ \E i \in 1..Len(candidates) : candidates[i] = resolved[k]
                     \/ \E i \in 1..Len(dropped) : dropped[i] = resolved[k]
  /\ \A i \in 1..Len(candidates) :
       Passes(candidates[i].country) /\ \E k \in 1..n : candidates[i] = resolved[k]
  /\ \A i \in 1..Len(dropped) :
       ~Passes(dropped[i].country) /\ \E k \in 1..n : dropped[i] = resolved[k]

FilterInv ==
  /\ phase \in Unfiltered => candidates = <<>> /\ dropped = <<>>
  /\ phase \notin Unfiltered => Divided(next - 1)
  /\ phase = "publishing" => next = Len(resolved) + 1

IInv == TypeOK /\ ReadInv /\ CollectInv /\ DedupInv /\ LocateInv /\ FilterInv

-----------------------------------------------------------------------------
(* Types                                                                   *)

LEMMA SourcesTyped ==
  ASSUME NEW i \in 1..Len(Sources)
  PROVE  Sources[i].name \in SourceName /\ Sources[i].kind \in {"remote", "file", "node"}
<1>1. Sources[i] \in [name : SourceName, kind : {"remote", "file", "node"}]
  BY SourcesAssumption, ElementOfSeq
<1> QED
  BY <1>1

LEMMA LenSources == Len(Sources) \in Nat
BY SourcesAssumption

LEMMA NamedTyped ==
  ASSUME NEW links \in Seq(GoodLink), NEW name \in SourceName
  PROVE  /\ Named(links, name) \in Seq(Node)
         /\ Len(Named(links, name)) = Len(links)
         /\ \A i \in 1..Len(links) : Named(links, name)[i].names = {name}
                                     /\ Named(links, name)[i].country = Nowhere
<1>1. Len(links) \in Nat
  OBVIOUS
<1>2. ASSUME NEW i \in 1..Len(links)
      PROVE  /\ Named(links, name)[i] \in Node
             /\ Named(links, name)[i].names = {name}
             /\ Named(links, name)[i].country = Nowhere
  <2>1. links[i] \in GoodLink
    BY ElementOfSeq
  <2> QED
    BY <2>1 DEF Named, Node, GoodLink
<1>3. Named(links, name) \in [1..Len(links) -> Node]
  BY <1>2 DEF Named
<1>4. Named(links, name) \in Seq(Node)
  BY <1>1, <1>3, SeqDef
<1>5. Len(Named(links, name)) = Len(links)
  BY <1>1 DEF Named
<1> QED
  BY <1>2, <1>4, <1>5

(* A source that failed gives no nodes.                                    *)
LEMMA FailureTyped == Failure \in Result /\ Failure.nodes = <<>>
BY DEF Failure, Result

-----------------------------------------------------------------------------
(* Contents                                                                *)

(* What an entry of a content may be.                                      *)
AnEntry == Link \cup {NoLink, Row}

LEMMA GoodLinks ==
  ASSUME NEW links \in Seq(AnEntry)
  PROVE  /\ Good(links) \in Seq(GoodLink)
         /\ Len(Good(links)) \in Nat /\ Len(Good(links)) <= Len(links)
         /\ Good(links) = <<>> <=> \A i \in DOMAIN links : ~links[i].good
<1> DEFINE S == {i \in DOMAIN links : links[i].good}
<1>1. \A i \in S : links[i] \in GoodLink
  <2> TAKE i \in S
  <2>1. links[i] \in AnEntry /\ links[i].good
    BY ElementOfSeq
  <2>2. ~NoLink.good /\ ~Row.good
    BY DEF NoLink, Row
  <2>3. links[i] \in Link
    BY <2>1, <2>2 DEF AnEntry
  <2> QED
    BY <2>1, <2>3 DEF Link, GoodLink
<1>2. Good(links) \in Seq(GoodLink) /\ (Good(links) = <<>> <=> S = {})
  BY <1>1, SublistTyped DEF Good
<1>3. S \in SUBSET Nat /\ IsFiniteSet(S) /\ S \in SUBSET (1..Len(links)) /\ Len(links) \in Nat
  BY PositionsFinite
<1>4. Cardinality(S) <= Cardinality(1..Len(links))
  BY <1>3, FS_Interval, FS_Subset
<1>5. Cardinality(1..Len(links)) = Len(links)
  <2>1. Cardinality(1..Len(links)) = IF 1 > Len(links) THEN 0 ELSE Len(links) - 1 + 1
    BY <1>3, FS_Interval
  <2> QED
    BY <1>3, <2>1
<1>6. Len(Good(links)) = Cardinality(S)
  BY <1>3, SublistFacts DEF Good
<1> QED
  BY <1>2, <1>4, <1>5, <1>6

(* Of distinct entries as many are good as there are good ones in the set. *)
LEMMA GoodOnes ==
  ASSUME NEW links \in Seq(AnEntry), \A i, j \in DOMAIN links : links[i] = links[j] => i = j
  PROVE  Len(Good(links)) = Cardinality({link \in ToSet(links) : link.good})
<1> DEFINE S == {i \in DOMAIN links : links[i].good}
           V == {link \in ToSet(links) : link.good}
<1>1. S \in SUBSET DOMAIN links /\ S \in SUBSET Nat /\ IsFiniteSet(S)
  BY PositionsFinite
<1>2. /\ \A i, j \in S : links[i] = links[j] => i = j
      /\ \A i \in S : links[i] \in V
      /\ \A v \in V : \E i \in S : links[i] = v
  BY DEF ToSet
<1>3. Len(Good(links)) = Cardinality(S)
  BY <1>1, SublistFacts DEF Good
<1>4. Cardinality(V) = Cardinality(S)
  <2> HIDE DEF S, V
  <2> QED
    BY <1>1, <1>2, ValuesCounted
<1> QED
  BY <1>3, <1>4

(* The links of chosen lines: each once, and no others.                    *)
LEMMA LinksOfLinesFacts ==
  ASSUME NEW lines \in Seq(TextLine), NEW chosen \in SUBSET DOMAIN lines
  PROVE  LET links == LinksOf(lines, chosen)
         IN  /\ links \in Seq(AnEntry)
             /\ ToSet(links) = {lines[i].link : i \in chosen}
             /\ \A i, j \in DOMAIN links : links[i] = links[j] => i = j
             /\ Len(links) = Cardinality({lines[i].link : i \in chosen})
             /\ IsFiniteSet({lines[i].link : i \in chosen})
<1> DEFINE all == [i \in DOMAIN lines |-> lines[i].link]
<1>1. \A i \in DOMAIN lines : lines[i].link \in AnEntry
  <2> TAKE i \in DOMAIN lines
  <2>1. lines[i] \in TextLine
    BY ElementOfSeq
  <2> QED
    BY <2>1 DEF TextLine, AnEntry
<1>2. all \in Seq(AnEntry) /\ DOMAIN all = DOMAIN lines
  <2>1. DOMAIN lines = 1..Len(lines) /\ Len(lines) \in Nat
    OBVIOUS
  <2>2. all \in [1..Len(lines) -> AnEntry]
    BY <1>1, <2>1
  <2> QED
    BY <2>1, <2>2, SeqDef
<1>3. \A i \in chosen : all[i] \in AnEntry
  BY <1>1
<1>4. Sublist(all, chosen) \in Seq(AnEntry)
  BY <1>2, <1>3, SublistTyped
<1>5. chosen \in SUBSET Nat /\ IsFiniteSet(chosen)
  BY PositionsFinite
<1>6. ToSet(Sublist(all, chosen)) = {all[i] : i \in chosen}
  BY <1>5, SublistFacts
<1>7. {all[i] : i \in chosen} = {lines[i].link : i \in chosen}
  OBVIOUS
<1>8. LinksOf(lines, chosen) = Distinct(Sublist(all, chosen))
  BY DEF LinksOf
<1> QED
  BY <1>4, <1>6, <1>7, <1>8, DistinctFacts

(* What is not a document has entries.                                     *)
LEMMA EntriesTyped ==
  ASSUME NEW content \in Content, NEW kind, ~Handled(content)
  PROVE  Entries(kind, content) \in Seq(AnEntry)
<1>1. CASE content.form = "text"
  <2>1. content.lines \in Seq(TextLine)
    BY <1>1 DEF Content
  <2>2. ParseEntriesFromContent(content) \in Seq(AnEntry)
    BY <1>1, <2>1, LinksOfLinesFacts DEF ParseEntriesFromContent, LinksIn
  <2>3. ParseEntriesFromLines(content) \in Seq(AnEntry)
    BY <1>1, <2>1, LinksOfLinesFacts DEF ParseEntriesFromLines
  <2> QED
    BY <2>2, <2>3 DEF Entries
<1>2. CASE content.form = "base64"
  <2>1. content.links \in Seq(Link) /\ content.rows \in Nat
    BY <1>2 DEF Content
  <2>2. content.links \in Seq(AnEntry)
    BY <2>1 DEF AnEntry
  <2>3. ParseEntriesFromContent(content) \in Seq(AnEntry)
    BY <1>2, <2>2, DistinctFacts DEF ParseEntriesFromContent
  <2>4. [i \in 1..content.rows |-> Row] \in [1..content.rows -> AnEntry]
    BY DEF AnEntry
  <2>5. ParseEntriesFromLines(content) \in Seq(AnEntry)
    BY <1>2, <2>1, <2>4, SeqDef DEF ParseEntriesFromLines
  <2> QED
    BY <2>3, <2>5 DEF Entries
<1> QED
  BY <1>1, <1>2 DEF Handled, Content

(* A source that is read yields good links, or fails and yields none.      *)
LEMMA ContentResult ==
  ASSUME NEW content \in Contents, NEW kind \in {"remote", "file"}
  PROVE  /\ ParseSourceContent(kind, content) \in Result
         /\ ~ParseSourceContent(kind, content).ok =>
              ParseSourceContent(kind, content).nodes = <<>>
<1>1. content \in Content
  BY ContentsAssumption
<1>2. \A nodes, unsupported : Success(nodes, unsupported).ok
  BY DEF Success
<1>3. CASE Handled(content)
  <2>1. DocumentNodes(content) \in Seq(GoodLink)
    <3>1. CASE content.form = "document" /\ content.parses
      <4>1. content.links \in Seq(AnEntry)
        BY <1>1, <3>1 DEF Content, AnEntry
      <4> QED
        BY <3>1, <4>1, GoodLinks DEF DocumentNodes
    <3>2. CASE ~(content.form = "document" /\ content.parses)
      BY <3>2 DEF DocumentNodes
    <3> QED
      BY <3>1, <3>2
  <2>2. Success(DocumentNodes(content), 0) \in Result
    BY <2>1 DEF Success, Result
  <2> QED
    BY <1>2, <1>3, <2>2, FailureTyped DEF ParseSourceContent
<1>4. CASE ~Handled(content)
  <2> DEFINE entries == Entries(kind, content)
             nodes == Good(entries)
  <2>1. entries \in Seq(AnEntry)
    BY <1>1, <1>4, EntriesTyped
  <2>2. /\ nodes \in Seq(GoodLink) /\ Len(nodes) \in Nat /\ Len(entries) \in Nat
        /\ Len(nodes) <= Len(entries)
    BY <2>1, GoodLinks
  <2>3. Success(nodes, Len(entries) - Len(nodes)) \in Result
    BY <2>2 DEF Success, Result
  <2>4. ParseSourceContent(kind, content) =
          IF nodes = <<>> THEN Failure ELSE Success(nodes, Len(entries) - Len(nodes))
    BY <1>4 DEF ParseSourceContent
  <2> QED
    BY <1>2, <2>3, <2>4, FailureTyped
<1> QED
  BY <1>3, <1>4

LEMMA LinkResult ==
  ASSUME NEW link \in Links, link.good
  PROVE  Success(<<link>>, 0) \in Result /\ Success(<<link>>, 0).ok
<1>1. link \in Link
  BY LinksAssumption
<1>2. link \in GoodLink
  BY <1>1 DEF Link, GoodLink
<1> QED
  BY <1>2 DEF Success, Result

(* What a read of a source may record.                                     *)
Recording ==
  /\ Reading
  /\ read' \in {Nothing} \cup ({"remote", "file"} \X Contents)
  /\ \E result \in Result : (~result.ok => result.nodes = <<>>) /\ Record(result)

LEMMA ReadsRecord ==
  ASSUME TypeOK, FetchSource \/ FetchFails \/ ReadNode
  PROVE  Recording
<1>1. Reading => Sources[next].kind \in {"remote", "file", "node"}
  BY SourcesTyped, LenSources DEF Reading, TypeOK, Loop
<1>2. CASE FetchSource
  <2>1. PICK content \in Contents :
          /\ read' = <<Sources[next].kind, content>>
          /\ Record(ParseSourceContent(Sources[next].kind, content))
    BY <1>2 DEF FetchSource
  <2>2. Reading /\ Sources[next].kind \in {"remote", "file"}
    BY <1>1, <1>2 DEF FetchSource
  <2> QED
    BY <2>1, <2>2, ContentResult DEF Recording
<1>3. CASE FetchFails
  BY <1>3, FailureTyped DEF FetchFails, Recording
<1>4. CASE ReadNode
  <2>1. PICK link \in Links : Record(IF link.good THEN Success(<<link>>, 0) ELSE Failure)
    BY <1>4 DEF ReadNode
  <2> QED
    BY <1>4, <2>1, LinkResult, FailureTyped DEF ReadNode, Recording
<1> QED
  BY <1>2, <1>3, <1>4

LEMMA RecordTyped == TypeOK /\ Recording => TypeOK'
<1> SUFFICES ASSUME TypeOK, Recording PROVE TypeOK'
  OBVIOUS
<1>1. PICK result \in Result : Record(result)
  BY DEF Recording
<1>2. phase = "collecting" /\ next \in 1..Len(Sources) /\ phase' = phase /\ next' = next + 1
  BY <1>1, LenSources DEF Recording, Reading, Record, TypeOK, Loop
<1>3. Named(result.nodes, Sources[next].name) \in Seq(Node)
  BY <1>2, NamedTyped, SourcesTyped DEF Result
<1>4. raw' \in Seq(Node)
  BY <1>1, <1>3, ConcatProperties DEF Record, TypeOK
<1>5. [ok |-> result.ok, nodes |-> Len(result.nodes), unsupported |-> result.unsupported] \in Status
  BY DEF Result, Status
<1>6. statuses' \in Seq(Status)
  BY <1>1, <1>5, AppendProperties DEF Record, TypeOK
<1>7. next' \in 1..(Len(Loop') + 1)
  BY <1>2, LenSources DEF Loop
<1> QED
  BY <1>1, <1>2, <1>4, <1>6, <1>7 DEF Record, Recording, TypeOK

LEMMA ResetTyped ==
  ASSUME TypeOK, Reset, phase' \in {"idle", "collecting"}, UNCHANGED <<cfg, mmdb>>
  PROVE  TypeOK'
<1>1. Len(Loop') \in Nat
  BY LenSources DEF Loop
<1> QED
  BY <1>1, EmptySeq DEF Reset, TypeOK, Phases

LEMMA InitTyped == Init => TypeOK
BY DEF Init, TypeOK, Loop, Phases

(* The phases of applyGeo but for the loop itself.                         *)
GeoStep ==
  \/ Prepare
  \/ Download
  \/ DownloadFails
  \/ WriteFails
  \/ Open

(* Each of them goes on with the database or without a country.            *)
LEMMA GeoSteps ==
  ASSUME GeoStep
  PROVE  /\ phase \in {"preparing", "downloading", "opening"}
         /\ cfg' = cfg
         /\ mmdb' \in {"absent", "damaged", "intact", mmdb}
         /\ \/ GoTo("opening")
            \/ GoTo("downloading")
            \/ GoTo("locating") /\ phase = "opening"
            \/ SkipGeo
<1>1. ASSUME NEW p, GoTo(p) PROVE cfg' = cfg
  BY <1>1 DEF GoTo
<1>2. SkipGeo => cfg' = cfg
  BY DEF SkipGeo
<1> QED
  BY <1>1, <1>2 DEF GeoStep, Prepare, Download, DownloadFails, WriteFails, Open

LEMMA PlacedTyped ==
  ASSUME NEW node \in Node, NEW i \in DOMAIN AddressesOf[node.key]
  PROVE  /\ Placed(node, i) \in Node
         /\ Placed(node, i).key = node.key
         /\ Placed(node, i).country = AddressesOf[node.key][i]
<1>1. AddressesOf[node.key] \in Seq(Country \cup {Nowhere})
  BY AddressesAssumption DEF Node
<1>2. AddressesOf[node.key][i] \in Country \cup {Nowhere}
  BY <1>1
<1> QED
  BY <1>2 DEF Placed, Node

LEMMA StepTyped == TypeOK /\ [Next]_vars => TypeOK'
<1> SUFFICES ASSUME TypeOK, [Next]_vars PROVE TypeOK'
  OBVIOUS
<1> USE LenSources DEF Phases
<1>1. CASE Begin \/ NoCandidates \/ Publish
  BY <1>1, ResetTyped DEF Begin, NoCandidates, Publish
<1>2. CASE FetchSource \/ FetchFails \/ ReadNode
  BY <1>2, ReadsRecord, RecordTyped
<1>3. CASE Collected
  BY <1>3 DEF Collected, TypeOK, Loop
<1>4. CASE KeepNode \/ MergeNode
  <2>1. /\ phase = "deduplicating" /\ phase' = phase
        /\ next \in 1..Len(raw) /\ next' = next + 1
    BY <1>4 DEF KeepNode, MergeNode, Deduplicating, TypeOK, Loop
  <2>2. raw[next] \in Node
    BY <2>1 DEF TypeOK
  <2>3. deduped' \in Seq(Node)
    <3>1. CASE KeepNode
      BY <2>2, <3>1, AppendProperties DEF KeepNode, TypeOK
    <3>2. CASE MergeNode
      <4>1. PICK i \in IndexOf(raw[next].key) :
              deduped' = [deduped EXCEPT ![i].names = @ \cup raw[next].names]
        BY <3>2 DEF MergeNode
      <4>2. i \in 1..Len(deduped) /\ deduped[i] \in Node
        BY DEF IndexOf, TypeOK
      <4>3. [deduped[i] EXCEPT !.names = @ \cup raw[next].names] \in Node
        BY <2>2, <4>2 DEF Node
      <4>4. deduped' = [deduped EXCEPT ![i] = [deduped[i] EXCEPT !.names = @ \cup raw[next].names]]
        BY <4>1
      <4>5. deduped \in Seq(Node)
        BY DEF TypeOK
      <4> QED
        BY <4>2, <4>3, <4>4, <4>5, ExceptSeq
    <3> QED
      BY <1>4, <3>1, <3>2
  <2>4. next' \in 1..(Len(Loop') + 1)
    <3>1. raw' = raw /\ Len(raw) \in Nat
      BY <1>4 DEF KeepNode, MergeNode, TypeOK
    <3>2. Loop' = raw
      BY <2>1, <3>1 DEF Loop
    <3> QED
      BY <2>1, <3>1, <3>2
  <2> QED
    BY <1>4, <2>1, <2>3, <2>4 DEF KeepNode, MergeNode, TypeOK
<1>5. CASE Deduplicated
  BY <1>5 DEF Deduplicated, TypeOK, Loop
<1>6. CASE GeoStep
  <2>1. CASE SkipGeo
    BY <1>6, <2>1, GeoSteps DEF SkipGeo, TypeOK, Loop
  <2>2. ASSUME NEW p \in {"opening", "downloading", "locating"}, GoTo(p) PROVE TypeOK'
    <3>1. Len(Loop) = 0 /\ next = 1
      BY <1>6, GeoSteps DEF Loop, TypeOK
    <3>2. Len(Loop') \in Nat
      BY <2>2 DEF Loop, GoTo, TypeOK
    <3> QED
      BY <1>6, <2>2, <3>1, <3>2, GeoSteps DEF GoTo, TypeOK
  <2> QED
    BY <1>6, <2>1, <2>2, GeoSteps
<1>7. CASE LocateNode \/ LocateFails
  <2>1. /\ phase = "locating" /\ phase' = phase
        /\ next \in 1..Len(deduped) /\ next' = next + 1
    BY <1>7 DEF LocateNode, LocateFails, Locating, TypeOK, Loop
  <2>2. deduped[next] \in Node
    BY <2>1 DEF TypeOK
  <2>3. resolved' \in Seq(Node)
    <3>1. CASE LocateNode
      <4>1. PICK i \in DOMAIN AddressesOf[deduped[next].key] :
              resolved' = Append(resolved, Placed(deduped[next], i))
        BY <3>1 DEF LocateNode
      <4>2. Placed(deduped[next], i) \in Node
        BY <2>2, PlacedTyped
      <4> QED
        BY <4>1, <4>2, AppendProperties DEF TypeOK
    <3>2. CASE LocateFails
      BY <3>2 DEF LocateFails, TypeOK
    <3> QED
      BY <1>7, <3>1, <3>2
  <2>4. next' \in 1..(Len(Loop') + 1)
    BY <1>7, <2>1 DEF LocateNode, LocateFails, Loop, TypeOK
  <2> QED
    BY <1>7, <2>1, <2>3, <2>4 DEF LocateNode, LocateFails, TypeOK
<1>8. CASE Located
  BY <1>8 DEF Located, TypeOK, Loop
<1>9. CASE Accept \/ Drop
  <2>1. /\ phase = "filtering" /\ phase' = phase
        /\ next \in 1..Len(resolved) /\ next' = next + 1
    BY <1>9 DEF Accept, Drop, Filtering, TypeOK, Loop
  <2>2. resolved[next] \in Node
    BY <2>1 DEF TypeOK
  <2>3. candidates' \in Seq(Node) /\ dropped' \in Seq(Node)
    <3>1. CASE Accept
      BY <2>2, <3>1, AppendProperties DEF Accept, TypeOK
    <3>2. CASE Drop
      BY <2>2, <3>2, AppendProperties DEF Drop, TypeOK
    <3> QED
      BY <1>9, <3>1, <3>2
  <2>4. next' \in 1..(Len(Loop') + 1)
    BY <1>9, <2>1 DEF Accept, Drop, Loop, TypeOK
  <2> QED
    BY <1>9, <2>1, <2>3, <2>4 DEF Accept, Drop, TypeOK
<1>10. CASE Filtered
  BY <1>10 DEF Filtered, TypeOK, Loop
<1>11. CASE UNCHANGED vars
  BY <1>11 DEF vars, TypeOK, Loop
<1> QED
  BY <1>1, <1>2, <1>3, <1>4, <1>5, <1>6, <1>7, <1>8, <1>9, <1>10, <1>11
     DEF Next, Step, GeoStep

-----------------------------------------------------------------------------
(* Collecting                                                              *)

LEMMA StepRead == TypeOK /\ ReadInv /\ [Next]_vars => ReadInv'
<1> SUFFICES ASSUME TypeOK, ReadInv, [Next]_vars PROVE ReadInv'
  OBVIOUS
<1>1. CASE FetchSource
  <2>1. PICK content \in Contents :
          /\ read' = <<Sources[next].kind, content>>
          /\ Record(ParseSourceContent(Sources[next].kind, content))
    BY <1>1 DEF FetchSource
  <2> DEFINE result == ParseSourceContent(Sources[next].kind, content)
             status == [ok |-> result.ok, nodes |-> Len(result.nodes),
                        unsupported |-> result.unsupported]
  <2>2. /\ phase' = "collecting"
        /\ statuses' = Append(statuses, status) /\ statuses \in Seq(Status)
    BY <1>1, <2>1 DEF FetchSource, Reading, Record, TypeOK
  <2>3. Len(statuses') = Len(statuses) + 1 /\ Len(statuses) \in Nat
    BY <2>2
  <2>4. statuses'[Len(statuses')] = status
    BY <2>2, <2>3
  <2>5. read'[1] = Sources[next].kind /\ read'[2] = content
    BY <2>1
  <2> QED
    BY <2>2, <2>3, <2>4, <2>5 DEF ReadInv
<1>2. CASE FetchFails \/ ReadNode \/ Collected \/ Begin \/ NoCandidates \/ Publish
  BY <1>2 DEF FetchFails, ReadNode, Collected, Begin, NoCandidates, Publish, Reset, ReadInv
<1>3. ASSUME UNCHANGED <<read, statuses>>, phase # "collecting" \/ phase' = phase
      PROVE  ReadInv'
  BY <1>3 DEF ReadInv
<1>4. CASE GeoStep
  BY <1>3, <1>4, GeoSteps DEF GoTo, SkipGeo
<1>5. CASE KeepNode \/ MergeNode \/ Deduplicated \/ LocateNode \/ LocateFails \/ Located
        \/ Accept \/ Drop \/ Filtered
  BY <1>3, <1>5 DEF KeepNode, MergeNode, Deduplicated, LocateNode, LocateFails, Located, Accept,
    Drop, Filtered, Deduplicating
<1>6. CASE UNCHANGED vars
  BY <1>3, <1>6 DEF vars
<1> QED
  BY <1>1, <1>2, <1>4, <1>5, <1>6 DEF Next, Step, GeoStep

LEMMA CollectReset ==
  ASSUME Reset, phase' \in Unread
  PROVE  CollectInv'
<1>1. raw' = <<>> /\ statuses' = <<>> /\ next' = 1
  BY DEF Reset
<1>2. Len(raw') = 0 /\ Len(statuses') = 0
  BY <1>1
<1>3. \A i : ~(i \in 1..0)
  OBVIOUS
<1> DEFINE origin == [i \in 1..0 |-> 1]
<1>4. origin \in [1..Len(raw') -> 1..Len(statuses')]
  BY <1>2, <1>3
<1>5. Explains(origin)'
  BY <1>2, <1>3 DEF Explains
<1>6. \E o \in [1..Len(raw') -> 1..Len(statuses')] : Explains(o)'
  BY <1>4, <1>5
<1>7. Len(statuses') = next' - 1 /\ phase' \in {"idle", "collecting"}
  BY <1>1, <1>2 DEF Unread
<1>8. \A i \in 1..Len(raw') : raw'[i].country = Nowhere
  BY <1>2, <1>3
<1> QED
  BY <1>1, <1>6, <1>7, <1>8 DEF CollectInv, Unread

(* The nodes of the source read now go to the end of the list.             *)
LEMMA CollectRecord ==
  ASSUME TypeOK, CollectInv, Recording
  PROVE  CollectInv'
<1>1. PICK result \in Result : (~result.ok => result.nodes = <<>>) /\ Record(result)
  BY DEF Recording
<1>2. PICK origin \in [1..Len(raw) -> 1..Len(statuses)] : Explains(origin)
  BY DEF CollectInv
<1> DEFINE n == Len(raw)
           k == Len(result.nodes)
           named == Named(result.nodes, Sources[next].name)
           status == [ok |-> result.ok, nodes |-> k, unsupported |-> result.unsupported]
<1>3. /\ phase = "collecting" /\ phase' = "collecting"
      /\ next \in 1..Len(Sources) /\ next' = next + 1
      /\ Len(statuses) = next - 1
  BY <1>1, LenSources DEF Recording, Reading, Record, TypeOK, Loop, CollectInv
<1>4. /\ n \in Nat /\ k \in Nat
      /\ result.ok \/ k = 0
      /\ result.nodes \in Seq(GoodLink)
  BY <1>1, EmptySeq DEF TypeOK, Result
<1>5. /\ named \in Seq(Node) /\ Len(named) = k
      /\ \A i \in 1..k : named[i].names = {Sources[next].name} /\ named[i].country = Nowhere
  BY <1>3, <1>4, NamedTyped, SourcesTyped
<1>6. /\ raw' = raw \o named /\ raw \in Seq(Node)
      /\ statuses' = Append(statuses, status) /\ statuses \in Seq(Status) /\ status \in Status
  BY <1>1, <1>4 DEF Record, TypeOK, Status, Result
<1> HIDE DEF named, status, n, k
<1>7. /\ Len(raw') = n + k
      /\ \A i \in 1..n : raw'[i] = raw[i]
      /\ \A i \in (n + 1)..(n + k) : raw'[i] = named[i - n] /\ i - n \in 1..k
  <2>1. /\ Len(raw \o named) = Len(raw) + Len(named)
        /\ \A i \in 1..(Len(raw) + Len(named)) :
             (raw \o named)[i] = IF i <= Len(raw) THEN raw[i] ELSE named[i - Len(raw)]
    <3>1. raw \in Seq(Node) /\ named \in Seq(Node)
      BY <1>5, <1>6
    <3> QED
      BY <3>1, ConcatProperties
  <2>2. n = Len(raw) /\ n \in Nat /\ k \in Nat /\ Len(named) = k /\ raw' = raw \o named
    BY <1>4, <1>5, <1>6 DEF n
  <2> QED
    BY <2>1, <2>2
<1>8. /\ Len(statuses') = next
      /\ statuses'[next] = status
      /\ \A s \in 1..(next - 1) : statuses'[s] = statuses[s]
  BY <1>3, <1>6, AppendProperties
<1>0. PICK later : later = [i \in 1..(n + k) |-> IF i <= n THEN origin[i] ELSE next]
  OBVIOUS
<1>9. \A i \in 1..n : origin[i] \in 1..(next - 1)
  BY <1>2, <1>3 DEF n
<1>10. later \in [1..Len(raw') -> 1..Len(statuses')]
  BY <1>0, <1>3, <1>4, <1>7, <1>8, <1>9
<1>11. \A i, j \in 1..(n + k) : i < j => later[i] <= later[j]
  <2>1. \A i, j \in 1..n : i < j => origin[i] <= origin[j]
    BY <1>2 DEF Explains, n
  <2> QED
    BY <1>0, <1>3, <1>4, <1>9, <2>1
<1>12. ASSUME NEW i \in 1..(n + k)
       PROVE  /\ raw'[i].names = {Sources[later[i]].name}
              /\ raw'[i].country = Nowhere
              /\ statuses'[later[i]].ok
  <2>1. CASE i <= n
    <3>1. i \in 1..n /\ later[i] = origin[i]
      BY <1>0, <1>4, <2>1
    <3>2. raw[i].names = {Sources[origin[i]].name} /\ statuses[origin[i]].ok
      BY <1>2, <3>1 DEF Explains, n
    <3>3. raw[i].country = Nowhere
      BY <3>1 DEF CollectInv, n
    <3> QED
      BY <1>7, <1>8, <1>9, <3>1, <3>2, <3>3
  <2>2. CASE ~(i <= n)
    <3>1. i \in (n + 1)..(n + k) /\ later[i] = next /\ k # 0
      BY <1>0, <1>4, <2>2
    <3>2. statuses'[next].ok
      BY <1>4, <1>8, <3>1 DEF status
    <3> QED
      BY <1>5, <1>7, <3>1, <3>2
  <2> QED
    BY <2>1, <2>2
<1>13. ASSUME NEW s \in 1..next
       PROVE  statuses'[s].nodes = Cardinality({i \in 1..(n + k) : later[i] = s})
  <2>1. CASE s = next
    <3>1. {i \in 1..(n + k) : later[i] = s} = (n + 1)..(n + k)
      BY <1>0, <1>3, <1>4, <1>9, <2>1
    <3>2. Cardinality((n + 1)..(n + k)) = k
      BY <1>4, FS_Interval
    <3>3. statuses'[s].nodes = k
      BY <1>8, <2>1 DEF status
    <3> QED
      BY <3>1, <3>2, <3>3
  <2>2. CASE s # next
    <3>1. s \in 1..(next - 1) /\ statuses'[s] = statuses[s]
      BY <1>3, <1>8, <2>2
    <3>2. {i \in 1..(n + k) : later[i] = s} = {i \in 1..n : origin[i] = s}
      BY <1>0, <1>4, <2>2
    <3>3. statuses[s].nodes = Cardinality({i \in 1..n : origin[i] = s})
      BY <1>2, <1>3, <3>1 DEF Explains, n
    <3> QED
      BY <3>1, <3>2, <3>3
  <2> QED
    BY <2>1, <2>2
<1>14. Explains(later)'
  <2>1. \A i, j \in 1..Len(raw') : i < j => later[i] <= later[j]
    BY <1>7, <1>11
  <2>2. \A i \in 1..Len(raw') :
          raw'[i].names = {Sources[later[i]].name} /\ statuses'[later[i]].ok
    BY <1>7, <1>12
  <2>3. \A s \in 1..Len(statuses') :
          statuses'[s].nodes = Cardinality({i \in 1..Len(raw') : later[i] = s})
    BY <1>7, <1>8, <1>13
  <2> QED
    BY <2>1, <2>2, <2>3 DEF Explains
<1>15. \A i \in 1..Len(raw') : raw'[i].country = Nowhere
  BY <1>7, <1>12
<1>16. \E o \in [1..Len(raw') -> 1..Len(statuses')] : Explains(o)'
  BY <1>10, <1>14
<1> QED
  BY <1>3, <1>8, <1>15, <1>16 DEF CollectInv, Unread

LEMMA StepCollect == TypeOK /\ CollectInv /\ [Next]_vars => CollectInv'
<1> SUFFICES ASSUME TypeOK, CollectInv, [Next]_vars PROVE CollectInv'
  OBVIOUS
<1>1. CASE Begin \/ NoCandidates \/ Publish
  BY <1>1, CollectReset DEF Begin, NoCandidates, Publish, Unread
<1>2. CASE FetchSource \/ FetchFails \/ ReadNode
  BY <1>2, ReadsRecord, CollectRecord
<1>3. CASE Collected
  <2>1. next = Len(Sources) + 1
    BY <1>3, LenSources DEF Collected, TypeOK, Loop
  <2>2. \A origin : Explains(origin)' <=> Explains(origin)
    BY <1>3 DEF Explains, Collected
  <2>3. Len(statuses') = Len(Sources)
    BY <1>3, <2>1, LenSources DEF Collected, CollectInv
  <2> QED
    BY <1>3, <2>2, <2>3 DEF Collected, CollectInv, Unread
<1>4. ASSUME phase \notin Unread, phase' \notin Unread, UNCHANGED <<raw, statuses>>
      PROVE  CollectInv'
  <2>1. \A origin : Explains(origin)' <=> Explains(origin)
    BY <1>4 DEF Explains
  <2> QED
    BY <1>4, <2>1 DEF CollectInv, Unread
<1>5. CASE KeepNode \/ MergeNode \/ Deduplicated
  BY <1>4, <1>5 DEF KeepNode, MergeNode, Deduplicated, Deduplicating, Unread
<1>6. CASE GeoStep
  BY <1>4, <1>6, GeoSteps DEF GoTo, SkipGeo, Unread
<1>7. CASE LocateNode \/ LocateFails \/ Located
  BY <1>4, <1>7 DEF LocateNode, LocateFails, Located, Locating, Unread
<1>8. CASE Accept \/ Drop \/ Filtered
  BY <1>4, <1>8 DEF Accept, Drop, Filtered, Filtering, Unread
<1>9. CASE UNCHANGED vars
  <2>1. \A origin : Explains(origin)' <=> Explains(origin)
    BY <1>9 DEF Explains, vars
  <2> QED
    BY <1>9, <2>1 DEF CollectInv, vars
<1> QED
  BY <1>1, <1>2, <1>3, <1>5, <1>6, <1>7, <1>8, <1>9 DEF Next, Step, GeoStep

-----------------------------------------------------------------------------
(* Deduplication                                                           *)

LEMMA FirstIsUnique ==
  ASSUME NEW list, NEW key, NEW f \in Nat \ {0}, NEW g \in Nat \ {0},
         IsFirst(list, key, f), IsFirst(list, key, g)
  PROVE  f = g
<1>1. ~(f < g)
  BY DEF IsFirst
<1>2. ~(g < f)
  BY DEF IsFirst
<1> QED
  BY <1>1, <1>2

(* One more node of a list gives its names to its key.                     *)
LEMMA NamesNext ==
  ASSUME NEW list, NEW key, NEW n \in Nat
  PROVE  NamesOf(list, key, n + 1) =
           IF list[n + 1].key = key THEN NamesOf(list, key, n) \cup list[n + 1].names
           ELSE NamesOf(list, key, n)
<1>1. 1..(n + 1) = (1..n) \cup {n + 1}
  OBVIOUS
<1>2. Sharing(list, key, n + 1) =
        IF list[n + 1].key = key THEN Sharing(list, key, n) \cup {n + 1}
        ELSE Sharing(list, key, n)
  BY <1>1 DEF Sharing
<1> DEFINE S == Sharing(list, key, n)
<1> HIDE DEF S
<1> DEFINE Before == UNION {list[k].names : k \in S}
           After == UNION {list[k].names : k \in S \cup {n + 1}}
<1>3. ASSUME NEW x PROVE x \in After <=> x \in Before \/ x \in list[n + 1].names
  <2>1. x \in After <=> \E k \in S \cup {n + 1} : x \in list[k].names
    OBVIOUS
  <2>2. x \in Before <=> \E k \in S : x \in list[k].names
    OBVIOUS
  <2>3. (\E k \in S \cup {n + 1} : x \in list[k].names) <=>
          (\E k \in S : x \in list[k].names) \/ x \in list[n + 1].names
    OBVIOUS
  <2> HIDE DEF Before, After
  <2> QED
    BY <2>1, <2>2, <2>3
<1>4. After = Before \cup list[n + 1].names
  <2> HIDE DEF Before, After
  <2> QED
    BY <1>3
<1> QED
  BY <1>2, <1>4 DEF NamesOf, S

LEMMA MergedSame ==
  ASSUME UNCHANGED <<raw, deduped>>
  PROVE  \A n : Merged(n)' <=> Merged(n)
BY DEF Merged, KeysDiffer, IsFirst, NamesOf, Sharing

LEMMA MergedNothing ==
  ASSUME deduped' = <<>>
  PROVE  Merged(0)'
<1>1. Len(deduped') = 0 /\ \A i : ~(i \in 1..0)
  OBVIOUS
<1> QED
  BY <1>1 DEF Merged, KeysDiffer

(* A new key goes to the end; no raw node before this one has it.          *)
LEMMA KeepMerged ==
  ASSUME TypeOK, CollectInv, NEW m \in Nat, next = m + 1, Merged(m), KeepNode
  PROVE  Merged(m + 1)'
<1> DEFINE L == Len(deduped)
           node == raw[m + 1]
<1>1. /\ L \in Nat /\ m + 1 \in 1..Len(raw) /\ raw' = raw
      /\ node \in Node
      /\ deduped' = Append(deduped, node)
      /\ \A i \in 1..L : deduped[i].key # node.key
  <2>1. L \in Nat /\ m + 1 \in 1..Len(raw) /\ raw' = raw
    BY DEF KeepNode, Deduplicating, TypeOK
  <2>2. node \in Node
    BY <2>1 DEF TypeOK
  <2> QED
    BY <2>1, <2>2 DEF KeepNode, IndexOf
<1>2. /\ Len(deduped') = L + 1
      /\ deduped'[L + 1] = node
      /\ \A i \in 1..L : deduped'[i] = deduped[i]
  BY <1>1, AppendProperties DEF TypeOK
<1>4. IsFirst(raw, node.key, m + 1)
  BY <1>1 DEF Merged, IsFirst
<1> HIDE DEF L, node
<1>5. \A i \in 1..(L + 1) : i \in 1..L \/ i = L + 1
  BY <1>1
<1>6. KeysDiffer(deduped)'
  <2>1. KeysDiffer(deduped)
    BY DEF Merged
  <2> QED
    BY <1>1, <1>2, <1>5, <2>1 DEF KeysDiffer, L
<1>7. \A k \in 1..(m + 1) : \E i \in 1..Len(deduped') : deduped'[i].key = raw'[k].key
  <2> SUFFICES ASSUME NEW k \in 1..(m + 1)
               PROVE  \E i \in 1..(L + 1) : deduped'[i].key = raw[k].key
    BY <1>1, <1>2
  <2>1. CASE k \in 1..m
    <3>1. PICK i \in 1..L : deduped[i].key = raw[k].key
      BY <2>1 DEF Merged, L
    <3> QED
      BY <1>1, <1>2, <3>1
  <2>2. CASE k = m + 1
    BY <1>1, <1>2, <2>2 DEF node
  <2> QED
    BY <2>1, <2>2
<1>8. \A i \in 1..Len(deduped') : \E f \in 1..(m + 1) :
        IsFirst(raw, deduped'[i].key, f) /\ deduped'[i].label = raw[f].label
  <2> SUFFICES ASSUME NEW i \in 1..(L + 1)
               PROVE  \E f \in 1..(m + 1) :
                        IsFirst(raw, deduped'[i].key, f) /\ deduped'[i].label = raw[f].label
    BY <1>2
  <2>1. CASE i \in 1..L
    <3>1. PICK f \in 1..m : IsFirst(raw, deduped[i].key, f) /\ deduped[i].label = raw[f].label
      BY <2>1 DEF Merged, L
    <3> QED
      BY <1>2, <2>1, <3>1
  <2>2. CASE i = L + 1
    BY <1>1, <1>2, <1>4, <2>2 DEF node
  <2> QED
    BY <1>5, <2>1, <2>2
<1>9. \A i, j \in 1..Len(deduped'), f, g \in 1..(m + 1) :
        i < j /\ IsFirst(raw, deduped'[i].key, f) /\ IsFirst(raw, deduped'[j].key, g) => f < g
  <2> SUFFICES ASSUME NEW i \in 1..(L + 1), NEW j \in 1..(L + 1),
                      NEW f \in 1..(m + 1), NEW g \in 1..(m + 1),
                      i < j, IsFirst(raw, deduped'[i].key, f), IsFirst(raw, deduped'[j].key, g)
               PROVE  f < g
    BY <1>2
  <2>1. i \in 1..L
    BY <1>1
  <2>2. PICK h \in 1..m : IsFirst(raw, deduped[i].key, h)
    BY <2>1 DEF Merged, L
  <2>3. f = h
    BY <1>2, <2>1, <2>2, FirstIsUnique
  <2>4. CASE j \in 1..L
    <3>1. PICK o \in 1..m : IsFirst(raw, deduped[j].key, o)
      BY <2>4 DEF Merged, L
    <3>2. g = o
      BY <1>2, <2>4, <3>1, FirstIsUnique
    <3>3. h < o
      BY <2>1, <2>2, <2>4, <3>1 DEF Merged, L
    <3> QED
      BY <2>3, <3>2, <3>3
  <2>5. CASE j = L + 1
    <3>1. g = m + 1
      BY <1>2, <1>4, <2>5, FirstIsUnique
    <3> QED
      BY <2>3, <3>1
  <2> QED
    BY <1>5, <2>4, <2>5
<1>10. \A i \in 1..Len(deduped') :
         deduped'[i].names = NamesOf(raw, deduped'[i].key, m + 1) /\ deduped'[i].country = Nowhere
  <2> SUFFICES ASSUME NEW i \in 1..(L + 1)
               PROVE  /\ deduped'[i].names = NamesOf(raw, deduped'[i].key, m + 1)
                      /\ deduped'[i].country = Nowhere
    BY <1>2
  <2>1. CASE i \in 1..L
    <3>1. deduped[i].names = NamesOf(raw, deduped[i].key, m) /\ deduped[i].country = Nowhere
      BY <2>1 DEF Merged, L
    <3>2. NamesOf(raw, deduped[i].key, m + 1) = NamesOf(raw, deduped[i].key, m)
      BY <1>1, <2>1, NamesNext DEF node
    <3> QED
      BY <1>2, <2>1, <3>1, <3>2
  <2>2. CASE i = L + 1
    <3>1. NamesOf(raw, node.key, m) = {}
      BY <1>4 DEF IsFirst, NamesOf, Sharing
    <3>2. NamesOf(raw, node.key, m + 1) = node.names
      BY <3>1, NamesNext DEF node
    <3>3. node.country = Nowhere
      BY <1>1 DEF CollectInv, node
    <3> QED
      BY <1>2, <2>2, <3>2, <3>3
  <2> QED
    BY <1>5, <2>1, <2>2
<1> QED
  BY <1>1, <1>6, <1>7, <1>8, <1>9, <1>10 DEF Merged

(* A known key gives its names to the node that has it; the rest stays.    *)
LEMMA MergeMerged ==
  ASSUME TypeOK, NEW m \in Nat, next = m + 1, Merged(m), MergeNode
  PROVE  Merged(m + 1)'
<1> DEFINE L == Len(deduped)
           node == raw[m + 1]
<1>1. L \in Nat /\ m + 1 \in 1..Len(raw) /\ raw' = raw
  BY DEF MergeNode, Deduplicating, TypeOK
<1>2. PICK t \in 1..L :
        /\ deduped[t].key = node.key
        /\ deduped' = [deduped EXCEPT ![t].names = @ \cup node.names]
  BY DEF MergeNode, IndexOf
<1>3. /\ Len(deduped') = L
      /\ \A i \in 1..L : /\ deduped'[i].key = deduped[i].key
                         /\ deduped'[i].label = deduped[i].label
                         /\ deduped'[i].country = deduped[i].country
                         /\ deduped'[i].names = IF i = t THEN deduped[i].names \cup node.names
                                                ELSE deduped[i].names
  <2>1. /\ deduped' = [deduped EXCEPT ![t] = [deduped[t] EXCEPT !.names = @ \cup node.names]]
        /\ deduped \in Seq(Node)
    BY <1>2 DEF TypeOK
  <2>3. deduped[t] \in Node
    BY <1>2, <2>1
  <2>5. PICK merged : merged = [deduped[t] EXCEPT !.names = @ \cup node.names]
    OBVIOUS
  <2>6. DOMAIN deduped = 1..L
    BY <2>1
  <2>2. /\ Len(deduped') = L
        /\ deduped'[t] = [deduped[t] EXCEPT !.names = @ \cup node.names]
        /\ \A i \in 1..L : i # t => deduped'[i] = deduped[i]
    <3>1. deduped' = [deduped EXCEPT ![t] = merged]
      BY <2>1, <2>5
    <3>2. DOMAIN deduped' = 1..L
      BY <2>6, <3>1
    <3> QED
      BY <1>1, <1>2, <2>5, <2>6, <3>1, <3>2
  <2>4. /\ deduped'[t].key = deduped[t].key
        /\ deduped'[t].label = deduped[t].label
        /\ deduped'[t].country = deduped[t].country
        /\ deduped'[t].names = deduped[t].names \cup node.names
    BY <2>2, <2>3 DEF Node
  <2> QED
    BY <2>2, <2>4
<1> HIDE DEF L, node
<1>5. KeysDiffer(deduped)'
  BY <1>3 DEF Merged, KeysDiffer, L
<1>6. \A k \in 1..(m + 1) : \E i \in 1..Len(deduped') : deduped'[i].key = raw'[k].key
  <2> SUFFICES ASSUME NEW k \in 1..(m + 1)
               PROVE  \E i \in 1..Len(deduped') : deduped'[i].key = raw'[k].key
    OBVIOUS
  <2>1. k \in 1..m \/ k = m + 1
    OBVIOUS
  <2>2. PICK i \in 1..L : deduped[i].key = raw[k].key
    BY <1>2, <2>1 DEF Merged, L, node
  <2>3. deduped'[i].key = raw'[k].key
    BY <1>1, <1>3, <2>2
  <2> QED
    BY <1>3, <2>3
<1>7. \A i \in 1..L : \E f \in 1..m :
        IsFirst(raw, deduped[i].key, f) /\ deduped[i].label = raw[f].label
  BY DEF Merged, L
<1>8. \A i \in 1..Len(deduped') : \E f \in 1..(m + 1) :
        IsFirst(raw, deduped'[i].key, f) /\ deduped'[i].label = raw[f].label
  <2> SUFFICES ASSUME NEW i \in 1..L
               PROVE  \E f \in 1..(m + 1) :
                        IsFirst(raw, deduped[i].key, f) /\ deduped'[i].label = raw[f].label
    BY <1>3
  <2>1. PICK f \in 1..m : IsFirst(raw, deduped[i].key, f) /\ deduped[i].label = raw[f].label
    BY <1>7
  <2>2. f \in 1..(m + 1)
    BY <2>1
  <2>3. deduped'[i].label = raw[f].label
    BY <1>3, <2>1
  <2> QED
    BY <2>1, <2>2, <2>3
<1>9. \A i, j \in 1..Len(deduped'), f, g \in 1..(m + 1) :
        i < j /\ IsFirst(raw, deduped'[i].key, f) /\ IsFirst(raw, deduped'[j].key, g) => f < g
  <2> SUFFICES ASSUME NEW i \in 1..L, NEW j \in 1..L,
                      NEW f \in 1..(m + 1), NEW g \in 1..(m + 1),
                      i < j, IsFirst(raw, deduped[i].key, f), IsFirst(raw, deduped[j].key, g)
               PROVE  f < g
    BY <1>3
  <2>1. f \in 1..m
    BY <1>7, FirstIsUnique
  <2>2. g \in 1..m
    BY <1>7, FirstIsUnique
  <2> QED
    BY <2>1, <2>2 DEF Merged, L
<1>10. \A i \in 1..Len(deduped') :
         deduped'[i].names = NamesOf(raw, deduped'[i].key, m + 1) /\ deduped'[i].country = Nowhere
  <2> SUFFICES ASSUME NEW i \in 1..L
               PROVE  /\ deduped'[i].names = NamesOf(raw, deduped[i].key, m + 1)
                      /\ deduped[i].country = Nowhere
    BY <1>3
  <2>1. deduped[i].names = NamesOf(raw, deduped[i].key, m) /\ deduped[i].country = Nowhere
    BY DEF Merged, L
  <2>2. CASE i = t
    <3>1. NamesOf(raw, deduped[i].key, m + 1) = NamesOf(raw, deduped[i].key, m) \cup node.names
      <4>1. raw[m + 1].key = deduped[i].key
        BY <1>2, <2>2 DEF node
      <4> QED
        BY <4>1, NamesNext DEF node
    <3>2. deduped'[i].names = deduped[i].names \cup node.names
      BY <1>3, <2>2
    <3> QED
      BY <2>1, <3>1, <3>2
  <2>3. CASE i # t
    <3>1. deduped[i].key # node.key
      BY <1>2, <2>3 DEF Merged, KeysDiffer, L
    <3>2. NamesOf(raw, deduped[i].key, m + 1) = NamesOf(raw, deduped[i].key, m)
      BY <3>1, NamesNext DEF node
    <3> QED
      BY <1>3, <2>1, <2>3, <3>2
  <2> QED
    BY <2>2, <2>3
<1> QED
  BY <1>1, <1>5, <1>6, <1>8, <1>9, <1>10 DEF Merged

LEMMA StepDedup ==
  ASSUME TypeOK, CollectInv, DedupInv, [Next]_vars
  PROVE  DedupInv'
<1>1. CASE Begin \/ NoCandidates \/ Publish
  BY <1>1 DEF Begin, NoCandidates, Publish, Reset, DedupInv, Unread
<1>2. CASE FetchSource \/ FetchFails \/ ReadNode
  BY <1>2, ReadsRecord DEF Recording, Reading, Record, DedupInv, Unread
<1>3. CASE Collected
  <2>1. deduped' = <<>> /\ phase' = "deduplicating" /\ next' = 1
    BY <1>3 DEF Collected, DedupInv, Unread
  <2>2. Merged(0)'
    BY <2>1, MergedNothing
  <2> QED
    BY <2>1, <2>2 DEF DedupInv, Unread
<1>4. CASE KeepNode \/ MergeNode
  <2>1. PICK m \in Nat : next = m + 1
    BY DEF TypeOK
  <2>2. phase = "deduplicating" /\ phase' = phase /\ next' = m + 2
    BY <1>4, <2>1 DEF KeepNode, MergeNode, Deduplicating
  <2>3. Merged(m)
    BY <2>1, <2>2 DEF DedupInv
  <2>4. Merged(m + 1)'
    BY <1>4, <2>1, <2>3, KeepMerged, MergeMerged
  <2> QED
    BY <2>2, <2>4 DEF DedupInv, Unread
<1>5. ASSUME UNCHANGED <<raw, deduped>>,
             phase \notin Unread, phase' \notin Unread \cup {"deduplicating"},
             phase = "deduplicating" => next = Len(raw) + 1
      PROVE  DedupInv'
  <2>1. Merged(Len(raw))
    BY <1>5 DEF DedupInv, TypeOK
  <2> QED
    BY <1>5, <2>1, MergedSame DEF DedupInv, Unread
<1>6. CASE Deduplicated
  BY <1>5, <1>6 DEF Deduplicated, TypeOK, Loop, Unread
<1>7. CASE GeoStep
  BY <1>5, <1>7, GeoSteps DEF GoTo, SkipGeo, Unread
<1>8. CASE LocateNode \/ LocateFails \/ Located
  BY <1>5, <1>8 DEF LocateNode, LocateFails, Located, Locating, Unread
<1>9. CASE Accept \/ Drop \/ Filtered
  BY <1>5, <1>9 DEF Accept, Drop, Filtered, Filtering, Unread
<1>10. CASE UNCHANGED vars
  BY <1>10, MergedSame DEF DedupInv, vars
<1> QED
  BY <1>1, <1>2, <1>3, <1>4, <1>6, <1>7, <1>8, <1>9, <1>10 DEF Next, Step, GeoStep

-----------------------------------------------------------------------------
(* Location                                                                *)

LEMMA ResolvedNothing ==
  ASSUME resolved' = <<>>, failed' = 0
  PROVE  /\ Resolved(0)'
         /\ \A i \in 1..Len(resolved') : InItsCountry(resolved'[i])
<1>1. Len(resolved') = 0 /\ \A i : ~(i \in 1..0)
  OBVIOUS
<1> QED
  BY <1>1 DEF Resolved, KeysDiffer

(* Without the database all nodes go on as they are.                       *)
LEMMA SkipResolved ==
  ASSUME TypeOK, Merged(Len(raw)), LocateInv, phase \in Unlocated, SkipGeo
  PROVE  LocateInv'
<1>1. /\ resolved' = deduped /\ deduped' = deduped /\ failed' = 0 /\ phase' = "filtering"
      /\ Len(deduped) \in Nat
  BY DEF SkipGeo, LocateInv, TypeOK
<1>2. Resolved(Len(deduped))'
  BY <1>1 DEF Merged, Resolved, KeysDiffer
<1>3. \A i \in 1..Len(deduped) : deduped[i].country = Nowhere
  BY DEF Merged
<1> QED
  BY <1>1, <1>2, <1>3 DEF LocateInv, Unlocated, Unread, Unfiltered

LEMMA LocateResolved ==
  ASSUME TypeOK, NEW m \in Nat, next = m + 1, KeysDiffer(deduped), Resolved(m),
         \A i \in 1..Len(resolved) : InItsCountry(resolved[i]), LocateNode
  PROVE  /\ Resolved(m + 1)'
         /\ \A i \in 1..Len(resolved') : InItsCountry(resolved'[i])
<1> DEFINE L == Len(resolved)
           node == deduped[m + 1]
<1>1. /\ L \in Nat /\ failed \in Nat /\ m + 1 \in 1..Len(deduped)
      /\ deduped' = deduped /\ failed' = failed
  BY DEF LocateNode, Locating, TypeOK
<1>2. node \in Node
  BY <1>1 DEF TypeOK
<1>3. PICK a \in DOMAIN AddressesOf[node.key] :
        Decides(node.key, a) /\ resolved' = Append(resolved, Placed(node, a))
  BY DEF LocateNode
<1> HIDE DEF node
<1>4. PICK placed : placed = Placed(node, a)
  OBVIOUS
<1>5. placed \in Node /\ placed.key = node.key /\ InItsCountry(placed)
  BY <1>2, <1>3, <1>4, PlacedTyped DEF Decides, InItsCountry
<1>6. /\ Len(resolved') = L + 1
      /\ resolved'[L + 1] = placed
      /\ \A i \in 1..L : resolved'[i] = resolved[i]
  BY <1>3, <1>4, <1>5, AppendProperties DEF TypeOK
<1> HIDE DEF L
<1>7. \A i \in 1..(L + 1) : i \in 1..L \/ i = L + 1
  BY <1>1
<1>8. ASSUME NEW i \in 1..L
      PROVE  /\ \E k \in 1..m : resolved[i].key = deduped[k].key
             /\ resolved[i].key # node.key
  <2>1. PICK k \in 1..m : resolved[i].key = deduped[k].key
    BY DEF Resolved, L
  <2>2. k \in 1..Len(deduped) /\ k # m + 1
    BY <1>1
  <2> QED
    BY <1>1, <2>1, <2>2 DEF KeysDiffer, node
<1>9. KeysDiffer(resolved)'
  <2>1. KeysDiffer(resolved)
    BY DEF Resolved
  <2> SUFFICES ASSUME NEW i \in 1..(L + 1), NEW j \in 1..(L + 1),
                      resolved'[i].key = resolved'[j].key
               PROVE  i = j
    BY <1>6 DEF KeysDiffer
  <2>2. CASE i \in 1..L /\ j \in 1..L
    BY <1>6, <2>1, <2>2 DEF KeysDiffer, L
  <2>3. CASE i \in 1..L /\ j = L + 1
    BY <1>5, <1>6, <1>8, <2>3
  <2>4. CASE i = L + 1 /\ j \in 1..L
    BY <1>5, <1>6, <1>8, <2>4
  <2> QED
    BY <1>7, <2>2, <2>3, <2>4
<1>10. \A i \in 1..Len(resolved') : \E k \in 1..(m + 1) : resolved'[i].key = deduped[k].key
  <2> SUFFICES ASSUME NEW i \in 1..(L + 1)
               PROVE  \E k \in 1..(m + 1) : resolved'[i].key = deduped[k].key
    BY <1>6
  <2>1. CASE i \in 1..L
    <3>1. PICK k \in 1..m : resolved[i].key = deduped[k].key
      BY <1>8, <2>1
    <3> QED
      BY <1>6, <2>1, <3>1
  <2>2. CASE i = L + 1
    BY <1>5, <1>6, <2>2 DEF node
  <2> QED
    BY <1>7, <2>1, <2>2
<1>11. Len(resolved') + failed' = m + 1
  BY <1>1, <1>6 DEF Resolved, L
<1>12. \A i \in 1..Len(resolved') : InItsCountry(resolved'[i])
  BY <1>5, <1>6, <1>7 DEF L
<1> QED
  BY <1>1, <1>9, <1>10, <1>11, <1>12 DEF Resolved

LEMMA StepLocate ==
  ASSUME TypeOK, DedupInv, LocateInv, [Next]_vars
  PROVE  LocateInv'
<1> USE DEF Unlocated, Unread, Unfiltered
<1>1. ASSUME resolved' = <<>>, failed' = 0,
             phase' \in Unlocated \/ (phase' = "locating" /\ next' = 1)
                \/ (phase' # "locating" /\ deduped' = <<>>)
      PROVE  LocateInv'
  <2>1. next' = 1 => next' - 1 = 0
    OBVIOUS
  <2>2. deduped' = <<>> => Len(deduped') = 0
    OBVIOUS
  <2> QED
    BY <1>1, <2>1, <2>2, ResolvedNothing DEF LocateInv
<1>2. CASE Begin \/ NoCandidates \/ Publish
  BY <1>1, <1>2 DEF Begin, NoCandidates, Publish, Reset
<1>3. CASE FetchSource \/ FetchFails \/ ReadNode
  BY <1>1, <1>3, ReadsRecord DEF Recording, Reading, Record, LocateInv
<1>4. CASE Collected \/ KeepNode \/ MergeNode
  BY <1>1, <1>4 DEF Collected, KeepNode, MergeNode, Deduplicating, LocateInv
<1>5. CASE Deduplicated
  BY <1>1, <1>5 DEF Deduplicated, LocateInv
<1>6. CASE GeoStep
  <2>1. CASE SkipGeo
    BY <1>6, <2>1, GeoSteps, SkipResolved DEF DedupInv
  <2>2. CASE GoTo("opening") \/ GoTo("downloading")
    BY <1>1, <1>6, <2>2, GeoSteps DEF GoTo, LocateInv
  <2>3. CASE GoTo("locating")
    <3>1. next = 1 /\ resolved = <<>> /\ failed = 0
      BY <1>6, GeoSteps DEF LocateInv, TypeOK, Loop
    <3> QED
      BY <1>1, <2>3, <3>1 DEF GoTo
  <2> QED
    BY <1>6, <2>1, <2>2, <2>3, GeoSteps
<1>7. CASE LocateNode
  <2>1. PICK m \in Nat : next = m + 1
    BY DEF TypeOK
  <2>2. phase = "locating" /\ phase' = phase /\ next' = m + 2
    BY <1>7, <2>1 DEF LocateNode, Locating
  <2>3. KeysDiffer(deduped)
    BY <2>2 DEF DedupInv, Merged
  <2>4. Resolved(m) /\ \A i \in 1..Len(resolved) : InItsCountry(resolved[i])
    BY <2>1, <2>2 DEF LocateInv
  <2>5. Resolved(m + 1)' /\ \A i \in 1..Len(resolved') : InItsCountry(resolved'[i])
    BY <1>7, <2>1, <2>3, <2>4, LocateResolved
  <2>6. next' - 1 = m + 1
    BY <2>2
  <2>7. phase' = "locating" /\ "locating" \notin Unlocated /\ "locating" \in Unfiltered
    BY <2>2
  <2> HIDE DEF Unfiltered, Unlocated
  <2> QED
    BY <2>5, <2>6, <2>7 DEF LocateInv
<1>8. CASE LocateFails
  <2>1. PICK m \in Nat : next = m + 1
    BY DEF TypeOK
  <2>2. /\ phase = "locating" /\ phase' = phase /\ next' = m + 2
        /\ UNCHANGED <<resolved, deduped>> /\ failed' = failed + 1
    BY <1>8, <2>1 DEF LocateFails, Locating
  <2>3. Resolved(m) /\ \A i \in 1..Len(resolved) : InItsCountry(resolved[i])
    BY <2>1, <2>2 DEF LocateInv
  <2>4. Resolved(m + 1)'
    <3>1. /\ Len(resolved) + failed = m /\ KeysDiffer(resolved)
          /\ \A i \in 1..Len(resolved) : \E k \in 1..m : resolved[i].key = deduped[k].key
      BY <2>3 DEF Resolved
    <3>2. Len(resolved) + (failed + 1) = m + 1
      <4>1. Len(resolved) \in Nat /\ failed \in Nat
        BY DEF TypeOK
      <4> QED
        BY <3>1, <4>1
    <3>3. \A i \in 1..Len(resolved) : \E k \in 1..(m + 1) : resolved[i].key = deduped[k].key
      BY <3>1
    <3>4. KeysDiffer(resolved)'
      BY <2>2, <3>1 DEF KeysDiffer
    <3> QED
      BY <2>2, <3>2, <3>3, <3>4 DEF Resolved
  <2>5. next' - 1 = m + 1
    BY <2>2
  <2> QED
    BY <2>2, <2>3, <2>4, <2>5 DEF LocateInv
<1>9. \A n : UNCHANGED <<resolved, deduped, failed>> => (Resolved(n)' <=> Resolved(n))
  BY DEF Resolved, KeysDiffer
<1>10. CASE Located
  <2>1. /\ next = Len(deduped) + 1 /\ phase = "locating" /\ phase' = "filtering"
        /\ UNCHANGED <<resolved, deduped, failed>> /\ Len(deduped) \in Nat
    BY <1>10 DEF Located, TypeOK, Loop
  <2> QED
    BY <1>9, <2>1 DEF LocateInv
<1>11. CASE Accept \/ Drop \/ Filtered
  <2>1. /\ phase \in {"filtering", "publishing"} /\ phase' \in {"filtering", "publishing"}
        /\ UNCHANGED <<resolved, deduped, failed>>
    BY <1>11 DEF Accept, Drop, Filtered, Filtering
  <2> QED
    BY <1>9, <2>1 DEF LocateInv
<1>12. CASE UNCHANGED vars
  BY <1>9, <1>12 DEF LocateInv, vars
<1> QED
  BY <1>2, <1>3, <1>4, <1>5, <1>6, <1>7, <1>8, <1>10, <1>11, <1>12 DEF Next, Step, GeoStep

-----------------------------------------------------------------------------
(* The filter                                                              *)

LEMMA DividedNothing ==
  ASSUME candidates' = <<>>, dropped' = <<>>
  PROVE  Divided(0)'
<1>1. Len(candidates') = 0 /\ Len(dropped') = 0 /\ \A i : ~(i \in 1..0)
  OBVIOUS
<1> QED
  BY <1>1 DEF Divided

(* One list gets the node, the other stays.                                *)
LEMMA FilterDivided ==
  ASSUME TypeOK, NEW m \in Nat, next = m + 1, Divided(m), Accept \/ Drop
  PROVE  Divided(m + 1)'
<1> DEFINE node == resolved[m + 1]
           C == Len(candidates)
           D == Len(dropped)
<1>1. /\ C \in Nat /\ D \in Nat /\ m + 1 \in 1..Len(resolved)
      /\ resolved' = resolved /\ cfg' = cfg
  BY DEF Accept, Drop, Filtering, TypeOK
<1>2. node \in Node
  BY <1>1 DEF TypeOK
<1>3. \A country : Passes(country)' <=> Passes(country)
  BY <1>1 DEF Passes
<1>4. /\ C + D = m
      /\ \A k \in 1..m : \/ \E i \in 1..C : candidates[i] = resolved[k]
                         \/ \E i \in 1..D : dropped[i] = resolved[k]
      /\ \A i \in 1..C :
           Passes(candidates[i].country) /\ \E k \in 1..m : candidates[i] = resolved[k]
      /\ \A i \in 1..D :
           ~Passes(dropped[i].country) /\ \E k \in 1..m : dropped[i] = resolved[k]
  BY DEF Divided
<1> HIDE DEF node, C, D
<1>5. \A k \in 1..(m + 1) : k \in 1..m \/ k = m + 1
  OBVIOUS
<1>6. 1..m \subseteq 1..(m + 1) /\ m + 1 \in 1..(m + 1)
  OBVIOUS
<1>7. CASE Accept
  <2>1. /\ Len(candidates') = C + 1
        /\ candidates'[C + 1] = node
        /\ \A i \in 1..C : candidates'[i] = candidates[i]
        /\ dropped' = dropped /\ Passes(node.country)
    BY <1>2, <1>7, AppendProperties DEF Accept, TypeOK, C, node
  <2>2. \A i \in 1..(C + 1) : i \in 1..C \/ i = C + 1
    BY <1>1
  <2>3. 1..C \subseteq 1..(C + 1) /\ C + 1 \in 1..(C + 1)
    BY <1>1
  <2>4. (C + 1) + D = m + 1
    BY <1>1, <1>4
  <2>5. \A k \in 1..(m + 1) : \/ \E i \in 1..(C + 1) : candidates'[i] = resolved[k]
                              \/ \E i \in 1..D : dropped[i] = resolved[k]
    <3>1. ASSUME NEW i \in 1..C, NEW k, candidates[i] = resolved[k]
          PROVE  \E j \in 1..(C + 1) : candidates'[j] = resolved[k]
      BY <2>1, <2>3, <3>1
    <3>2. \E j \in 1..(C + 1) : candidates'[j] = resolved[m + 1]
      BY <2>1, <2>3 DEF node
    <3> QED
      BY <1>4, <1>5, <3>1, <3>2
  <2>6. ASSUME NEW i \in 1..(C + 1)
        PROVE  Passes(candidates'[i].country) /\ \E k \in 1..(m + 1) : candidates'[i] = resolved[k]
    <3>1. CASE i \in 1..C
      <4>1. candidates'[i] = candidates[i]
        BY <2>1, <3>1
      <4>2. Passes(candidates[i].country) /\ \E k \in 1..m : candidates[i] = resolved[k]
        BY <1>4, <3>1
      <4> QED
        BY <1>6, <4>1, <4>2
    <3>2. CASE i = C + 1
      <4>1. candidates'[i] = node
        BY <2>1, <3>2
      <4> QED
        BY <1>6, <2>1, <4>1 DEF node
    <3> QED
      BY <2>2, <3>1, <3>2
  <2>7. \A i \in 1..D : ~Passes(dropped[i].country) /\ \E k \in 1..(m + 1) : dropped[i] = resolved[k]
    BY <1>4, <1>6
  <2> QED
    BY <1>1, <1>3, <2>1, <2>4, <2>5, <2>6, <2>7 DEF Divided, D
<1>8. CASE Drop
  <2>1. /\ Len(dropped') = D + 1
        /\ dropped'[D + 1] = node
        /\ \A i \in 1..D : dropped'[i] = dropped[i]
        /\ candidates' = candidates /\ ~Passes(node.country)
    BY <1>2, <1>8, AppendProperties DEF Drop, TypeOK, D, node
  <2>2. \A i \in 1..(D + 1) : i \in 1..D \/ i = D + 1
    BY <1>1
  <2>3. 1..D \subseteq 1..(D + 1) /\ D + 1 \in 1..(D + 1)
    BY <1>1
  <2>4. C + (D + 1) = m + 1
    BY <1>1, <1>4
  <2>5. \A k \in 1..(m + 1) : \/ \E i \in 1..C : candidates[i] = resolved[k]
                              \/ \E i \in 1..(D + 1) : dropped'[i] = resolved[k]
    <3>1. ASSUME NEW i \in 1..D, NEW k, dropped[i] = resolved[k]
          PROVE  \E j \in 1..(D + 1) : dropped'[j] = resolved[k]
      BY <2>1, <2>3, <3>1
    <3>2. \E j \in 1..(D + 1) : dropped'[j] = resolved[m + 1]
      BY <2>1, <2>3 DEF node
    <3> QED
      BY <1>4, <1>5, <3>1, <3>2
  <2>6. \A i \in 1..C : Passes(candidates[i].country) /\ \E k \in 1..(m + 1) : candidates[i] = resolved[k]
    BY <1>4, <1>6
  <2>7. ASSUME NEW i \in 1..(D + 1)
        PROVE  ~Passes(dropped'[i].country) /\ \E k \in 1..(m + 1) : dropped'[i] = resolved[k]
    <3>1. CASE i \in 1..D
      <4>1. dropped'[i] = dropped[i]
        BY <2>1, <3>1
      <4>2. ~Passes(dropped[i].country) /\ \E k \in 1..m : dropped[i] = resolved[k]
        BY <1>4, <3>1
      <4> QED
        BY <1>6, <4>1, <4>2
    <3>2. CASE i = D + 1
      <4>1. dropped'[i] = node
        BY <2>1, <3>2
      <4> QED
        BY <1>6, <2>1, <4>1 DEF node
    <3> QED
      BY <2>2, <3>1, <3>2
  <2> QED
    BY <1>1, <1>3, <2>1, <2>4, <2>5, <2>6, <2>7 DEF Divided, C
<1> QED
  BY <1>7, <1>8

LEMMA StepFilter ==
  ASSUME TypeOK, FilterInv, [Next]_vars
  PROVE  FilterInv'
<1> USE DEF Unlocated, Unread, Unfiltered
<1>1. ASSUME candidates' = <<>>, dropped' = <<>>,
             phase' \in Unfiltered \/ (phase' = "filtering" /\ next' = 1)
      PROVE  FilterInv'
  <2>1. next' = 1 => next' - 1 = 0
    OBVIOUS
  <2> QED
    BY <1>1, <2>1, DividedNothing DEF FilterInv
<1>2. CASE Begin \/ NoCandidates \/ Publish
  BY <1>1, <1>2 DEF Begin, NoCandidates, Publish, Reset
<1>3. CASE FetchSource \/ FetchFails \/ ReadNode
  BY <1>1, <1>3, ReadsRecord DEF Recording, Reading, Record, FilterInv
<1>4. CASE Collected \/ KeepNode \/ MergeNode \/ Deduplicated
  BY <1>1, <1>4 DEF Collected, KeepNode, MergeNode, Deduplicating, Deduplicated, FilterInv
<1>5. CASE GeoStep
  BY <1>1, <1>5, GeoSteps DEF GoTo, SkipGeo, FilterInv
<1>6. CASE LocateNode \/ LocateFails \/ Located
  BY <1>1, <1>6 DEF LocateNode, LocateFails, Locating, Located, FilterInv
<1>7. CASE Accept \/ Drop
  <2>1. PICK m \in Nat : next = m + 1
    BY DEF TypeOK
  <2>2. phase = "filtering" /\ phase' = phase /\ next' = m + 2
    BY <1>7, <2>1 DEF Accept, Drop, Filtering
  <2>3. Divided(m)
    BY <2>1, <2>2 DEF FilterInv
  <2>4. Divided(m + 1)'
    BY <1>7, <2>1, <2>3, FilterDivided
  <2>5. next' - 1 = m + 1
    BY <2>2
  <2>6. phase' \notin Unfiltered /\ phase' # "publishing"
    BY <2>2
  <2> HIDE DEF Unfiltered
  <2> QED
    BY <2>4, <2>5, <2>6 DEF FilterInv
<1>8. \A n : UNCHANGED <<cfg, resolved, candidates, dropped>> => (Divided(n)' <=> Divided(n))
  BY DEF Divided, Passes
<1>9. CASE Filtered
  <2>1. /\ next = Len(resolved) + 1 /\ phase = "filtering" /\ phase' = "publishing"
        /\ UNCHANGED <<cfg, next, resolved, candidates, dropped>>
    <3>1. next > Len(resolved) /\ next \in 1..(Len(resolved) + 1)
      BY <1>9 DEF Filtered, TypeOK, Loop
    <3>2. next = Len(resolved) + 1
      BY <3>1
    <3> QED
      BY <1>9, <3>2 DEF Filtered
  <2> QED
    BY <1>8, <2>1 DEF FilterInv
<1>10. CASE UNCHANGED vars
  BY <1>8, <1>10 DEF FilterInv, vars
<1> QED
  BY <1>2, <1>3, <1>4, <1>5, <1>6, <1>7, <1>9, <1>10 DEF Next, Step, GeoStep

-----------------------------------------------------------------------------
(* The invariant and what follows from it                                  *)

THEOREM Invariance == Spec => []IInv
<1>1. Init => IInv
  <2> SUFFICES ASSUME Init PROVE IInv
    OBVIOUS
  <2>1. /\ phase = "idle" /\ raw = <<>> /\ statuses = <<>> /\ deduped = <<>>
        /\ resolved = <<>> /\ failed = 0 /\ candidates = <<>> /\ dropped = <<>>
    BY DEF Init
  <2>2. Len(raw) = 0 /\ Len(statuses) = 0 /\ Len(resolved) = 0 /\ \A i : ~(i \in 1..0)
    BY <2>1
  <2> DEFINE origin == [i \in 1..0 |-> 1]
  <2>3. origin \in [1..Len(raw) -> 1..Len(statuses)] /\ Explains(origin)
    BY <2>2 DEF Explains
  <2>4. CollectInv
    BY <2>1, <2>2, <2>3 DEF CollectInv, Unread
  <2>5. DedupInv /\ LocateInv /\ FilterInv
    BY <2>1, <2>2 DEF DedupInv, LocateInv, FilterInv, Unlocated, Unfiltered, Unread
  <2>6. ReadInv
    BY DEF Init, ReadInv
  <2> QED
    BY <2>4, <2>5, <2>6, InitTyped DEF IInv
<1>2. IInv /\ [Next]_vars => IInv'
  BY StepTyped, StepRead, StepCollect, StepDedup, StepLocate, StepFilter DEF IInv
<1> QED
  BY <1>1, <1>2, PTL DEF Spec

(* First is the index that the invariant speaks of.                        *)
LEMMA FirstIs ==
  ASSUME NEW list, Len(list) \in Nat, NEW key, NEW f \in 1..Len(list), IsFirst(list, key, f)
  PROVE  First(list, key) = f
<1>1. \A g \in 1..Len(list) : IsFirst(list, key, g) => g = f
  BY FirstIsUnique
<1> QED
  BY <1>1 DEF First, IsFirst

(* Deduplication: one node for each key that was read, in the order and    *)
(* with the label of its first occurrence, and with the names of all the   *)
(* sources that have it, whatever the sources contained (DedupNodes).      *)
THEOREM Deduplication == Spec => []DedupIsExact
<1>1. IInv => DedupIsExact
  <2> SUFFICES ASSUME IInv, phase \in Phases \ {"idle", "collecting", "deduplicating"}
               PROVE  /\ Keys(deduped) = Keys(raw)
                      /\ \A i, j \in 1..Len(deduped) :
                           i < j => First(raw, deduped[i].key) < First(raw, deduped[j].key)
                      /\ \A i \in 1..Len(deduped) :
                           /\ deduped[i].label = raw[First(raw, deduped[i].key)].label
                           /\ deduped[i].names =
                                UNION {raw[j].names :
                                       j \in {k \in 1..Len(raw) : raw[k].key = deduped[i].key}}
    BY DEF DedupIsExact
  <2>1. Merged(Len(raw)) /\ Len(raw) \in Nat
    BY DEF IInv, DedupInv, Unread, TypeOK
  <2>2. ASSUME NEW i \in 1..Len(deduped)
        PROVE  /\ First(raw, deduped[i].key) \in 1..Len(raw)
               /\ IsFirst(raw, deduped[i].key, First(raw, deduped[i].key))
               /\ deduped[i].label = raw[First(raw, deduped[i].key)].label
    <3>1. PICK f \in 1..Len(raw) :
            IsFirst(raw, deduped[i].key, f) /\ deduped[i].label = raw[f].label
      BY <2>1 DEF Merged
    <3> QED
      BY <2>1, <3>1, FirstIs
  <2>3. Keys(deduped) \subseteq Keys(raw)
    BY <2>2 DEF Keys, IsFirst
  <2>4. Keys(raw) \subseteq Keys(deduped)
    <3>1. \A k \in 1..Len(raw) : \E i \in 1..Len(deduped) : deduped[i].key = raw[k].key
      BY <2>1 DEF Merged
    <3> QED
      BY <3>1 DEF Keys
  <2>5. \A i, j \in 1..Len(deduped) :
          i < j => First(raw, deduped[i].key) < First(raw, deduped[j].key)
    <3>1. \A i, j \in 1..Len(deduped), f, g \in 1..Len(raw) :
            i < j /\ IsFirst(raw, deduped[i].key, f) /\ IsFirst(raw, deduped[j].key, g) => f < g
      BY <2>1 DEF Merged
    <3> QED
      BY <2>2, <3>1
  <2>6. \A i \in 1..Len(deduped) : deduped[i].names =
          UNION {raw[j].names : j \in {k \in 1..Len(raw) : raw[k].key = deduped[i].key}}
    BY <2>1 DEF Merged, NamesOf, Sharing
  <2> QED
    BY <2>2, <2>3, <2>4, <2>5, <2>6
<1> QED
  BY <1>1, Invariance, PTL

LEMMA KeysCounted ==
  ASSUME NEW list, Len(list) \in Nat, KeysDiffer(list)
  PROVE  Cardinality(Keys(list)) = Len(list)
<1> DEFINE keyAt == [i \in 1..Len(list) |-> list[i].key]
<1>1. keyAt \in [1..Len(list) -> Keys(list)]
  BY DEF Keys
<1>2. \A i, j \in 1..Len(list) : keyAt[i] = keyAt[j] => i = j
  BY DEF KeysDiffer
<1>3. \A key \in Keys(list) : \E i \in 1..Len(list) : keyAt[i] = key
  BY DEF Keys
<1>4. ExistsBijection(1..Len(list), Keys(list))
  <2> HIDE DEF keyAt
  <2>1. keyAt \in Injection(1..Len(list), Keys(list))
    BY <1>1, <1>2 DEF Injection, IsInjective
  <2>2. keyAt \in Surjection(1..Len(list), Keys(list))
    BY <1>1, <1>3 DEF Surjection
  <2> QED
    BY <2>1, <2>2 DEF ExistsBijection, Bijection
<1> QED
  BY <1>4, FS_CountingElements

(* What is published accounts for every source and every node, whichever   *)
(* sources, names and addresses failed: a status for each source that      *)
(* explains the nodes which were read (collectNodesDetailed), and each of  *)
(* them a candidate, dropped, or not located (applyGeo, Engine.Filter).    *)
THEOREM NothingIsLost == Spec => []EveryNodeIsAccountedFor
<1>1. IInv /\ phase = "publishing" =>
        /\ StatusesExplainRaw
        /\ Keys(candidates) \cup Keys(dropped) = Keys(resolved)
        /\ Keys(candidates) \cap Keys(dropped) = {}
        /\ Len(candidates) + Len(dropped) = Len(resolved)
        /\ Len(resolved) + failed = Cardinality(Keys(raw))
  <2> SUFFICES ASSUME IInv, phase = "publishing"
               PROVE  /\ StatusesExplainRaw
                      /\ Keys(candidates) \cup Keys(dropped) = Keys(resolved)
                      /\ Keys(candidates) \cap Keys(dropped) = {}
                      /\ Len(candidates) + Len(dropped) = Len(resolved)
                      /\ Len(resolved) + failed = Cardinality(Keys(raw))
    OBVIOUS
  <2>1. StatusesExplainRaw
    BY DEF IInv, CollectInv, Unread, StatusesExplainRaw
  <2>2. next - 1 = Len(resolved) /\ Divided(next - 1) /\ Len(resolved) \in Nat
    BY DEF IInv, FilterInv, Unfiltered, Unlocated, Unread, TypeOK
  <2>3. Divided(Len(resolved))
    BY <2>2
  <2>4. Resolved(Len(deduped)) /\ Merged(Len(raw)) /\ Len(raw) \in Nat /\ Len(deduped) \in Nat
    BY DEF IInv, LocateInv, DedupInv, Unfiltered, Unlocated, Unread, TypeOK
  <2>5. Keys(candidates) \cup Keys(dropped) \subseteq Keys(resolved)
    <3>1. ASSUME NEW i \in 1..Len(candidates) PROVE candidates[i].key \in Keys(resolved)
      BY <2>3 DEF Divided, Keys
    <3>2. ASSUME NEW i \in 1..Len(dropped) PROVE dropped[i].key \in Keys(resolved)
      BY <2>3 DEF Divided, Keys
    <3> QED
      BY <3>1, <3>2 DEF Keys
  <2>6. Keys(resolved) \subseteq Keys(candidates) \cup Keys(dropped)
    <3> SUFFICES ASSUME NEW k \in 1..Len(resolved)
                 PROVE  resolved[k].key \in Keys(candidates) \cup Keys(dropped)
      BY DEF Keys
    <3>1. CASE \E i \in 1..Len(candidates) : candidates[i] = resolved[k]
      BY <3>1 DEF Keys
    <3>2. CASE \E i \in 1..Len(dropped) : dropped[i] = resolved[k]
      BY <3>2 DEF Keys
    <3> QED
      BY <2>3, <3>1, <3>2 DEF Divided
  <2>7. ASSUME NEW i \in 1..Len(candidates), NEW j \in 1..Len(dropped)
        PROVE  candidates[i].key # dropped[j].key
    <3>1. PICK k \in 1..Len(resolved) : candidates[i] = resolved[k]
      BY <2>3 DEF Divided
    <3>2. PICK l \in 1..Len(resolved) : dropped[j] = resolved[l]
      BY <2>3 DEF Divided
    <3>3. Passes(resolved[k].country) /\ ~Passes(resolved[l].country)
      BY <2>3, <3>1, <3>2 DEF Divided
    <3>4. resolved[k].key = resolved[l].key => k = l
      BY <2>4 DEF Resolved, KeysDiffer
    <3> QED
      BY <3>1, <3>2, <3>3, <3>4
  <2>8. Keys(candidates) \cap Keys(dropped) = {}
    BY <2>7 DEF Keys
  <2>9. Len(candidates) + Len(dropped) = Len(resolved)
    BY <2>3 DEF Divided
  <2>10. Keys(deduped) = Keys(raw)
    <3>1. Keys(deduped) \subseteq Keys(raw)
      <4>1. ASSUME NEW i \in 1..Len(deduped) PROVE deduped[i].key \in Keys(raw)
        <5>1. PICK f \in 1..Len(raw) : IsFirst(raw, deduped[i].key, f)
          BY <2>4 DEF Merged
        <5> QED
          BY <5>1 DEF Keys, IsFirst
      <4> QED
        BY <4>1 DEF Keys
    <3>2. Keys(raw) \subseteq Keys(deduped)
      <4>1. \A k \in 1..Len(raw) : \E i \in 1..Len(deduped) : deduped[i].key = raw[k].key
        BY <2>4 DEF Merged
      <4> QED
        BY <4>1 DEF Keys
    <3> QED
      BY <3>1, <3>2
  <2>11. Cardinality(Keys(deduped)) = Len(deduped)
    BY <2>4, KeysCounted DEF Merged
  <2>12. Len(resolved) + failed = Len(deduped)
    BY <2>4 DEF Resolved
  <2> QED
    BY <2>1, <2>5, <2>6, <2>8, <2>9, <2>10, <2>11, <2>12
<1>2. IInv => EveryNodeIsAccountedFor
  BY <1>1 DEF EveryNodeIsAccountedFor, IInv
<1> QED
  BY <1>2, Invariance, PTL

(* The country filter, over addresses: with an allow list every published  *)
(* node has an address in a country of the list, with or without a         *)
(* database; one whose addresses are all blocked or unknown gets through   *)
(* only unlocated; one is dropped only for an address in a country that    *)
(* the lists refuse, or unlocated under an allow list; and a refresh       *)
(* locates all of its nodes or none (ResolveNodeCountry, applyGeo,         *)
(* Engine.Filter).                                                         *)
THEOREM FilterCorrect == Spec => []FilterHolds
<1>1. IInv => FilterHolds
  <2> SUFFICES ASSUME IInv, phase = "publishing"
               PROVE  AllowIsStrict /\ BlockedStayOut /\ DroppedForCause /\ LocatedAllOrNone
    BY DEF FilterHolds
  <2>1. /\ cfg.allow \subseteq Country /\ cfg.block \subseteq Country
        /\ Nowhere \notin Country
    BY ConfigsAssumption, AddressesAssumption DEF IInv, TypeOK
  <2>2. next - 1 = Len(resolved) /\ Divided(next - 1)
    BY DEF IInv, FilterInv, Unfiltered, Unlocated, Unread, TypeOK
  <2>3. ASSUME NEW i \in 1..Len(candidates)
        PROVE  /\ Passes(candidates[i].country)
               /\ candidates[i] \in Node
               /\ InItsCountry(candidates[i]) \/ candidates[i].country = Nowhere
    <3>1. PICK k \in 1..Len(resolved) : candidates[i] = resolved[k]
      BY <2>2 DEF Divided
    <3>2. InItsCountry(resolved[k]) \/ resolved[k].country = Nowhere
      BY DEF IInv, LocateInv
    <3> QED
      BY <2>2, <3>1, <3>2 DEF Divided, IInv, TypeOK
  <2>4. ASSUME NEW i \in 1..Len(candidates), InItsCountry(candidates[i])
        PROVE  \E j \in 1..Len(AddressesOf[candidates[i].key]) :
                 AddressesOf[candidates[i].key][j] = candidates[i].country
    <3>1. AddressesOf[candidates[i].key] \in Seq(Country \cup {Nowhere})
      BY <2>3, AddressesAssumption DEF Node
    <3> QED
      BY <2>4, <3>1 DEF InItsCountry
  <2>5. AllowIsStrict
    <3> SUFFICES ASSUME cfg.allow # {}, NEW i \in 1..Len(candidates)
                 PROVE  \E j \in 1..Len(AddressesOf[candidates[i].key]) :
                          AddressesOf[candidates[i].key][j] \in cfg.allow
      BY DEF AllowIsStrict
    <3>1. candidates[i].country \in cfg.allow
      BY <2>3 DEF Passes
    <3>2. InItsCountry(candidates[i])
      BY <2>1, <2>3, <3>1
    <3> QED
      BY <2>4, <3>1, <3>2
  <2>6. BlockedStayOut
    <3> SUFFICES ASSUME NEW i \in 1..Len(candidates)
                 PROVE  \/ \E j \in 1..Len(AddressesOf[candidates[i].key]) :
                             AddressesOf[candidates[i].key][j] \in Country \ cfg.block
                        \/ candidates[i].country = Nowhere /\ cfg.allow = {}
      BY DEF BlockedStayOut
    <3>1. CASE InItsCountry(candidates[i])
      <4>1. candidates[i].country \in Country \ cfg.block
        BY <2>3, <3>1 DEF InItsCountry, Node, Passes
      <4> QED
        BY <2>4, <3>1, <4>1
    <3>2. CASE candidates[i].country = Nowhere
      BY <2>1, <2>3, <3>2 DEF Passes
    <3> QED
      BY <2>3, <3>1, <3>2
  <2>7. LocatedAllOrNone
    BY DEF IInv, LocateInv, LocatedAllOrNone, InItsCountry
  <2>8. DroppedForCause
    <3> SUFFICES ASSUME NEW i \in 1..Len(dropped)
                 PROVE  \/ dropped[i].country = Nowhere /\ cfg.allow # {}
                        \/ \E j \in 1..Len(AddressesOf[dropped[i].key]) :
                             LET country == AddressesOf[dropped[i].key][j] IN
                             /\ country # Nowhere
                             /\ country \in cfg.block \/ (cfg.allow # {} /\ country \notin cfg.allow)
      BY DEF DroppedForCause
    <3>1. PICK k \in 1..Len(resolved) : dropped[i] = resolved[k]
      BY <2>2 DEF Divided
    <3>2. InItsCountry(resolved[k]) \/ resolved[k].country = Nowhere
      BY DEF IInv, LocateInv
    <3>3. ~Passes(dropped[i].country) /\ dropped[i] \in Node
      BY <2>2, <3>1 DEF Divided, IInv, TypeOK
    <3>4. CASE dropped[i].country = Nowhere
      BY <2>1, <3>3, <3>4 DEF Passes
    <3>5. CASE InItsCountry(dropped[i]) /\ dropped[i].country # Nowhere
      <4>1. AddressesOf[dropped[i].key] \in Seq(Country \cup {Nowhere})
        BY <3>3, AddressesAssumption DEF Node
      <4>2. PICK j \in 1..Len(AddressesOf[dropped[i].key]) :
              AddressesOf[dropped[i].key][j] = dropped[i].country
        BY <3>5, <4>1 DEF InItsCountry
      <4> QED
        BY <3>3, <3>5, <4>2 DEF Passes
    <3> QED
      BY <3>1, <3>2, <3>4, <3>5
  <2> QED
    BY <2>5, <2>6, <2>7, <2>8
<1> QED
  BY <1>1, Invariance, PTL

-----------------------------------------------------------------------------
(* How contents are read                                                   *)

(* In a text whose comments hide nothing, the entries that are chosen have *)
(* the links of all the lines, whichever reading they come from.           *)
LEMMA EntriesOfText ==
  ASSUME NEW content \in Content, content.form = "text", HidesNothing(content), NEW kind
  PROVE  LET entries == Entries(kind, content)
             links == LinksOfLines(content)
         IN  /\ entries \in Seq(AnEntry) /\ links \in Seq(AnEntry)
             /\ Len(entries) = Len(links)
             /\ Len(Good(entries)) = Len(Good(links))
<1> DEFINE lines == content.lines
           all == {i \in DOMAIN lines : lines[i].link # NoLink}
           found == {i \in DOMAIN lines : lines[i].form # "bare" /\ lines[i].link # NoLink}
           entries == Entries(kind, content)
           links == LinksOfLines(content)
           L == {lines[i].link : i \in all}
           F == {lines[i].link : i \in found}
<1>1. lines \in Seq(TextLine) /\ DOMAIN lines = 1..Len(lines)
  BY DEF Content
<1>2. {i \in DOMAIN lines : lines[i].form # "comment"} = all
  <2>1. ASSUME NEW i \in DOMAIN lines
        PROVE  lines[i].form # "comment" <=> lines[i].link # NoLink
    <3>1. lines[i] \in TextLine
      BY <1>1, ElementOfSeq
    <3>2. lines[i].form = "comment" => lines[i].link = NoLink
      BY <1>1 DEF HidesNothing
    <3> QED
      BY <3>1, <3>2 DEF TextLine
  <2> QED
    BY <2>1
<1>3. ParseEntriesFromLines(content) = links
  BY <1>2 DEF ParseEntriesFromLines, LinksOfLines
<1>4. ParseEntriesFromContent(content) = LinksOf(lines, found)
  BY DEF ParseEntriesFromContent, LinksIn
<1>5. /\ links \in Seq(AnEntry) /\ ToSet(links) = L /\ Len(links) = Cardinality(L)
      /\ IsFiniteSet(L) /\ \A i, j \in DOMAIN links : links[i] = links[j] => i = j
  BY <1>1, LinksOfLinesFacts DEF LinksOfLines
<1>6. CASE entries = links
  BY <1>5, <1>6
<1>7. CASE entries # links
  <2>1. entries = LinksOf(lines, found) /\ Len(links) <= Len(entries)
    <3>1. entries = LinksOf(lines, found) /\ ~(Len(links) > Len(LinksOf(lines, found)))
      BY <1>3, <1>4, <1>7 DEF Entries
    <3>2. Len(links) \in Nat /\ Len(LinksOf(lines, found)) \in Nat
      BY <1>1, <1>5, LinksOfLinesFacts
    <3> QED
      BY <3>1, <3>2
  <2>2. /\ entries \in Seq(AnEntry) /\ ToSet(entries) = F /\ Len(entries) = Cardinality(F)
        /\ IsFiniteSet(F) /\ \A i, j \in DOMAIN entries : entries[i] = entries[j] => i = j
    BY <1>1, <2>1, LinksOfLinesFacts
  <2>3. F \in SUBSET L
    OBVIOUS
  <2>4. F = L
    <3>1. Cardinality(F) <= Cardinality(L) /\ (Cardinality(L) = Cardinality(F) => L = F)
      BY <1>5, <2>3, FS_Subset
    <3>2. Cardinality(F) \in Nat /\ Cardinality(L) \in Nat /\ Cardinality(L) <= Cardinality(F)
      BY <1>5, <2>1, <2>2, FS_CardinalityType
    <3> HIDE DEF F, L
    <3>3. Cardinality(F) = Cardinality(L)
      BY <3>1, <3>2
    <3> QED
      BY <3>1, <3>3
  <2>5. Len(Good(entries)) = Cardinality({link \in L : link.good})
    BY <2>2, <2>4, GoodOnes
  <2>6. Len(Good(links)) = Cardinality({link \in L : link.good})
    BY <1>5, GoodOnes
  <2> QED
    BY <1>5, <2>2, <2>4, <2>5, <2>6
<1> QED
  BY <1>6, <1>7

(* No entry comes of nothing.                                              *)
LEMMA GoodOfNothing ==
  ASSUME NEW links \in Seq(AnEntry)
  PROVE  /\ Good(links) # <<>> => links # <<>>
         /\ Good(links) = <<>> <=> Len(Good(links)) = 0
<1>1. Good(links) \in Seq(GoodLink)
  BY GoodLinks
<1>2. links = <<>> => \A i \in DOMAIN links : ~links[i].good
  OBVIOUS
<1>3. links = <<>> => Good(links) = <<>>
  BY <1>2, GoodLinks
<1> QED
  BY <1>1, <1>3

(* What the status of the source read last says: that of its content.      *)
LEMMA StatusOfRead ==
  ASSUME IInv, read # Nothing
  PROVE  /\ read[2] \in Content /\ read[1] \in {"remote", "file"}
         /\ LET result == ParseSourceContent(read[1], read[2])
            IN  LastStatus = [ok |-> result.ok, nodes |-> Len(result.nodes),
                              unsupported |-> result.unsupported]
  BY ContentsAssumption DEF IInv, TypeOK, ReadInv, LastStatus

(* A source that is no document yields the good ones of its entries.       *)
LEMMA StatusOfEntries ==
  ASSUME IInv, read # Nothing, ~Handled(read[2]), Entries(read[1], read[2]) \in Seq(AnEntry)
  PROVE  Yields(Entries(read[1], read[2]))
<1> DEFINE entries == Entries(read[1], read[2])
           result == ParseSourceContent(read[1], read[2])
<1>1. result = IF Good(entries) = <<>> THEN Failure
               ELSE Success(Good(entries), Len(entries) - Len(Good(entries)))
  BY DEF ParseSourceContent
<1>2. LastStatus = [ok |-> result.ok, nodes |-> Len(result.nodes),
                    unsupported |-> result.unsupported]
  BY StatusOfRead
<1> HIDE DEF entries, result
<1>3. CASE Good(entries) = <<>>
  <2>1. result.ok = FALSE
    BY <1>1, <1>3 DEF Failure
  <2>2. LastStatus.ok = FALSE
    BY <1>2, <2>1
  <2> QED
    BY <1>3, <2>2 DEF Yields, entries
<1>4. CASE Good(entries) # <<>>
  <2>1. /\ result.ok = TRUE /\ result.nodes = Good(entries)
        /\ result.unsupported = Len(entries) - Len(Good(entries))
    BY <1>1, <1>4 DEF Success
  <2>2. /\ LastStatus.ok = TRUE /\ LastStatus.nodes = Len(Good(entries))
        /\ LastStatus.unsupported = Len(entries) - Len(Good(entries))
    BY <1>2, <2>1
  <2> QED
    BY <1>4, <2>2 DEF Yields, entries
<1> QED
  BY <1>3, <1>4

(* Entries of a text, none of them good or all of them, are the links of   *)
(* one of its readings, and not the shorter one.                           *)
LEMMA EntriesNotFewer ==
  ASSUME NEW content \in Content, content.form = "text", NEW kind
  PROVE  /\ Entries(kind, content) \in Seq(AnEntry)
         /\ Len(Entries(kind, content)) >= Len(OutsideComments(content))
<1>1. content.lines \in Seq(TextLine)
  BY DEF Content
<1>2. /\ ParseEntriesFromLines(content) = OutsideComments(content)
      /\ ParseEntriesFromContent(content) = LinksIn(content.lines)
  BY DEF ParseEntriesFromLines, ParseEntriesFromContent, OutsideComments
<1>3. OutsideComments(content) \in Seq(AnEntry) /\ LinksIn(content.lines) \in Seq(AnEntry)
  BY <1>1, LinksOfLinesFacts DEF OutsideComments, LinksIn
<1>4. Len(OutsideComments(content)) \in Nat /\ Len(LinksIn(content.lines)) \in Nat
  BY <1>3
<1> QED
  BY <1>2, <1>3, <1>4 DEF Entries

(* Sources fail, yield their links or lose them exactly as ListsAreRead    *)
(* says, whatever their contents are (ParseEntriesFromContent,             *)
(* parseEntriesFromLines, FetchResult, parseSourceContent).                *)
THEOREM ContentsAreRead == Spec => []ListsAreRead
<1>1. IInv => CleanTextIsRead
  <2> SUFFICES ASSUME IInv, read # Nothing, IsText(read[2]), HidesNothing(read[2])
               PROVE  Yields(LinksOfLines(read[2]))
    BY DEF CleanTextIsRead
  <2> DEFINE entries == Entries(read[1], read[2])
             links == LinksOfLines(read[2])
  <2>1. read[2] \in Content /\ read[2].form = "text" /\ ~Handled(read[2])
    BY StatusOfRead DEF IsText, Handled
  <2>2. /\ entries \in Seq(AnEntry) /\ links \in Seq(AnEntry)
        /\ Len(entries) = Len(links)
        /\ Len(Good(entries)) = Len(Good(links))
    BY <2>1, EntriesOfText
  <2>3. Good(entries) = <<>> <=> Good(links) = <<>>
    BY <2>2, GoodOfNothing
  <2>4. Yields(entries)
    BY <2>1, <2>2, StatusOfEntries
  <2> HIDE DEF entries, links
  <2>5. (Good(entries) # <<>>) = (Good(links) # <<>>)
    BY <2>3
  <2>6. Yields(links)
    BY <2>2, <2>4, <2>5 DEF Yields
  <2> QED
    BY <2>6 DEF links
<1>2. IInv => NoTextShrinks
  <2> SUFFICES ASSUME IInv, read # Nothing, IsText(read[2]), LastStatus.ok
               PROVE  LastStatus.nodes + LastStatus.unsupported >= Len(OutsideComments(read[2]))
    BY DEF NoTextShrinks
  <2>1. read[2] \in Content /\ read[2].form = "text" /\ ~Handled(read[2])
    BY StatusOfRead DEF IsText, Handled
  <2> DEFINE entries == Entries(read[1], read[2])
  <2>2. entries \in Seq(AnEntry) /\ Len(entries) >= Len(OutsideComments(read[2]))
    BY <2>1, EntriesNotFewer
  <2>3. /\ LastStatus.nodes = Len(Good(entries))
        /\ LastStatus.unsupported = Len(entries) - Len(Good(entries))
    BY <2>1, <2>2, StatusOfEntries DEF Yields
  <2>4. Len(entries) \in Nat /\ Len(Good(entries)) \in Nat
    BY <2>2, GoodLinks
  <2> HIDE DEF entries
  <2>5. LastStatus.nodes + LastStatus.unsupported = Len(entries)
    BY <2>3, <2>4
  <2> QED
    BY <2>2, <2>5
<1>3. IInv => EncodedListIsRead
  <2> SUFFICES ASSUME IInv, read # Nothing, read[2].form = "base64"
               PROVE  LET links == Distinct(read[2].links) IN
                      IF read[1] = "remote" /\ read[2].rows <= Len(links)
                        THEN Yields(links) ELSE ~LastStatus.ok
    BY DEF EncodedListIsRead
  <2> DEFINE content == read[2]
             links == Distinct(content.links)
             rows == [i \in 1..content.rows |-> Row]
             entries == Entries(read[1], content)
  <2>1. content \in Content /\ content.links \in Seq(AnEntry) /\ content.rows \in Nat
    <3>1. content \in Content
      BY StatusOfRead
    <3>2. content.links \in Seq(Link) /\ content.rows \in Nat
      BY <3>1 DEF Content
    <3> QED
      BY <3>1, <3>2 DEF AnEntry
  <2>2. links \in Seq(AnEntry) /\ Len(links) \in Nat
    BY <2>1, DistinctFacts
  <2>3. rows \in Seq(AnEntry) /\ Len(rows) = content.rows /\ Good(rows) = <<>>
    <3>1. Row \in AnEntry /\ ~Row.good
      BY DEF Row, AnEntry
    <3>2. rows \in Seq(AnEntry) /\ Len(rows) = content.rows
      BY <2>1, <3>1
    <3>3. \A i \in DOMAIN rows : ~rows[i].good
      BY <3>1
    <3> QED
      BY <3>2, <3>3, GoodLinks
  <2>4. /\ ParseEntriesFromContent(content) = links
        /\ ParseEntriesFromLines(content) = rows
    BY DEF ParseEntriesFromContent, ParseEntriesFromLines
  <2>5. ~Handled(content)
    BY DEF Handled
  <2>6. entries \in {links, rows}
    BY <2>4 DEF Entries
  <2>7. Yields(entries)
    BY <2>2, <2>3, <2>5, <2>6, StatusOfEntries
  <2>8. CASE read[1] = "remote" /\ content.rows <= Len(links)
    <3>1. CASE links = <<>>
      <4>1. content.rows = 0 /\ rows = links
        BY <2>1, <2>2, <2>8, <3>1
      <4> QED
        BY <2>6, <2>7, <2>8, <4>1
    <3>2. CASE links # <<>>
      <4>1. entries = links
        BY <2>1, <2>2, <2>3, <2>4, <2>8, <3>2 DEF Entries
      <4> QED
        BY <2>7, <2>8, <4>1
    <3> QED
      BY <3>1, <3>2
  <2>9. CASE ~(read[1] = "remote" /\ content.rows <= Len(links))
    <3>1. entries = rows
      <4>1. read[1] = "file" \/ content.rows > Len(links)
        BY <2>1, <2>2, <2>9, StatusOfRead
      <4> QED
        BY <2>3, <2>4, <4>1 DEF Entries
    <3>2. ~LastStatus.ok
      BY <2>3, <2>7, <3>1 DEF Yields
    <3> QED
      BY <2>9, <3>2
  <2> QED
    BY <2>8, <2>9
<1>4. IInv => DocumentIsRead
  <2> SUFFICES ASSUME IInv, read # Nothing, Handled(read[2])
               PROVE  /\ LastStatus.ok =
                           (read[2].form = "document" /\ read[2].parses /\ Good(read[2].links) # <<>>)
                      /\ LastStatus.ok => /\ LastStatus.nodes = Len(Good(read[2].links))
                                          /\ LastStatus.unsupported = 0
    BY DEF DocumentIsRead
  <2> DEFINE content == read[2]
             nodes == DocumentNodes(content)
             result == ParseSourceContent(read[1], content)
  <2>1. result = IF nodes = <<>> THEN Failure ELSE Success(nodes, 0)
    BY DEF ParseSourceContent
  <2>2. LastStatus = [ok |-> result.ok, nodes |-> Len(result.nodes),
                      unsupported |-> result.unsupported]
    BY StatusOfRead
  <2>3. nodes = IF content.form = "document" /\ content.parses THEN Good(content.links) ELSE <<>>
    BY DEF DocumentNodes
  <2> HIDE DEF result, nodes
  <2>4. CASE nodes = <<>>
    <3>1. LastStatus.ok = FALSE
      BY <2>1, <2>2, <2>4 DEF Failure
    <3>2. ~(content.form = "document" /\ content.parses /\ Good(content.links) # <<>>)
      BY <2>3, <2>4
    <3> QED
      BY <3>1, <3>2
  <2>5. CASE nodes # <<>>
    <3>1. LastStatus.ok = TRUE /\ LastStatus.nodes = Len(nodes) /\ LastStatus.unsupported = 0
      BY <2>1, <2>2, <2>5 DEF Success
    <3>2. /\ content.form = "document" /\ content.parses /\ Good(content.links) # <<>>
          /\ nodes = Good(content.links)
      BY <2>3, <2>5
    <3> QED
      BY <3>1, <3>2
  <2> QED
    BY <2>4, <2>5
<1>5. IInv => ListsAreRead
  BY <1>1, <1>2, <1>3, <1>4 DEF ListsAreRead
<1> QED
  BY <1>5, Invariance, PTL

=============================================================================
