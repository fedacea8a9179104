---------------------------- MODULE OptionsBuilder ----------------------------
(***************************************************************************)
(* internal/core/singbox/options_builder.go and random_group.go: from a    *)
(* list of candidates to the outbounds of the core, the pool of the "lb-out" *)
(* group with its weights, and the picks the group makes for connections.  *)
(* Builds run one at a time (Service.mu), one node after the other.        *)
(*                                                                         *)
(* A node is abstracted to what the builder looks at.  Its id, made by     *)
(* buildNodeID, is a hash of the protocol, the address and the credentials *)
(* (so two nodes may share one and no id ends like a numbered tag or is a  *)
(* reserved one); a tag is an id with a number.                            *)
(***************************************************************************)
EXTENDS Integers, FiniteSets, FiniteSetsExt, Sequences, HealthScore

CONSTANTS
  Id,         \* node ids
  Lists,      \* the candidate lists the callers may hand over
  Configs     \* the configurations: policy.strategy and policy.hybrid_top_k

Secretive == {"hysteria2", "vless", "trojan", "vmess", "shadowsocks"}

Transported == {"vless", "trojan", "vmess"}

Protocol == Secretive \cup {"socks5", "socks4", "http"}

(* `addressed`: server and port are valid; `complete`: the credentials are *)
(* there and the options parse.                                            *)
Node ==
  [id : Id, protocol : Protocol, addressed : BOOLEAN, complete : BOOLEAN,
   transport : {"tcp", "ws", "other"}, score : 0..MaxScore]

ASSUME ListsAssumption == Lists \subseteq Seq(Node)
ASSUME ConfigsAssumption ==
  Configs \subseteq [strategy : {"random", "urltest", "hybrid"}, hybridTopK : Int]

TagType == Id \X Nat

VARIABLES
  cfg,          \* the configuration
  phase,        \* of the build, or of the core made from it
  nodes,        \* argument of Build
  next,         \* index of the node the loop is at
  seen,         \* tagSeen
  outbounds,    \* nodeOutbounds, each told by the node it was made from
  supported,    \* supportedNodes
  tags,         \* nodeTags
  unsupported,  \* how many nodes were left out
  stats,        \* lastBuildStats
  selected,     \* how many of the supported nodes are in the pool
  lastProxy     \* of the random group; None before the first pick

vars == <<cfg, phase, nodes, next, seen, outbounds, supported, tags, unsupported,
          stats, selected, lastProxy>>

None == <<>>

Phases == {"down", "adding", "selecting", "serving"}

NoStats == [supported |-> 0, unsupported |-> 0]

TypeOK ==
  /\ cfg \in Configs
  /\ phase \in Phases
  /\ nodes \in Seq(Node)
  /\ next \in Nat \ {0}
  /\ seen \in [Id -> Nat]
  /\ outbounds \in Seq(Node)
  /\ supported \in Seq(Node)
  /\ tags \in Seq(TagType)
  /\ unsupported \in Nat
  /\ stats \in [supported : Nat, unsupported : Nat]
  /\ selected \in 0..Len(tags)
  /\ lastProxy \in TagType \cup {None}

(* The local variables of Build, as it begins.                             *)
Reset ==
  /\ next' = 1
  /\ seen' = [i \in Id |-> 0]
  /\ outbounds' = <<>>
  /\ supported' = <<>>
  /\ tags' = <<>>
  /\ unsupported' = 0
  /\ selected' = 0
  /\ lastProxy' = None

Init ==
  /\ cfg \in Configs
  /\ phase = "down"
  /\ nodes = <<>>
  /\ next = 1
  /\ seen = [i \in Id |-> 0]
  /\ outbounds = <<>>
  /\ supported = <<>>
  /\ tags = <<>>
  /\ unsupported = 0
  /\ stats = NoStats
  /\ selected = 0
  /\ lastProxy = None

-----------------------------------------------------------------------------
(* Build.                                                                  *)

(* Errors of buildNodeOutbound that end the whole build ...                *)
Fatal(node) ==
  \/ ~node.addressed
  \/ node.protocol \in Secretive /\ ~node.complete

(* ... and the one that leaves the node out.                               *)
Unsupported(node) ==
  node.protocol \in Transported /\ node.transport = "other"

(* Start, or Rebuild after it has closed the old core.                     *)
BeginBuild ==
  /\ phase = "down"
  /\ \E list \in Lists :
       /\ phase' = "adding"
       /\ nodes' = list
  /\ stats' = NoStats
  /\ Reset
  /\ UNCHANGED cfg

(* The error goes up through Start or Rebuild and there is no core.        *)
Down ==
  /\ phase' = "down"
  /\ nodes' = <<>>
  /\ Reset

MutantTag(id) == <<id, IF seen[id] = 0 THEN 1 ELSE 2>>

(* ensureUniqueTag: number 1 stands for the bare id.                       *)
Tag(id) == <<id, seen[id] + 1>>

(* A node that turns out unsupported has used up its tag.                  *)
UseTag(id) == seen' = [seen EXCEPT ![id] = @ + 1]

RefuseList ==
  /\ phase = "adding"
  /\ nodes = <<>> \/ (next <= Len(nodes) /\ Fatal(nodes[next]))
  /\ Down
  /\ UNCHANGED <<cfg, stats>>

SkipNode ==
  /\ phase = "adding" /\ next <= Len(nodes)
  /\ ~Fatal(nodes[next])
  /\ Unsupported(nodes[next])
  /\ UseTag(nodes[next].id)
  /\ unsupported' = unsupported + 1
  /\ next' = next + 1
  /\ UNCHANGED <<cfg, phase, nodes, outbounds, supported, tags, stats, selected,
                 lastProxy>>

MutantAddNode ==
  /\ phase = "adding" /\ next <= Len(nodes)
  /\ ~Fatal(nodes[next])
  /\ ~Unsupported(nodes[next])
  /\ UseTag(nodes[next].id)
  /\ outbounds' = Append(outbounds, nodes[next])
  /\ supported' = SubSeq(nodes, 1, Len(supported) + 1)
  /\ tags' = Append(tags, Tag(nodes[next].id))
  /\ next' = next + 1
  /\ UNCHANGED <<cfg, phase, nodes, unsupported, stats, selected, lastProxy>>

AddNode ==
  /\ phase = "adding" /\ next <= Len(nodes)
  /\ ~Fatal(nodes[next])
  /\ ~Unsupported(nodes[next])
  /\ UseTag(nodes[next].id)
  /\ outbounds' = Append(outbounds, nodes[next])
  /\ supported' = Append(supported, nodes[next])
  /\ tags' = Append(tags, Tag(nodes[next].id))
  /\ next' = next + 1
  /\ UNCHANGED <<cfg, phase, nodes, unsupported, stats, selected, lastProxy>>

Added == phase = "adding" /\ nodes # <<>> /\ next > Len(nodes)

NoneSupported ==
  /\ Added
  /\ tags = <<>>
  /\ stats' = [supported |-> 0, unsupported |-> unsupported]
  /\ Down
  /\ UNCHANGED cfg

(* normalizeBuilderHybridTopK.                                             *)
TopK == IF cfg.hybridTopK <= 0 THEN 3 ELSE cfg.hybridTopK

MutantPoolStart == IF cfg.strategy = "hybrid" THEN TopK ELSE Len(tags)

(* The pool: all supported nodes or, for hybrid, the first K of them ...   *)
PoolStart == IF cfg.strategy = "hybrid" /\ TopK < Len(tags) THEN TopK ELSE Len(tags)

MutantSelectPool ==
  /\ Added
  /\ tags # <<>>
  /\ stats' = [supported |-> Len(nodes), unsupported |-> unsupported]
  /\ selected' = PoolStart
  /\ phase' = "selecting"
  /\ UNCHANGED <<cfg, nodes, next, seen, outbounds, supported, tags, unsupported,
                 lastProxy>>

SelectPool ==
  /\ Added
  /\ tags # <<>>
  /\ stats' = [supported |-> Len(tags), unsupported |-> unsupported]
  /\ selected' = PoolStart
  /\ phase' = "selecting"
  /\ UNCHANGED <<cfg, nodes, next, seen, outbounds, supported, tags, unsupported,
                 lastProxy>>

MutantTied ==
  /\ selected < Len(tags)
  /\ supported[selected + 1].score = supported[TopK + 1].score

(* ... and those that follow with the score of the last.                   *)
Tied ==
  /\ selected < Len(tags)
  /\ supported[selected + 1].score = supported[TopK].score

IncludeTied ==
  /\ phase = "selecting"
  /\ Tied
  /\ selected' = selected + 1
  /\ UNCHANGED <<cfg, phase, nodes, next, seen, outbounds, supported, tags,
                 unsupported, stats, lastProxy>>

FinishBuild ==
  /\ phase = "selecting"
  /\ ~Tied
  /\ phase' = "serving"
  /\ UNCHANGED <<cfg, nodes, next, seen, outbounds, supported, tags, unsupported,
                 stats, selected, lastProxy>>

-----------------------------------------------------------------------------
(* The group of the running core.                                          *)

(* Service.Close.                                                          *)
Close ==
  /\ phase = "serving"
  /\ Down
  /\ UNCHANGED <<cfg, stats>>

(* The outbound manager of sing-box: a later outbound replaces an earlier  *)
(* one with its tag.                                                       *)
LookupOutbound(tag) ==
  outbounds[CHOOSE i \in 1..Len(tags) :
              tags[i] = tag /\ \A j \in (i + 1)..Len(tags) : tags[j] # tag]

Network == {"tcp", "udp"}

(* What the outbounds of sing-box can carry.                               *)
Carries(node, network) == node.protocol = "http" => network = "tcp"

(* pickOutboundByNetwork: the members that can carry the connection.       *)
Usable(network) == {i \in 1..selected : Carries(LookupOutbound(tags[i]), network)}

Weight(i) == RandomWeight(supported[i].score)

(* nextIndex: the cursor once it has passed a position of the pool.        *)
Cursor(usable) ==
  LET cursor[i \in 0..selected] ==
        IF i = 0 THEN 0 ELSE cursor[i - 1] + (IF i \in usable THEN Weight(i) ELSE 0)
  IN  cursor

(* The range of the random number.                                         *)
Targets(usable) ==
  IF Cardinality(usable) = 1 THEN {0} ELSE 0..(Cursor(usable)[selected] - 1)

MutantNextIndex(usable, target) ==
  IF Cardinality(usable) = 1 THEN Max(usable)
  ELSE Min({i \in usable : target <= Cursor(usable)[i]})

NextIndex(usable, target) ==
  IF Cardinality(usable) = 1 THEN Max(usable)
  ELSE Min({i \in usable : target < Cursor(usable)[i]})

(* DialContext or ListenPacket; without a usable member they fail.         *)
Pick ==
  /\ phase = "serving" /\ cfg.strategy # "urltest"
  /\ \E network \in Network : \E i \in Usable(network) :
       /\ \E target \in Targets(Usable(network)) : NextIndex(Usable(network), target) = i
       /\ lastProxy' = tags[i]
  /\ UNCHANGED <<cfg, phase, nodes, next, seen, outbounds, supported, tags,
                 unsupported, stats, selected>>

Next ==
  \/ BeginBuild
  \/ RefuseList
  \/ SkipNode
  \/ AddNode
  \/ NoneSupported
  \/ SelectPool
  \/ IncludeTied
  \/ FinishBuild
  \/ Close
  \/ Pick

Spec == Init /\ [][Next]_vars

-----------------------------------------------------------------------------

(* No two outbounds of a core get one tag: the manager would drop one of   *)
(* them, and connections meant for it would go elsewhere.                  *)
TagsDistinct ==
  \A i, j \in 1..Len(tags) : i # j => tags[i] # tags[j]

(* One list is the supported nodes among the first n of another, in order. *)
KeepsSupported(kept, list, n) ==
  \E place \in [1..Len(kept) -> 1..n] :
    /\ \A i, j \in 1..Len(kept) : i < j => place[i] < place[j]
    /\ \A i \in 1..Len(kept) : kept[i] = list[place[i]]
    /\ {place[i] : i \in 1..Len(kept)} = {k \in 1..n : ~Unsupported(list[k])}

(* A core is made of exactly the supported nodes of the list, in its order, *)
(* nothing that would have to fail the build is in the list, and the       *)
(* statistics account for every node.                                      *)
CoreMatchesList ==
  phase = "serving" =>
    /\ \A i \in 1..Len(nodes) : ~Fatal(nodes[i])
    /\ KeepsSupported(outbounds, nodes, Len(nodes))
    /\ stats.supported = Len(outbounds)
    /\ stats.supported + stats.unsupported = Len(nodes)

(* The weight at a position of the pool is that of the node which the tag  *)
(* at that position leads to, whatever nodes were left out on the way.     *)
WeightsFollowScores ==
  phase = "serving" =>
    \A i \in 1..selected : Weight(i) = RandomWeight(LookupOutbound(tags[i]).score)

(* The random pick is exactly proportional: of the numbers the generator   *)
(* may draw, as many lead to a member as its weight says, and none is left *)
(* over, also when members that cannot carry the connection are passed by. *)
PickIsProportional ==
  phase = "serving" =>
    \A network \in Network :
      LET usable == Usable(network) IN
      Cardinality(usable) > 1 =>
        \A i \in usable :
          Cardinality({t \in Targets(usable) : NextIndex(usable, t) = i}) = Weight(i)

(* README.md:37: the pool of the hybrid strategy is the K best supported   *)
(* candidates and all that tie with the K-th: those than which fewer than  *)
(* K others are better.                                                    *)
Best ==
  {i \in 1..Len(tags) :
     Cardinality({j \in 1..Len(tags) : supported[j].score > supported[i].score}) < TopK}

Ranked == \A i, j \in 1..Len(nodes) : i <= j => nodes[i].score >= nodes[j].score

(* So it is for the lists of the checker, which are sorted by score.       *)
RankedPoolIsBest ==
  phase = "serving" /\ cfg.strategy = "hybrid" /\ Ranked => 1..selected = Best
=============================================================================
