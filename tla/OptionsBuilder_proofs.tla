------------------------ MODULE OptionsBuilder_proofs ------------------------
(***************************************************************************)
(* Proofs about OptionsBuilder, for any ids, lists of any length and any   *)
(* configurations.                                                         *)
(***************************************************************************)
EXTENDS OptionsBuilder, FiniteSetTheorems, WellFoundedInduction, TLAPS

(* The three results of the loop stay side by side.                        *)
Aligned == outbounds = supported /\ Len(supported) = Len(tags)

(* The numbers given out for an id so far.                                 *)
TagsBelow == \A i \in 1..Len(tags) : tags[i][2] <= seen[tags[i][1]]

(* What was taken from a sorted list is sorted, and above what is left.    *)
OrderKept ==
  Ranked =>
    /\ \A i, j \in 1..Len(supported) : i <= j => supported[i].score >= supported[j].score
    /\ \A i \in 1..Len(supported) : \A k \in next..Len(nodes) :
         supported[i].score >= nodes[k].score

(* The pool grows from its start only over ties with the K-th.             *)
PoolGrows ==
  phase \in {"selecting", "serving"} =>
    /\ PoolStart <= selected
    /\ PoolStart = TopK =>
         \A j \in TopK..selected : supported[j].score = supported[TopK].score

PoolClosed == phase = "serving" => ~Tied

IInv ==
  /\ TypeOK
  /\ Aligned
  /\ TagsBelow
  /\ TagsDistinct
  /\ OrderKept
  /\ PoolGrows
  /\ PoolClosed

LEMMA TopKPositive == TypeOK => TopK \in Nat \ {0}
BY ConfigsAssumption DEF TypeOK, TopK

LEMMA ResetIInv == Reset /\ cfg' \in Configs /\ phase' \in {"down", "adding"}
                   /\ nodes' \in Seq(Node) /\ stats' \in [supported : Nat, unsupported : Nat]
                   => IInv'
<1> SUFFICES ASSUME Reset, cfg' \in Configs, phase' \in {"down", "adding"},
                    nodes' \in Seq(Node), stats' \in [supported : Nat, unsupported : Nat]
             PROVE  IInv'
  OBVIOUS
<1>1. tags' = <<>> /\ supported' = <<>> /\ outbounds' = <<>> /\ Len(<<>>) = 0
  BY DEF Reset
<1>2. TypeOK'
  BY <1>1 DEF Reset, TypeOK, Phases, None
<1>3. Aligned' /\ TagsBelow' /\ TagsDistinct' /\ OrderKept'
  BY <1>1 DEF Aligned, TagsBelow, TagsDistinct, OrderKept
<1>4. PoolGrows' /\ PoolClosed'
  BY DEF PoolGrows, PoolClosed
<1> QED
  BY <1>2, <1>3, <1>4 DEF IInv

LEMMA InitIInv == Init => IInv
<1> SUFFICES ASSUME Init PROVE IInv
  OBVIOUS
<1>1. TypeOK
  BY DEF Init, TypeOK, Phases, None, NoStats
<1>2. Aligned /\ TagsBelow /\ TagsDistinct /\ OrderKept /\ PoolGrows /\ PoolClosed
  BY DEF Init, Aligned, TagsBelow, TagsDistinct, OrderKept, PoolGrows, PoolClosed
<1> QED
  BY <1>1, <1>2 DEF IInv

LEMMA NodeFields ==
  ASSUME NEW n \in Node
  PROVE  n.id \in Id /\ n.score \in Nat
<1>1. n.id \in Id /\ n.score \in 0..MaxScore
  BY DEF Node
<1>2. 0..MaxScore \subseteq Nat
  BY DEF MaxScore
<1> QED
  BY <1>1, <1>2

(* A tag is used up without an outbound.                                   *)
LEMMA SkipNodeIInv == IInv /\ SkipNode => IInv'
<1> SUFFICES ASSUME IInv, SkipNode PROVE IInv'
  OBVIOUS
<1>1. /\ nodes \in Seq(Node) /\ next \in 1..Len(nodes) /\ seen \in [Id -> Nat]
      /\ nodes[next] \in Node
  BY DEF IInv, TypeOK, SkipNode
<1>2. nodes[next].id \in Id
  BY <1>1, NodeFields
<1>3. /\ seen' \in [Id -> Nat]
      /\ \A i \in Id : seen[i] <= seen'[i]
  BY <1>1, <1>2 DEF SkipNode, UseTag
<1>4. TypeOK'
  BY <1>1, <1>3 DEF IInv, TypeOK, SkipNode
<1>5. Aligned' /\ TagsDistinct'
  BY DEF IInv, Aligned, TagsDistinct, SkipNode
<1>6. TagsBelow'
  <2>1. \A i \in 1..Len(tags) : tags[i] \in TagType
    BY DEF IInv, TypeOK
  <2> QED
    BY <1>1, <1>3, <2>1 DEF IInv, TagsBelow, SkipNode, TagType
<1>7. OrderKept'
  <2>1. \A k \in next'..Len(nodes) : k \in next..Len(nodes)
    BY <1>1 DEF SkipNode
  <2> QED
    BY <2>1 DEF IInv, OrderKept, Ranked, SkipNode
<1>8. PoolGrows' /\ PoolClosed'
  BY DEF PoolGrows, PoolClosed, SkipNode
<1> QED
  BY <1>4, <1>5, <1>6, <1>7, <1>8 DEF IInv

(* The next node takes a tag that was not given out yet, and is not better *)
(* than those taken before it if the list is sorted.                       *)
LEMMA AddNodeIInv == IInv /\ AddNode => IInv'
<1> SUFFICES ASSUME IInv, AddNode PROVE IInv'
  OBVIOUS
<1> DEFINE node == nodes[next]
<1>1. /\ nodes \in Seq(Node) /\ next \in 1..Len(nodes) /\ seen \in [Id -> Nat]
      /\ node \in Node
      /\ supported \in Seq(Node) /\ outbounds = supported
      /\ tags \in Seq(TagType) /\ Len(supported) = Len(tags)
      /\ nodes' = nodes /\ next' = next + 1
  BY DEF IInv, TypeOK, Aligned, AddNode
<1>2. node.id \in Id /\ node.score \in Nat
  BY <1>1, NodeFields
<1>3. /\ tags' = Append(tags, Tag(node.id))
      /\ supported' = Append(supported, node)
      /\ outbounds' = Append(outbounds, node)
      /\ seen' = [seen EXCEPT ![node.id] = @ + 1]
  BY DEF AddNode, UseTag
<1> HIDE DEF node
<1>4. /\ Tag(node.id) \in TagType /\ Tag(node.id)[1] = node.id
      /\ Tag(node.id)[2] = seen[node.id] + 1
  BY <1>1, <1>2 DEF Tag, TagType
<1>5. /\ tags' \in Seq(TagType) /\ Len(tags') = Len(tags) + 1
      /\ \A i \in 1..Len(tags) : tags'[i] = tags[i]
      /\ tags'[Len(tags) + 1] = Tag(node.id)
  BY <1>1, <1>3, <1>4
<1>6. /\ supported' \in Seq(Node) /\ Len(supported') = Len(supported) + 1
      /\ \A i \in 1..Len(supported) : supported'[i] = supported[i]
      /\ supported'[Len(supported) + 1] = node
      /\ outbounds' = supported'
  BY <1>1, <1>3
<1>7. /\ seen' \in [Id -> Nat]
      /\ \A i \in Id : seen[i] <= seen'[i]
      /\ seen'[node.id] = seen[node.id] + 1
  BY <1>1, <1>2, <1>3
<1>8. TypeOK'
  BY <1>1, <1>5, <1>6, <1>7 DEF IInv, TypeOK, AddNode
<1>9. Aligned'
  BY <1>1, <1>5, <1>6 DEF Aligned
<1>10. \A i \in 1..Len(tags) : tags[i] \in Id \X Nat /\ tags[i][2] <= seen[tags[i][1]]
  <2>1. \A i \in 1..Len(tags) : tags[i] \in Id \X Nat
    BY <1>1 DEF TagType
  <2>2. \A i \in 1..Len(tags) : tags[i][2] <= seen[tags[i][1]]
    BY DEF IInv, TagsBelow
  <2> QED
    BY <2>1, <2>2
<1>11. \A i \in 1..Len(tags) : tags[i] # Tag(node.id)
  <2>1. ASSUME NEW i \in 1..Len(tags), tags[i] = Tag(node.id) PROVE FALSE
    <3>1. tags[i][1] = node.id /\ tags[i][2] = seen[node.id] + 1
      BY <2>1, <1>4
    <3>2. tags[i][2] <= seen[node.id]
      BY <3>1, <1>10
    <3>3. seen[node.id] \in Nat
      BY <1>1, <1>2
    <3> QED
      BY <3>1, <3>2, <3>3
  <2> QED
    BY <2>1
<1>12. TagsDistinct'
  <2>1. \A i, j \in 1..Len(tags) : i # j => tags[i] # tags[j]
    BY DEF IInv, TagsDistinct
  <2>2. 1..Len(tags') = 1..Len(tags) \cup {Len(tags) + 1}
    BY <1>1, <1>5
  <2> QED
    BY <2>1, <2>2, <1>5, <1>11 DEF TagsDistinct
<1>13. TagsBelow'
  <2>1. ASSUME NEW i \in 1..Len(tags) PROVE tags'[i][2] <= seen'[tags'[i][1]]
    <3>1. tags[i][1] \in Id /\ tags[i][2] \in Nat /\ tags[i][2] <= seen[tags[i][1]]
      BY <1>10
    <3>2. tags'[i] = tags[i]
      BY <1>5
    <3>3. seen[tags[i][1]] \in Nat /\ seen'[tags[i][1]] \in Nat
          /\ seen[tags[i][1]] <= seen'[tags[i][1]]
      BY <1>1, <1>7, <3>1
    <3> QED
      BY <3>1, <3>2, <3>3
  <2>2. tags'[Len(tags) + 1][2] <= seen'[tags'[Len(tags) + 1][1]]
    BY <1>1, <1>2, <1>4, <1>5, <1>7
  <2>3. 1..Len(tags') = 1..Len(tags) \cup {Len(tags) + 1}
    BY <1>1, <1>5
  <2> QED
    BY <2>1, <2>2, <2>3 DEF TagsBelow
<1>14. OrderKept'
  <2> SUFFICES ASSUME Ranked PROVE
        /\ \A i, j \in 1..Len(supported') :
             i <= j => supported'[i].score >= supported'[j].score
        /\ \A i \in 1..Len(supported') : \A k \in next'..Len(nodes) :
             supported'[i].score >= nodes[k].score
    BY <1>1 DEF OrderKept, Ranked
  <2>1. \A i, j \in 1..Len(supported) : i <= j => supported[i].score >= supported[j].score
    BY DEF IInv, OrderKept
  <2>2. \A i \in 1..Len(supported) : \A k \in next..Len(nodes) :
          supported[i].score >= nodes[k].score
    BY DEF IInv, OrderKept
  <2>3. \A k \in next..Len(nodes) : node.score >= nodes[k].score
    BY <1>1 DEF Ranked, node
  <2>4. \A i \in 1..Len(supported) : supported[i].score >= node.score
    BY <1>1, <2>2 DEF node
  <2>5. 1..Len(supported') = 1..Len(supported) \cup {Len(supported) + 1}
    BY <1>1, <1>6
  <2>6. \A k \in next'..Len(nodes) : k \in next..Len(nodes)
    BY <1>1
  <2>7. ASSUME NEW i \in 1..Len(supported'), NEW j \in 1..Len(supported'), i <= j
        PROVE  supported'[i].score >= supported'[j].score
    <3>1. CASE i \in 1..Len(supported) /\ j \in 1..Len(supported)
      BY <3>1, <2>1, <2>7, <1>6
    <3>2. CASE i \in 1..Len(supported) /\ j = Len(supported) + 1
      BY <3>2, <2>4, <1>6
    <3>3. CASE i = Len(supported) + 1 /\ j = Len(supported) + 1
      BY <3>3, <1>2, <1>6
    <3>4. /\ i \in 1..Len(supported) \cup {Len(supported) + 1}
          /\ j \in 1..Len(supported) \cup {Len(supported) + 1}
      BY <2>5
    <3>5. Len(supported) \in Nat
      BY <1>1
    <3>6. ~(i = Len(supported) + 1 /\ j \in 1..Len(supported))
      BY <3>5, <2>7
    <3> QED
      BY <3>1, <3>2, <3>3, <3>4, <3>6
  <2>8. ASSUME NEW i \in 1..Len(supported'), NEW k \in next'..Len(nodes)
        PROVE  supported'[i].score >= nodes[k].score
    <3>1. CASE i \in 1..Len(supported)
      BY <3>1, <2>2, <2>6, <1>6
    <3>2. CASE i = Len(supported) + 1
      BY <3>2, <2>3, <2>6, <1>6
    <3> QED
      BY <3>1, <3>2, <2>5
  <2> QED
    BY <2>7, <2>8
<1>15. PoolGrows' /\ PoolClosed'
  BY DEF PoolGrows, PoolClosed, AddNode
<1> QED
  BY <1>8, <1>9, <1>12, <1>13, <1>14, <1>15 DEF IInv

LEMMA SelectPoolIInv == IInv /\ SelectPool => IInv'
<1> SUFFICES ASSUME IInv, SelectPool PROVE IInv'
  OBVIOUS
<1>1. TopK \in Nat \ {0} /\ TopK' = TopK /\ PoolStart' = PoolStart
  BY TopKPositive DEF IInv, SelectPool, TopK, PoolStart
<1>2. Len(tags) \in Nat /\ PoolStart \in 0..Len(tags)
  BY <1>1 DEF IInv, TypeOK, PoolStart
<1>3. TypeOK'
  BY <1>2 DEF IInv, TypeOK, SelectPool, Phases
<1>4. Aligned' /\ TagsBelow' /\ TagsDistinct' /\ OrderKept' /\ PoolClosed'
  BY DEF IInv, Aligned, TagsBelow, TagsDistinct, OrderKept, Ranked, PoolClosed, SelectPool
<1>5. PoolGrows'
  BY <1>1, <1>2 DEF PoolGrows, SelectPool
<1> QED
  BY <1>3, <1>4, <1>5 DEF IInv

LEMMA IncludeTiedIInv == IInv /\ IncludeTied => IInv'
<1> SUFFICES ASSUME IInv, IncludeTied PROVE IInv'
  OBVIOUS
<1>1. TopK \in Nat \ {0} /\ TopK' = TopK /\ PoolStart' = PoolStart
  BY TopKPositive DEF IInv, IncludeTied, TopK, PoolStart
<1>2. /\ selected \in Nat /\ selected' = selected + 1 /\ selected < Len(tags)
      /\ Len(tags) \in Nat /\ tags' = tags /\ supported' = supported
      /\ supported[selected + 1].score = supported[TopK].score
  BY DEF IInv, TypeOK, IncludeTied, Tied
<1>3. TypeOK'
  BY <1>2 DEF IInv, TypeOK, IncludeTied
<1>4. Aligned' /\ TagsBelow' /\ TagsDistinct' /\ OrderKept' /\ PoolClosed'
  BY DEF IInv, Aligned, TagsBelow, TagsDistinct, OrderKept, Ranked, PoolClosed, IncludeTied
<1>5. PoolGrows'
  <2>1. PoolStart <= selected
        /\ (PoolStart = TopK =>
              \A j \in TopK..selected : supported[j].score = supported[TopK].score)
    BY DEF IInv, PoolGrows, IncludeTied
  <2>2. PoolStart \in Nat
    BY <1>1, <1>2 DEF PoolStart
  <2>3. PoolStart' <= selected'
    BY <1>1, <1>2, <2>1, <2>2
  <2>4. ASSUME PoolStart = TopK, NEW j \in TopK..selected'
        PROVE  supported[j].score = supported[TopK].score
    <3>1. j \in TopK..selected \/ j = selected + 1
      BY <1>1, <1>2
    <3> QED
      BY <3>1, <2>1, <2>4, <1>2
  <2> QED
    BY <1>1, <1>2, <2>3, <2>4 DEF PoolGrows
<1> QED
  BY <1>3, <1>4, <1>5 DEF IInv

LEMMA StepIInv == IInv /\ [Next]_vars => IInv'
<1> SUFFICES ASSUME IInv, [Next]_vars PROVE IInv'
  OBVIOUS
<1>t. TypeOK
  BY DEF IInv
<1>1. CASE BeginBuild
  <2>1. NoStats \in [supported : Nat, unsupported : Nat]
    BY DEF NoStats
  <2> QED
    BY <1>1, <1>t, <2>1, ResetIInv, ListsAssumption DEF BeginBuild, TypeOK
<1>2. CASE RefuseList
  BY <1>2, <1>t, ResetIInv DEF RefuseList, Down, TypeOK
<1>3. CASE NoneSupported
  BY <1>3, <1>t, ResetIInv DEF NoneSupported, Down, TypeOK
<1>4. CASE Close
  BY <1>4, <1>t, ResetIInv DEF Close, Down, TypeOK
<1>5. CASE FinishBuild
  <2>1. TypeOK'
    BY <1>5, <1>t DEF FinishBuild, TypeOK, Phases
  <2>2. TopK' = TopK /\ PoolStart' = PoolStart
    BY <1>5 DEF FinishBuild, TopK, PoolStart
  <2>3. Aligned' /\ TagsBelow' /\ TagsDistinct' /\ OrderKept'
    BY <1>5 DEF IInv, Aligned, TagsBelow, TagsDistinct, OrderKept, Ranked, FinishBuild
  <2>4. PoolGrows' /\ PoolClosed'
    BY <1>5, <2>2 DEF IInv, PoolGrows, PoolClosed, Tied, FinishBuild
  <2> QED
    BY <2>1, <2>3, <2>4 DEF IInv
<1>6. CASE Pick
  <2>1. lastProxy' \in TagType \cup {None}
    <3>1. PICK network \in Network : \E i \in Usable(network) : lastProxy' = tags[i]
      BY <1>6 DEF Pick
    <3>2. PICK i \in Usable(network) : lastProxy' = tags[i]
      BY <3>1
    <3>3. i \in 1..Len(tags)
      BY <1>t DEF Usable, TypeOK
    <3> QED
      BY <1>t, <3>2, <3>3 DEF TypeOK
  <2>2. TypeOK'
    BY <1>6, <1>t, <2>1 DEF Pick, TypeOK
  <2>3. TopK' = TopK /\ PoolStart' = PoolStart
    BY <1>6 DEF Pick, TopK, PoolStart
  <2>4. Aligned' /\ TagsBelow' /\ TagsDistinct' /\ OrderKept'
    BY <1>6 DEF IInv, Aligned, TagsBelow, TagsDistinct, OrderKept, Ranked, Pick
  <2>5. PoolGrows' /\ PoolClosed'
    BY <1>6, <2>3 DEF IInv, PoolGrows, PoolClosed, Tied, TopK, Pick
  <2> QED
    BY <2>2, <2>4, <2>5 DEF IInv
<1>7. CASE UNCHANGED vars
  <2>1. TypeOK'
    BY <1>7, <1>t DEF vars, TypeOK
  <2>2. TopK' = TopK /\ PoolStart' = PoolStart
    BY <1>7 DEF vars, TopK, PoolStart
  <2>3. Aligned' /\ TagsBelow' /\ TagsDistinct' /\ OrderKept'
    BY <1>7 DEF IInv, Aligned, TagsBelow, TagsDistinct, OrderKept, Ranked, vars
  <2>4. PoolGrows' /\ PoolClosed'
    BY <1>7, <2>2 DEF IInv, PoolGrows, PoolClosed, Tied, TopK, vars
  <2> QED
    BY <2>1, <2>3, <2>4 DEF IInv
<1> QED
  BY <1>1, <1>2, <1>3, <1>4, <1>5, <1>6, <1>7, SkipNodeIInv, AddNodeIInv,
     SelectPoolIInv, IncludeTiedIInv DEF Next

LEMMA Always == Spec => []IInv
<1>1. Init => IInv
  BY InitIInv
<1>2. IInv /\ [Next]_vars => IInv'
  BY StepIInv
<1> QED
  BY <1>1, <1>2, PTL DEF Spec

(* The builder's variables keep their types.                               *)
THEOREM TypeCorrect == Spec => []TypeOK
<1>1. IInv => TypeOK
  BY DEF IInv
<1> QED
  BY <1>1, Always, PTL

(* ensureUniqueTag: whatever ids repeat in the list, each outbound of the  *)
(* core has a tag of its own.                                              *)
THEOREM UniqueTags == Spec => []TagsDistinct
<1>1. IInv => TagsDistinct
  BY DEF IInv
<1> QED
  BY <1>1, Always, PTL

(* randomWeightMap: the weight at a position belongs to the outbound that  *)
(* the tag there leads to.                                                 *)
THEOREM WeightsCorrect == Spec => []WeightsFollowScores
<1>1. ASSUME IInv PROVE WeightsFollowScores
  <2>1. /\ outbounds = supported
        /\ Len(tags) \in Nat /\ selected \in 0..Len(tags)
        /\ \A i, j \in 1..Len(tags) : i # j => tags[i] # tags[j]
    BY <1>1 DEF IInv, TypeOK, Aligned, TagsDistinct
  <2>2. ASSUME NEW i \in 1..selected PROVE LookupOutbound(tags[i]) = supported[i]
    <3> DEFINE last == CHOOSE k \in 1..Len(tags) :
                         tags[k] = tags[i] /\ \A j \in (k + 1)..Len(tags) : tags[j] # tags[i]
    <3>1. i \in 1..Len(tags)
      BY <2>1
    <3>2. \A j \in (i + 1)..Len(tags) : j \in 1..Len(tags) /\ j # i
      BY <2>1
    <3>3. \A j \in (i + 1)..Len(tags) : tags[j] # tags[i]
      BY <2>1, <3>1, <3>2
    <3>4. last \in 1..Len(tags) /\ tags[last] = tags[i]
      BY <3>1, <3>3
    <3>5. last = i
      BY <2>1, <3>1, <3>4
    <3>6. LookupOutbound(tags[i]) = outbounds[last]
      BY DEF LookupOutbound
    <3> QED
      BY <2>1, <3>5, <3>6
  <2>3. ASSUME NEW i \in 1..selected
        PROVE  Weight(i) = RandomWeight(LookupOutbound(tags[i]).score)
    BY <2>2 DEF Weight
  <2> QED
    BY <2>3 DEF WeightsFollowScores
<1> QED
  BY <1>1, Always, PTL

(* Tests of a size by inclusion.                                           *)
LEMMA FewIfInside ==
  ASSUME NEW S, NEW k \in Nat, S \subseteq 1..k
  PROVE  IsFiniteSet(S) /\ Cardinality(S) <= k
<1>1. IsFiniteSet(1..k) /\ Cardinality(1..k) = k
  BY FS_Interval
<1> QED
  BY <1>1, FS_Subset

LEMMA ManyIfAround ==
  ASSUME NEW S, IsFiniteSet(S), NEW k \in Nat, 1..k \subseteq S
  PROVE  Cardinality(S) >= k
<1>1. Cardinality(1..k) = k
  BY FS_Interval
<1>2. Cardinality(S) \in Nat /\ Cardinality(1..k) <= Cardinality(S)
  BY FS_Subset, FS_CardinalityType
<1> QED
  BY <1>1, <1>2

(* The hybrid pool of a sorted list: the K best and their ties, no other,  *)
(* whatever nodes of the list were left out as unsupported.                *)
THEOREM RankedPool == Spec => []RankedPoolIsBest
<1>1. ASSUME IInv, phase = "serving", cfg.strategy = "hybrid", Ranked
      PROVE  1..selected = Best
  <2> DEFINE score(i) == supported[i].score
             better(i) == {j \in 1..Len(tags) : score(j) > score(i)}
  <2>1. TopK \in Nat /\ TopK > 0
    BY <1>1, TopKPositive DEF IInv
  <2>2. /\ Len(tags) \in Nat /\ selected \in Nat /\ selected <= Len(tags)
        /\ supported \in Seq(Node) /\ Len(supported) = Len(tags)
    BY <1>1 DEF IInv, TypeOK, Aligned
  <2>3. \A i \in 1..Len(tags) : score(i) \in Nat
    BY <2>2, NodeFields
  <2>4. \A i, j \in 1..Len(tags) : i <= j => score(i) >= score(j)
    BY <1>1, <2>2 DEF IInv, OrderKept
  <2>5. CASE TopK >= Len(tags)
    <3>1. selected = Len(tags)
      BY <1>1, <2>1, <2>2, <2>5 DEF IInv, PoolGrows, PoolStart
    <3>2. ASSUME NEW i \in 1..Len(tags) PROVE Cardinality(better(i)) < TopK
      <4>1. better(i) \subseteq 1..(i - 1)
        BY <2>2, <2>3, <2>4
      <4>2. Cardinality(better(i)) <= i - 1 /\ IsFiniteSet(better(i))
        BY <4>1, <2>2, FewIfInside
      <4>3. Cardinality(better(i)) \in Nat
        BY <4>2, FS_CardinalityType
      <4> QED
        BY <4>2, <4>3, <2>1, <2>2, <2>5
    <3> QED
      BY <3>1, <3>2 DEF Best
  <2>6. CASE TopK < Len(tags)
    <3>1. TopK <= selected /\ \A j \in TopK..selected : score(j) = score(TopK)
      BY <1>1, <2>6 DEF IInv, PoolGrows, PoolStart
    <3>2. selected < Len(tags) => score(selected + 1) # score(TopK)
      BY <1>1 DEF IInv, PoolClosed, Tied
    <3>3. \A j \in 1..TopK : j \in 1..Len(tags)
      BY <2>1, <2>2, <2>6
    <3>4. ASSUME NEW i \in 1..selected PROVE Cardinality(better(i)) < TopK
      <4>1. better(i) \subseteq 1..(TopK - 1)
        <5>1. ASSUME NEW j \in better(i) PROVE j \in 1..(TopK - 1)
          <6>1. j \in 1..Len(tags) /\ score(j) > score(i) /\ i \in 1..Len(tags)
            BY <2>2
          <6>2. CASE j < TopK
            BY <6>1, <6>2, <2>1
          <6>3. CASE j >= TopK
            <7>1. score(j) <= score(TopK)
              BY <6>1, <6>3, <2>1, <2>4, <3>3
            <7>2. score(i) >= score(TopK)
              <8>1. CASE i <= TopK
                BY <8>1, <6>1, <2>1, <2>4, <3>3
              <8>2. CASE i > TopK
                <9>1. i \in TopK..selected
                  BY <8>2, <2>1, <2>2
                <9>2. score(i) = score(TopK)
                  BY <9>1, <3>1
                <9> QED
                  BY <9>2, <2>3, <6>1
              <8> QED
                BY <8>1, <8>2, <2>1, <2>2
            <7>3. score(i) \in Nat /\ score(j) \in Nat /\ score(TopK) \in Nat
              BY <6>1, <2>1, <2>3, <3>3
            <7> QED
              BY <6>1, <7>1, <7>2, <7>3
          <6> QED
            BY <6>1, <6>2, <6>3, <2>1
        <5> QED
          BY <5>1
      <4>2. IsFiniteSet(better(i)) /\ Cardinality(better(i)) <= TopK - 1
        BY <4>1, <2>1, FewIfInside
      <4>3. Cardinality(better(i)) \in Nat
        BY <4>2, FS_CardinalityType
      <4> QED
        BY <4>2, <4>3, <2>1
    <3>5. ASSUME NEW i \in 1..Len(tags), i > selected
          PROVE  Cardinality(better(i)) >= TopK
      <4>1. selected + 1 \in 1..Len(tags) /\ selected + 1 <= i /\ TopK <= selected + 1
        BY <2>1, <2>2, <3>1, <3>5
      <4>2. score(selected + 1) < score(TopK)
        <5>1. score(selected + 1) <= score(TopK)
          BY <4>1, <2>1, <2>4, <3>3
        <5>2. score(selected + 1) # score(TopK)
          BY <4>1, <2>2, <3>2
        <5>3. score(selected + 1) \in Nat /\ score(TopK) \in Nat
          BY <4>1, <2>1, <2>3, <3>3
        <5> QED
          BY <5>1, <5>2, <5>3
      <4>3. score(i) <= score(selected + 1)
        BY <4>1, <2>4
      <4>4. ASSUME NEW j \in 1..TopK PROVE j \in better(i)
        <5>1. score(j) >= score(TopK)
          BY <2>1, <2>4, <3>3
        <5>2. /\ score(j) \in Nat /\ score(TopK) \in Nat /\ score(i) \in Nat
              /\ score(selected + 1) \in Nat
          BY <4>1, <2>1, <2>3, <3>3
        <5>3. score(j) > score(i)
          BY <5>1, <5>2, <4>2, <4>3
        <5> QED
          BY <5>3, <3>3
      <4>5. IsFiniteSet(better(i))
        BY <2>2, FewIfInside
      <4> QED
        BY <4>4, <4>5, <2>1, ManyIfAround
    <3>6. \A i \in 1..Len(tags) : i \in 1..selected <=> Cardinality(better(i)) < TopK
      <4>1. ASSUME NEW i \in 1..Len(tags), i > selected
            PROVE  ~(Cardinality(better(i)) < TopK)
        <5>1. Cardinality(better(i)) \in Nat
          BY <2>2, FewIfInside, FS_CardinalityType
        <5> QED
          BY <4>1, <5>1, <2>1, <3>5
      <4> QED
        BY <2>2, <3>4, <4>1
    <3>7. Best = {i \in 1..Len(tags) : Cardinality(better(i)) < TopK}
      BY DEF Best
    <3>8. 1..selected \subseteq 1..Len(tags)
      BY <2>2
    <3> HIDE DEF better
    <3> QED
      BY <3>6, <3>7, <3>8
  <2> QED
    BY <2>1, <2>2, <2>5, <2>6
<1>2. IInv => RankedPoolIsBest
  BY <1>1 DEF RankedPoolIsBest
<1> QED
  BY <1>2, Always, PTL

-----------------------------------------------------------------------------
(* The nodes of a core.                                                    *)

(* What the loop has made of the nodes before the one it is at, and what   *)
(* the statistics say once it is through.                                  *)
ListInv ==
  /\ phase # "down" =>
       /\ next \in 1..(Len(nodes) + 1)
       /\ \A i \in 1..(next - 1) : ~Fatal(nodes[i])
       /\ KeepsSupported(outbounds, nodes, next - 1)
       /\ Len(outbounds) + unsupported = next - 1
  /\ phase \in {"selecting", "serving"} =>
       /\ next = Len(nodes) + 1
       /\ stats = [supported |-> Len(outbounds), unsupported |-> unsupported]

(* An unsupported node leaves the list as it is ...                        *)
LEMMA SkipKeeps ==
  ASSUME NEW kept \in Seq(Node), NEW list \in Seq(Node), NEW n \in Nat,
         KeepsSupported(kept, list, n), Unsupported(list[n + 1])
  PROVE  KeepsSupported(kept, list, n + 1)
<1>1. PICK place \in [1..Len(kept) -> 1..n] :
        /\ \A i, j \in 1..Len(kept) : i < j => place[i] < place[j]
        /\ \A i \in 1..Len(kept) : kept[i] = list[place[i]]
        /\ {place[i] : i \in 1..Len(kept)} = {k \in 1..n : ~Unsupported(list[k])}
  BY DEF KeepsSupported
<1>2. place \in [1..Len(kept) -> 1..(n + 1)]
  OBVIOUS
<1>3. {k \in 1..(n + 1) : ~Unsupported(list[k])} = {k \in 1..n : ~Unsupported(list[k])}
  <2>1. ASSUME NEW k PROVE k \in 1..(n + 1) /\ ~Unsupported(list[k])
                             <=> k \in 1..n /\ ~Unsupported(list[k])
    <3>1. k \in 1..(n + 1) <=> k \in 1..n \/ k = n + 1
      OBVIOUS
    <3> QED
      BY <3>1
  <2> QED
    BY <2>1
<1> QED
  BY <1>1, <1>2, <1>3 DEF KeepsSupported

(* ... and a supported one is its new end.                                 *)
LEMMA AppendKeeps ==
  ASSUME NEW kept \in Seq(Node), NEW list \in Seq(Node), NEW n \in Nat, n < Len(list),
         KeepsSupported(kept, list, n), ~Unsupported(list[n + 1])
  PROVE  KeepsSupported(Append(kept, list[n + 1]), list, n + 1)
<1> DEFINE longer == Append(kept, list[n + 1])
           m == Len(kept)
<1>1. PICK place \in [1..m -> 1..n] :
        /\ \A i, j \in 1..m : i < j => place[i] < place[j]
        /\ \A i \in 1..m : kept[i] = list[place[i]]
        /\ {place[i] : i \in 1..m} = {k \in 1..n : ~Unsupported(list[k])}
  BY DEF KeepsSupported
<1>2. /\ m \in Nat /\ Len(longer) = m + 1
      /\ \A i \in 1..m : longer[i] = kept[i]
      /\ longer[m + 1] = list[n + 1]
  <2>1. list[n + 1] \in Node
    OBVIOUS
  <2> QED
    BY <2>1
<1> HIDE DEF longer, m
<1> DEFINE extended == [i \in 1..(m + 1) |-> IF i = m + 1 THEN n + 1 ELSE place[i]]
<1>3. /\ extended \in [1..(m + 1) -> 1..(n + 1)]
      /\ extended[m + 1] = n + 1
      /\ \A i \in 1..m : extended[i] = place[i] /\ place[i] \in 1..n
  BY <1>2
<1>4. \A i \in 1..(m + 1) : i \in 1..m \/ i = m + 1
  BY <1>2
<1> HIDE DEF extended
<1>5. \A i, j \in 1..(m + 1) : i < j => extended[i] < extended[j]
  <2>1. ASSUME NEW i \in 1..(m + 1), NEW j \in 1..(m + 1), i < j
        PROVE  extended[i] < extended[j]
    <3>1. i \in 1..m
      BY <2>1, <1>2
    <3>2. CASE j \in 1..m
      BY <3>1, <3>2, <2>1, <1>1, <1>3
    <3>3. CASE j = m + 1
      BY <3>1, <3>3, <1>3
    <3> QED
      BY <3>2, <3>3, <1>4
  <2> QED
    BY <2>1
<1>6. \A i \in 1..(m + 1) : longer[i] = list[extended[i]]
  BY <1>1, <1>2, <1>3, <1>4
<1>7. {extended[i] : i \in 1..(m + 1)} = {k \in 1..(n + 1) : ~Unsupported(list[k])}
  <2>1. ASSUME NEW i \in 1..(m + 1)
        PROVE  extended[i] \in 1..(n + 1) /\ ~Unsupported(list[extended[i]])
    <3>1. CASE i \in 1..m
      <4>1. place[i] \in {k \in 1..n : ~Unsupported(list[k])}
        BY <3>1, <1>1
      <4> QED
        BY <3>1, <4>1, <1>3
    <3>2. CASE i = m + 1
      BY <3>2, <1>3
    <3> QED
      BY <3>1, <3>2, <1>4
  <2>2. ASSUME NEW k \in 1..(n + 1), ~Unsupported(list[k])
        PROVE  \E i \in 1..(m + 1) : extended[i] = k
    <3>1. CASE k = n + 1
      <4>1. m + 1 \in 1..(m + 1)
        BY <1>2
      <4> QED
        BY <3>1, <4>1, <1>3
    <3>2. CASE k \in 1..n
      <4>1. PICK i \in 1..m : place[i] = k
        BY <3>2, <2>2, <1>1
      <4>2. i \in 1..(m + 1)
        BY <1>2
      <4> QED
        BY <4>1, <4>2, <1>3
    <3> QED
      BY <3>1, <3>2
  <2> QED
    BY <2>1, <2>2
<1>8. KeepsSupported(longer, list, n + 1)
  <2>1. Len(longer) = m + 1
    BY <1>2
  <2>2. extended \in [1..Len(longer) -> 1..(n + 1)]
    BY <2>1, <1>3
  <2>3. \A i, j \in 1..Len(longer) : i < j => extended[i] < extended[j]
    BY <2>1, <1>5
  <2>4. \A i \in 1..Len(longer) : longer[i] = list[extended[i]]
    BY <2>1, <1>6
  <2>5. {extended[i] : i \in 1..Len(longer)} = {k \in 1..(n + 1) : ~Unsupported(list[k])}
    BY <2>1, <1>7
  <2> QED
    BY <2>2, <2>3, <2>4, <2>5 DEF KeepsSupported
<1> QED
  BY <1>8 DEF longer

(* The empty list is what is kept of no node.                              *)
LEMMA NothingKept ==
  ASSUME NEW list \in Seq(Node)
  PROVE  KeepsSupported(<<>>, list, 0)
<1> DEFINE place == [i \in 1..0 |-> 1]
<1>1. Len(<<>>) = 0 /\ 1..0 = {}
  OBVIOUS
<1>2. place \in [1..0 -> 1..0]
  BY <1>1
<1> QED
  BY <1>1, <1>2 DEF KeepsSupported

LEMMA StepListInv == IInv /\ ListInv /\ [Next]_vars => ListInv'
<1> SUFFICES ASSUME IInv, ListInv, [Next]_vars PROVE ListInv'
  OBVIOUS
<1>1. /\ nodes \in Seq(Node) /\ Len(nodes) \in Nat /\ outbounds \in Seq(Node)
      /\ Len(outbounds) \in Nat /\ next \in Nat \ {0} /\ unsupported \in Nat
      /\ Len(outbounds) = Len(tags)
  BY DEF IInv, TypeOK, Aligned
<1>2. CASE BeginBuild
  <2>1. /\ phase' = "adding" /\ next' = 1 /\ outbounds' = <<>> /\ unsupported' = 0
        /\ nodes' \in Seq(Node)
    BY <1>2, ListsAssumption DEF BeginBuild, Reset
  <2>2. KeepsSupported(outbounds, nodes, next - 1)'
    BY <2>1, NothingKept
  <2>3. next' \in 1..(Len(nodes') + 1) /\ Len(outbounds') + unsupported' = next' - 1
    BY <2>1
  <2>4. \A i \in 1..(next' - 1) : FALSE
    BY <2>1
  <2> QED
    BY <2>1, <2>2, <2>3, <2>4 DEF ListInv
<1>3. CASE RefuseList \/ NoneSupported \/ Close
  <2>1. phase' = "down"
    BY <1>3 DEF RefuseList, NoneSupported, Close, Down
  <2> QED
    BY <2>1 DEF ListInv
<1>4. CASE SkipNode \/ AddNode
  <2>1. /\ phase = "adding" /\ phase' = "adding" /\ nodes' = nodes /\ next' = next + 1
        /\ next <= Len(nodes) /\ ~Fatal(nodes[next])
    BY <1>4 DEF SkipNode, AddNode
  <2>2. /\ next - 1 \in Nat /\ (next - 1) + 1 = next /\ next' - 1 = next
        /\ next' \in 1..(Len(nodes) + 1) /\ next - 1 < Len(nodes)
    BY <2>1, <1>1
  <2>3. /\ KeepsSupported(outbounds, nodes, next - 1) /\ Len(outbounds) + unsupported = next - 1
        /\ \A i \in 1..(next - 1) : ~Fatal(nodes[i])
    BY <2>1 DEF ListInv
  <2>4. \A i \in 1..next : ~Fatal(nodes[i])
    <3>1. \A i \in 1..next : i \in 1..(next - 1) \/ i = next
      BY <1>1
    <3> QED
      BY <3>1, <2>1, <2>3
  <2>5. KeepsSupported(outbounds', nodes, next) /\ Len(outbounds') + unsupported' = next
    <3>1. CASE SkipNode
      <4>1. /\ outbounds' = outbounds /\ unsupported' = unsupported + 1
            /\ Unsupported(nodes[next])
        BY <3>1 DEF SkipNode
      <4>2. KeepsSupported(outbounds, nodes, (next - 1) + 1)
        BY <4>1, <2>2, <2>3, <1>1, SkipKeeps
      <4> QED
        BY <4>1, <4>2, <2>2, <2>3, <1>1
    <3>2. CASE AddNode
      <4>1. /\ outbounds' = Append(outbounds, nodes[next]) /\ unsupported' = unsupported
            /\ ~Unsupported(nodes[next])
        BY <3>2 DEF AddNode
      <4>2. KeepsSupported(Append(outbounds, nodes[(next - 1) + 1]), nodes, (next - 1) + 1)
        BY <4>1, <2>2, <2>3, <1>1, AppendKeeps
      <4>3. Len(outbounds') = Len(outbounds) + 1
        BY <4>1, <1>1, <2>1
      <4> QED
        BY <4>1, <4>2, <4>3, <2>2, <2>3, <1>1
    <3> QED
      BY <1>4, <3>1, <3>2
  <2> QED
    BY <2>1, <2>2, <2>4, <2>5 DEF ListInv
<1>5. CASE SelectPool
  <2>1. /\ phase = "adding" /\ phase' = "selecting" /\ next > Len(nodes)
        /\ stats' = [supported |-> Len(outbounds), unsupported |-> unsupported]
        /\ UNCHANGED <<nodes, next, outbounds, unsupported>>
    BY <1>1, <1>5 DEF SelectPool, Added
  <2>2. next = Len(nodes) + 1
    BY <2>1, <1>1 DEF ListInv
  <2> QED
    BY <2>1, <2>2 DEF ListInv
<1>6. CASE IncludeTied \/ FinishBuild \/ Pick \/ UNCHANGED vars
  <2>1. /\ UNCHANGED <<nodes, next, outbounds, unsupported, stats>>
        /\ {phase, phase'} \subseteq {"selecting", "serving"} \/ phase' = phase
    BY <1>6 DEF IncludeTied, FinishBuild, Pick, vars
  <2> QED
    BY <2>1 DEF ListInv
<1> QED
  BY <1>2, <1>3, <1>4, <1>5, <1>6 DEF Next

LEMMA AlwaysListInv == Spec => []ListInv
<1>1. Init => ListInv
  BY DEF Init, ListInv
<1> QED
  BY <1>1, Always, StepListInv, PTL DEF Spec

(* A core has exactly the supported nodes of the list it was built from,   *)
(* in its order, and the statistics account for every node, for lists of   *)
(* any length.                                                             *)
THEOREM CoreIsTheList == Spec => []CoreMatchesList
<1>1. ASSUME TypeOK, ListInv PROVE CoreMatchesList
  <2> SUFFICES ASSUME phase = "serving"
               PROVE  /\ \A i \in 1..Len(nodes) : ~Fatal(nodes[i])
                      /\ KeepsSupported(outbounds, nodes, Len(nodes))
                      /\ stats.supported = Len(outbounds)
                      /\ stats.supported + stats.unsupported = Len(nodes)
    BY DEF CoreMatchesList
  <2>1. Len(nodes) \in Nat /\ next - 1 = Len(nodes)
    BY <1>1 DEF TypeOK, ListInv
  <2>2. /\ \A i \in 1..(next - 1) : ~Fatal(nodes[i])
        /\ KeepsSupported(outbounds, nodes, next - 1)
        /\ Len(outbounds) + unsupported = next - 1
        /\ stats = [supported |-> Len(outbounds), unsupported |-> unsupported]
    BY <1>1 DEF ListInv
  <2> QED
    BY <2>1, <2>2
<1>2. IInv => TypeOK
  BY DEF IInv
<1> QED
  BY <1>1, <1>2, Always, AlwaysListInv, PTL

-----------------------------------------------------------------------------
(* The random pick.                                                        *)

(* A set of numbers that is not empty has a least one: the intervals from  *)
(* 1 to its members are finite sets, which strict inclusion orders well.   *)
LEMMA LeastOf ==
  ASSUME NEW T \in SUBSET Nat, T # {}
  PROVE  \E n \in T : \A m \in T : n <= m
<1> DEFINE U == {1..n : n \in T}
<1>1. U \subseteq FiniteSubsetsOf(Nat)
  <2>1. \A n \in T : IsFiniteSet(1..n) /\ 1..n \in SUBSET Nat
    BY FS_Interval
  <2> QED
    BY <2>1 DEF FiniteSubsetsOf
<1>2. U # {}
  OBVIOUS
<1>3. PICK u \in U : \A v \in U : ~ (<<v, u>> \in StrictSubsetOrdering(Nat))
  <2> HIDE DEF U
  <2> QED
    BY <1>1, <1>2, WFMin, FS_StrictSubsetOrderingWellFounded
<1>4. PICK n \in T : u = 1..n
  OBVIOUS
<1>5. ASSUME NEW m \in T, m < n PROVE FALSE
  <2>1. 1..m \in U
    OBVIOUS
  <2>2. 1..m \subseteq 1..n /\ 1..m # 1..n
    <3>1. n \in 1..n /\ n \notin 1..m
      BY <1>5
    <3> QED
      BY <3>1, <1>5
  <2>3. 1..m \in SUBSET Nat /\ 1..n \in SUBSET Nat /\ IsFiniteSet(1..m) /\ IsFiniteSet(1..n)
    BY FS_Interval
  <2>4. <<1..m, 1..n>> \in StrictSubsetOrdering(Nat)
    BY <2>2, <2>3 DEF StrictSubsetOrdering, FiniteSubsetsOf
  <2> QED
    BY <1>3, <1>4, <2>1, <2>4
<1> QED
  BY <1>5

(* What f counts up to each position when position i counts w[i].          *)
Counts(f, w, n) ==
  /\ f \in [0..n -> Nat]
  /\ f[0] = 0
  /\ \A i \in 1..n : f[i] = f[i - 1] + w[i]

(* There is such a count: a least position without one would follow a      *)
(* position that has one.                                                  *)
LEMMA CountExists ==
  ASSUME NEW n \in Nat, NEW w \in [1..n -> Nat]
  PROVE  \E f : Counts(f, w, n)
<1> DEFINE T == {m \in 0..n : ~ \E f : Counts(f, w, m)}
<1> SUFFICES T = {}
  <2>1. n \in 0..n
    OBVIOUS
  <2> QED
    BY <2>1
<1> SUFFICES ASSUME T # {} PROVE FALSE
  OBVIOUS
<1>1. PICK m \in T : \A k \in T : m <= k
  <2>1. T \in SUBSET Nat
    OBVIOUS
  <2> HIDE DEF T
  <2> QED
    BY <2>1, LeastOf
<1>2. m \in 0..n /\ ~ \E f : Counts(f, w, m)
  BY <1>1
<1>3. CASE m = 0
  <2> DEFINE f == [i \in 0..0 |-> 0]
  <2>1. Counts(f, w, 0)
    BY DEF Counts
  <2> QED
    BY <2>1, <1>2, <1>3
<1>4. CASE m # 0
  <2>1. m - 1 \in 0..n /\ m - 1 \notin T /\ m \in 1..n
    BY <1>1, <1>2, <1>4
  <2>2. PICK g : Counts(g, w, m - 1)
    BY <2>1
  <2>3. /\ g \in [0..(m - 1) -> Nat] /\ g[0] = 0
        /\ \A i \in 1..(m - 1) : g[i] = g[i - 1] + w[i]
    BY <2>2 DEF Counts
  <2> DEFINE f == [i \in 0..m |-> IF i = m THEN g[m - 1] + w[m] ELSE g[i]]
  <2>4. m \in Nat /\ w[m] \in Nat /\ g[m - 1] \in Nat
    BY <2>1, <2>3
  <2>5. \A i \in 0..m : i = m \/ i \in 0..(m - 1)
    BY <2>4
  <2>6. f \in [0..m -> Nat]
    BY <2>3, <2>4, <2>5
  <2>7. f[0] = 0
    BY <2>1, <2>3
  <2>8. ASSUME NEW i \in 1..m PROVE f[i] = f[i - 1] + w[i]
    <3>1. i \in 0..m /\ i - 1 \in 0..m /\ i - 1 # m
      BY <2>4
    <3>2. CASE i = m
      BY <3>1, <3>2
    <3>3. CASE i # m
      <4>1. i \in 1..(m - 1)
        BY <3>3, <2>4
      <4> QED
        BY <3>1, <3>3, <4>1, <2>3
    <3> QED
      BY <3>2, <3>3
  <2> HIDE DEF f
  <2>9. Counts(f, w, m)
    BY <2>6, <2>7, <2>8 DEF Counts
  <2> QED
    BY <2>9, <1>2
<1> QED
  BY <1>3, <1>4

(* A count does not go down.                                               *)
LEMMA CountGrows ==
  ASSUME NEW n \in Nat, NEW w \in [1..n -> Nat], NEW f, Counts(f, w, n),
         NEW i \in 0..n, NEW j \in 0..n, i <= j
  PROVE  f[i] <= f[j]
<1> DEFINE T == {k \in i..n : ~ f[i] <= f[k]}
<1>1. /\ f \in [0..n -> Nat]
      /\ \A k \in 1..n : f[k] = f[k - 1] + w[k]
  BY DEF Counts
<1>2. ASSUME T # {} PROVE FALSE
  <2>1. PICK m \in T : \A k \in T : m <= k
    <3>1. T \in SUBSET Nat
      OBVIOUS
    <3> HIDE DEF T
    <3> QED
      BY <1>2, <3>1, LeastOf
  <2>2. m \in i..n /\ ~ f[i] <= f[m] /\ m # i
    BY <2>1, <1>1
  <2>3. m - 1 \in i..n /\ m - 1 \notin T /\ m \in 1..n /\ m - 1 \in 0..n
    BY <2>1, <2>2
  <2>4. f[i] <= f[m - 1] /\ f[m] = f[m - 1] + w[m]
    BY <2>3, <1>1
  <2>5. f[i] \in Nat /\ f[m - 1] \in Nat /\ w[m] \in Nat
    BY <2>3, <1>1
  <2> QED
    BY <2>2, <2>4, <2>5
<1> QED
  BY <1>2

(* What nextIndex adds to its cursor at each position of the pool.         *)
Steps(usable) == [i \in 1..selected |-> IF i \in usable THEN Weight(i) ELSE 0]

LEMMA WeightPositive ==
  ASSUME IInv, NEW i \in 1..selected
  PROVE  Weight(i) \in Nat \ {0}
<1>1. supported[i] \in Node
  BY DEF IInv, TypeOK, Aligned
<1>2. RandomWeight(supported[i].score) \in Nat \ {0}
  BY DEF RandomWeight
<1> QED
  BY <1>2 DEF Weight

LEMMA StepsType ==
  ASSUME IInv, NEW usable
  PROVE  selected \in Nat /\ Steps(usable) \in [1..selected -> Nat]
  BY WeightPositive DEF Steps, IInv, TypeOK

(* The recursive definition of the cursor is met by a count, and by one    *)
(* only.                                                                   *)
LEMMA CursorCounts ==
  ASSUME IInv, NEW usable
  PROVE  Counts(Cursor(usable), Steps(usable), selected)
<1> DEFINE c == Cursor(usable)
           w == Steps(usable)
<1>1. selected \in Nat /\ w \in [1..selected -> Nat]
  BY StepsType
<1>2. PICK f : Counts(f, w, selected)
  BY <1>1, CountExists
<1>3. /\ f \in [0..selected -> Nat] /\ f[0] = 0
      /\ \A i \in 1..selected : f[i] = f[i - 1] + w[i]
  BY <1>2 DEF Counts
<1>4. \A i \in 1..selected : w[i] = IF i \in usable THEN Weight(i) ELSE 0
  BY DEF Steps
<1>5. f = [i \in 0..selected |->
             IF i = 0 THEN 0 ELSE f[i - 1] + (IF i \in usable THEN Weight(i) ELSE 0)]
  <2>1. ASSUME NEW i \in 0..selected
        PROVE  f[i] = IF i = 0 THEN 0 ELSE f[i - 1] + (IF i \in usable THEN Weight(i) ELSE 0)
    <3>1. i = 0 \/ i \in 1..selected
      BY <1>1
    <3> HIDE DEF w
    <3> QED
      BY <3>1, <1>3, <1>4
  <2> QED
    BY <2>1, <1>3
<1>6. c = [i \in 0..selected |->
             IF i = 0 THEN 0 ELSE c[i - 1] + (IF i \in usable THEN Weight(i) ELSE 0)]
  BY <1>5 DEF Cursor
<1> HIDE DEF c, w
<1>7. /\ c[0] = 0
      /\ \A i \in 1..selected : c[i] = c[i - 1] + w[i]
  <2>1. 0 \in 0..selected /\ \A i \in 1..selected : i \in 0..selected /\ i # 0
    BY <1>1
  <2> QED
    BY <1>4, <1>6, <2>1
<1>8. \A i \in 0..selected : c[i] = f[i]
  <2> DEFINE T == {i \in 0..selected : c[i] # f[i]}
  <2>1. ASSUME T # {} PROVE FALSE
    <3>1. PICK m \in T : \A k \in T : m <= k
      <4>1. T \in SUBSET Nat
        BY <1>1
      <4> HIDE DEF T
      <4> QED
        BY <2>1, <4>1, LeastOf
    <3>2. m \in 0..selected /\ c[m] # f[m] /\ m # 0
      BY <3>1, <1>3, <1>7
    <3>3. m \in 1..selected /\ m - 1 \in 0..selected /\ m - 1 \notin T
      BY <3>1, <3>2, <1>1
    <3>4. c[m - 1] = f[m - 1]
      BY <3>3
    <3> QED
      BY <3>2, <3>3, <3>4, <1>3, <1>7
  <2> QED
    BY <2>1
<1>9. c \in [0..selected -> Nat]
  <2>1. c = [i \in 0..selected |-> c[i]]
    BY <1>6
  <2> QED
    BY <2>1, <1>3, <1>8
<1>10. Counts(c, w, selected)
  BY <1>7, <1>9 DEF Counts
<1> QED
  BY <1>10 DEF c, w

(* A number leads to the one member whose weight takes the cursor past it. *)
LEMMA TargetLeads ==
  ASSUME IInv, NEW usable \in SUBSET (1..selected), Cardinality(usable) # 1,
         NEW t \in 0..(Cursor(usable)[selected] - 1)
  PROVE  /\ NextIndex(usable, t) \in usable
         /\ Cursor(usable)[NextIndex(usable, t) - 1] <= t
         /\ t < Cursor(usable)[NextIndex(usable, t)]
         /\ \A i \in usable : Cursor(usable)[i - 1] <= t /\ t < Cursor(usable)[i]
                                => i = NextIndex(usable, t)
<1> DEFINE c == Cursor(usable)
           w == Steps(usable)
           S == {i \in usable : t < c[i]}
           T == {i \in 0..selected : t < c[i]}
<1>1. selected \in Nat /\ w \in [1..selected -> Nat] /\ Counts(c, w, selected)
  BY StepsType, CursorCounts
<1>2. NextIndex(usable, t) = Min(S)
  BY DEF NextIndex
<1>3. \A i \in 1..selected : i \notin usable => w[i] = 0
  BY DEF Steps
<1>4. t \in 0..(c[selected] - 1)
  OBVIOUS
<1> HIDE DEF c, w
<1>5. /\ c \in [0..selected -> Nat] /\ c[0] = 0
      /\ \A i \in 1..selected : c[i] = c[i - 1] + w[i]
  BY <1>1 DEF Counts
<1>6. t \in Nat /\ t < c[selected]
  BY <1>1, <1>4, <1>5
<1>7. PICK k \in T : \A m \in T : k <= m
  <2>1. T \in SUBSET Nat /\ selected \in T
    BY <1>1, <1>6
  <2> HIDE DEF T
  <2> QED
    BY <2>1, LeastOf
<1>8. k \in 1..selected /\ k - 1 \in 0..selected /\ t < c[k]
  BY <1>1, <1>5, <1>6, <1>7
<1>9. c[k - 1] <= t
  <2>1. k - 1 \notin T
    BY <1>7, <1>8
  <2> QED
    BY <2>1, <1>5, <1>6, <1>8
<1>10. k \in usable
  BY <1>3, <1>5, <1>6, <1>8, <1>9
<1>11. k \in S /\ \A m \in S : k <= m
  <2>1. S \subseteq T
    <3>1. usable \subseteq 0..selected
      BY <1>1
    <3> QED
      BY <3>1
  <2> QED
    BY <2>1, <1>7, <1>8, <1>10
<1>12. S \subseteq Nat
  <2>1. usable \subseteq Nat
    BY <1>1
  <2> QED
    BY <2>1
<1>13. Min(S) = k
  <2> HIDE DEF S
  <2>1. \A x \in S : (\A y \in S : x =< y) => x = k
    BY <1>11, <1>12
  <2> QED
    BY <1>11, <2>1 DEF Min
<1>14. ASSUME NEW i \in usable, c[i - 1] <= t, t < c[i] PROVE i = k
  <2>1. i \in 0..selected /\ i - 1 \in 0..selected /\ i \in T /\ k <= i
    BY <1>1, <1>7, <1>14
  <2>2. ASSUME k # i PROVE FALSE
    <3>1. k <= i - 1 /\ k \in 0..selected
      BY <2>1, <2>2, <1>8
    <3>2. c[k] <= c[i - 1]
      BY <2>1, <3>1, <1>1, CountGrows
    <3> QED
      BY <3>1, <3>2, <2>1, <1>5, <1>6, <1>8, <1>14
  <2> QED
    BY <2>2
<1>15. NextIndex(usable, t) = k
  BY <1>2, <1>13
<1> HIDE DEF S, T
<1> QED
  BY <1>8, <1>9, <1>10, <1>14, <1>15 DEF c

(* The pick is exactly proportional to the weights, whatever members can   *)
(* carry the connection, for pools of any size.                            *)
THEOREM PicksFollowWeights == Spec => []PickIsProportional
<1>1. ASSUME IInv PROVE PickIsProportional
  <2> SUFFICES ASSUME NEW network \in Network, Cardinality(Usable(network)) > 1,
                      NEW i \in Usable(network)
               PROVE  Cardinality({t \in Targets(Usable(network)) :
                                     NextIndex(Usable(network), t) = i}) = Weight(i)
    BY DEF PickIsProportional
  <2> DEFINE usable == Usable(network)
             c == Cursor(usable)
  <2>1. usable \in SUBSET (1..selected) /\ Cardinality(usable) # 1
    BY DEF Usable
  <2>2. /\ selected \in Nat /\ Steps(usable) \in [1..selected -> Nat]
        /\ Counts(c, Steps(usable), selected)
    BY <1>1, StepsType, CursorCounts
  <2>3. i \in 1..selected /\ i \in 0..selected /\ i - 1 \in 0..selected
        /\ selected \in 0..selected
    BY <2>1, <2>2
  <2>4. Steps(usable)[i] = Weight(i) /\ Weight(i) \in Nat
    BY <1>1, <2>3, WeightPositive DEF Steps
  <2>5. Targets(usable) = 0..(c[selected] - 1)
    BY <2>1 DEF Targets
  <2> HIDE DEF usable
  <2>6. /\ c[i] = c[i - 1] + Weight(i)
        /\ c[i] \in Nat /\ c[i - 1] \in Nat /\ c[selected] \in Nat
    BY <2>2, <2>3, <2>4 DEF Counts
  <2>7. c[i] <= c[selected]
    <3> HIDE DEF c
    <3> QED
      BY <2>2, <2>3, CountGrows
  <2>8. {t \in Targets(usable) : NextIndex(usable, t) = i} = c[i - 1]..(c[i] - 1)
    <3>1. ASSUME NEW t \in Targets(usable), NextIndex(usable, t) = i
          PROVE  t \in c[i - 1]..(c[i] - 1)
      <4>1. c[i - 1] <= t /\ t < c[i]
        BY <1>1, <3>1, <2>1, <2>5, TargetLeads
      <4>2. t \in Int
        BY <2>5, <2>6
      <4> HIDE DEF c
      <4> QED
        BY <4>1, <4>2, <2>6
    <3>2. ASSUME NEW t \in c[i - 1]..(c[i] - 1)
          PROVE  t \in Targets(usable) /\ NextIndex(usable, t) = i
      <4>1. t \in 0..(c[selected] - 1) /\ c[i - 1] <= t /\ t < c[i]
        <5> HIDE DEF c
        <5> QED
          BY <2>6, <2>7
      <4>2. i \in usable
        BY DEF usable
      <4> QED
        BY <1>1, <4>1, <4>2, <2>1, <2>5, TargetLeads
    <3> HIDE DEF c
    <3> QED
      BY <3>1, <3>2
  <2>9. Cardinality(c[i - 1]..(c[i] - 1)) = Weight(i)
    <3> HIDE DEF c
    <3>1. Cardinality(c[i - 1]..(c[i] - 1)) =
            IF c[i - 1] > c[i] - 1 THEN 0 ELSE (c[i] - 1) - c[i - 1] + 1
      <4>1. c[i - 1] \in Int /\ c[i] - 1 \in Int
        BY <2>6
      <4> QED
        BY <4>1, FS_Interval
    <3> QED
      BY <3>1, <2>4, <2>6
  <2> QED
    BY <2>8, <2>9 DEF usable
<1> QED
  BY <1>1, Always, PTL

=============================================================================
