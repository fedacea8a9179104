--------------------------- MODULE Runtime_proofs ----------------------------
(***************************************************************************)
(* Proofs about the runtime.  Runtime, for any sources, restored scores,   *)
(* flags and any number of changes of the world: however the refresher and *)
(* the checker interleave, the core is never asked to start while it runs. *)
(* StateStore, for any number of probes and restarts, and wherever the     *)
(* process is killed: what its saved and restored state is worth.          *)
(***************************************************************************)
EXTENDS Runtime, StateStoreMC, FiniteSetTheorems, SequenceTheorems, TLAPS

(* Before the first snapshot is published the checker is off, and a core   *)
(* runs only from the moment the first refresh has built it.               *)
FirstRefreshInv ==
  published = <<>> =>
    /\ checker = "off"
    /\ core # Down => refresher \in {"monitoring", "publishing"}

(* A refresh under way carries at least one node, so what it publishes is  *)
(* a snapshot, and a core it started is found running by the next one.     *)
CarriesNodes == refresher # "idle" => fresh # <<>>

IInv == TypeOK /\ FirstRefreshInv /\ CarriesNodes

-----------------------------------------------------------------------------
(* Lists.                                                                  *)

(* There are finitely many nodes.                                          *)
LEMMA NodeFinite == IsFiniteSet(Node)
  <1>1. Sources \in [1..Len(Sources) -> Node] /\ Len(Sources) \in Nat
    BY SourcesAssumption DEF Node, ToSet
  <1>2. \A n \in Node : \E i \in 1..Len(Sources) : Sources[i] = n
    BY SourcesAssumption DEF Node, ToSet
  <1>3. Sources \in Surjection(1..Len(Sources), Node)
    BY <1>1, <1>2 DEF Surjection
  <1>4. IsFiniteSet(1..Len(Sources))
    BY <1>1, FS_Interval
  <1> QED
    BY <1>3, <1>4, FS_Surjection

(* A listing of a set of nodes is a list of nodes, and one of a set that   *)
(* has a member is not empty.                                              *)
LEMMA ListingsFacts ==
  ASSUME NEW S \in SUBSET Node, NEW list \in Listings(S)
  PROVE  list \in Seq(Node) /\ (S # {} => list # <<>>)
  <1>1. IsFiniteSet(S) /\ Cardinality(S) \in Nat
    BY NodeFinite, FS_Subset, FS_CardinalityType
  <1>2. list \in [1..Cardinality(S) -> Node] /\ ToSet(list) = S
    BY DEF Listings
  <1>3. list \in Seq(Node)
    BY <1>1, <1>2, SeqDef
  <1>4. S # {} => DOMAIN list # {}
    BY <1>2 DEF ToSet
  <1> QED
    BY <1>3, <1>4

LEMMA NodesOfType ==
  ASSUME NEW entries \in Seq(Entry)
  PROVE  NodesOf(entries) \in Seq(Node)
  <1>1. /\ DOMAIN entries = 1..Len(entries) /\ Len(entries) \in Nat
        /\ \A i \in 1..Len(entries) : entries[i] \in Entry
    BY ElementOfSeq
  <1>2. NodesOf(entries) \in [1..Len(entries) -> Node]
    BY <1>1 DEF NodesOf, Entry
  <1> QED
    BY <1>1, <1>2, SeqDef

LEMMA RangeIsNodes ==
  ASSUME NEW list \in Seq(Node)
  PROVE  ToSet(list) \subseteq Node
  BY DEF ToSet

LEMMA BucketType ==
  ASSUME NEW s \in Score \cup {Blank}
  PROVE  Bucket(s) \in 0..3
  BY DEF Bucket, Score, Blank

(* Taking scores changes neither the length nor the nodes of a list.       *)
LEMMA ScoredType ==
  ASSUME TypeOK, NEW entries \in Seq(Entry)
  PROVE  /\ Scored(entries) \in Seq(Entry)
         /\ entries # <<>> => Scored(entries) # <<>>
  <1>1. ASSUME NEW i \in 1..Len(entries)
        PROVE  Scored(entries)[i] \in Entry
    <2> DEFINE n == entries[i].node
               s == IF score[n] = Unknown THEN FreshScore ELSE score[n]
    <2>1. entries[i] \in Entry
      BY <1>1, ElementOfSeq
    <2>2. n \in Node
      BY <2>1 DEF Entry
    <2>3. s \in Score \cup {Blank}
      BY <2>2 DEF TypeOK, FreshScore, Score
    <2>4. Bucket(s) \in 0..3
      BY <2>3, BucketType
    <2>5. Scored(entries)[i] = [node |-> n, bucket |-> Bucket(s)]
      BY <1>1 DEF Scored
    <2> QED
      BY <2>2, <2>4, <2>5 DEF Entry
  <1>2. DOMAIN Scored(entries) = 1..Len(entries) /\ Len(entries) \in Nat
    BY DEF Scored
  <1>3. Scored(entries) = [i \in 1..Len(entries) |-> Scored(entries)[i]]
    BY <1>2 DEF Scored
  <1>4. Scored(entries) \in Seq(Entry)
    BY <1>1, <1>2, <1>3, SeqDef
  <1> QED
    BY <1>2, <1>4

(* SetNodes keeps the types, whatever list of nodes it is given.           *)
LEMMA SetNodesType ==
  ASSUME TypeOK, NEW list \in Seq(Node), SetNodes(list)
  PROVE  nodes' \in Seq(Node) /\ score' \in [Node -> Score \cup {Blank, Unknown}]
  BY DEF SetNodes, TypeOK, FreshScore, Score

(* The list a round ends with has only nodes in it.                        *)
LEMMA FreeIsNodes ==
  ASSUME TypeOK, NEW forgiven \in SUBSET failed
  PROVE  Free(forgiven) \subseteq Node
  BY RangeIsNodes DEF Free, TypeOK

-----------------------------------------------------------------------------

LEMMA InitIInv == Init => IInv
  <1> SUFFICES ASSUME Init PROVE IInv
    OBVIOUS
  <1>1. score \in [Node -> Score \cup {Blank, Unknown}]
    BY RestoredAssumption DEF Init
  <1>2. TypeOK
    <2>1. <<>> \in Seq(Node) /\ <<>> \in Seq(Entry) /\ Len(<<>>) = 0
      OBVIOUS
    <2>2. 0 \in 0..MaxChanges /\ 0 \in 0..0
      BY MaxChangesAssumption
    <2> QED
      BY <1>1, <2>1, <2>2 DEF Init, TypeOK, Down
  <1> QED
    BY <1>2 DEF Init, IInv, FirstRefreshInv, CarriesNodes, Down

(* The world moves by itself and touches nothing the two goroutines hold.  *)
LEMMA WorldIInv ==
  ASSUME IInv,
         \/ \E set \in SUBSET Node : ChangeOffer(set) \/ ChangeReach(set)
         \/ DebounceEnds
  PROVE  IInv'
  <1>1. /\ UNCHANGED <<phase, core, published, nodes, score, refreshing, checker, round,
                       probed, failed, candidates, last>>
        /\ offered' \subseteq Node /\ up' \subseteq Node
        /\ changes' \in 0..MaxChanges /\ debounced' \in BOOLEAN
    <2>1. CASE \E set \in SUBSET Node : ChangeOffer(set) \/ ChangeReach(set)
      BY <2>1, MaxChangesAssumption DEF IInv, TypeOK, ChangeOffer, ChangeReach, health, checking
    <2>2. CASE DebounceEnds
      BY <2>2 DEF IInv, TypeOK, DebounceEnds, world, health
    <2> QED
      BY <2>1, <2>2
  <1> QED
    BY <1>1 DEF IInv, TypeOK, FirstRefreshInv, CarriesNodes, refreshing

(* The nodes offered are at least one, so the refresh carries some.        *)
LEMMA CollectIInv ==
  ASSUME IInv, Collect
  PROVE  IInv'
  <1>1. PICK list \in Listings(offered) : fresh' = Unscored(list)
    BY DEF Collect
  <1>2. /\ UNCHANGED <<world, phase, core, published, health, rebuild, checking>>
        /\ refresher = "idle" /\ refresher' = "comparing" /\ offered # {}
    BY DEF Collect
  <1>3. list \in Seq(Node) /\ list # <<>>
    BY <1>2, ListingsFacts DEF IInv, TypeOK
  <1>4. fresh' \in Seq(Entry) /\ fresh' # <<>>
    <2>1. /\ DOMAIN list = 1..Len(list) /\ Len(list) \in Nat
          /\ \A i \in 1..Len(list) : list[i] \in Node
      BY <1>3, ElementOfSeq
    <2>2. fresh' \in [1..Len(list) -> Entry]
      BY <1>1, <2>1 DEF Unscored, Entry
    <2>3. fresh' \in Seq(Entry)
      BY <2>1, <2>2, SeqDef
    <2> QED
      BY <1>3, <2>1, <2>2, <2>3
  <1>5. TypeOK'
    BY <1>2, <1>4 DEF IInv, TypeOK, world, health, checking
  <1> QED
    BY <1>2, <1>4, <1>5 DEF IInv, FirstRefreshInv, CarriesNodes, checking

LEMMA CompareIInv ==
  ASSUME IInv, Compare
  PROVE  IInv'
  <1>1. /\ UNCHANGED <<world, phase, core, published, health, checking>>
        /\ refresher = "comparing" /\ refresher' = "applying"
        /\ fresh' = Scored(fresh) /\ rebuild' \in BOOLEAN
    BY DEF Compare, Compared
  <1>2. fresh' \in Seq(Entry) /\ fresh' # <<>>
    BY <1>1, ScoredType DEF IInv, TypeOK, CarriesNodes
  <1>3. TypeOK'
    BY <1>1, <1>2 DEF IInv, TypeOK, world, health, checking
  <1> QED
    BY <1>1, <1>2, <1>3 DEF IInv, FirstRefreshInv, CarriesNodes, checking

(* The first refresh finds no core; if it cannot build one it leaves none. *)
LEMMA RefreshAppliesIInv ==
  ASSUME IInv, NEW works \in BOOLEAN, RefreshApplies(works)
  PROVE  IInv'
  <1> DEFINE applied == ~rebuild \/ (works /\ ~StartRefused)
  <1>1. /\ UNCHANGED <<world, published, health, fresh, rebuild, checking>>
        /\ refresher = "applying"
        /\ refresher' = IF applied THEN "monitoring" ELSE "idle"
        /\ phase' \in {phase, "exited"}
        /\ core' \in {core, NodesOf(fresh), Down}
        /\ ~applied => core' \in {core, Down}
    BY DEF RefreshApplies, Apply
  <1>2. core' \in Seq(Node)
    <2>1. NodesOf(fresh) \in Seq(Node)
      BY NodesOfType DEF IInv, TypeOK
    <2>2. <<>> \in Seq(Node)
      OBVIOUS
    <2> QED
      BY <1>1, <2>1, <2>2 DEF IInv, TypeOK, Down
  <1>3. TypeOK'
    BY <1>1, <1>2 DEF IInv, TypeOK, world, health, checking
  <1>4. published = <<>> => core = Down /\ checker = "off"
    BY <1>1 DEF IInv, FirstRefreshInv
  <1>5. FirstRefreshInv'
    BY <1>1, <1>4 DEF FirstRefreshInv, checking
  <1>6. CarriesNodes'
    BY <1>1 DEF IInv, CarriesNodes
  <1> QED
    BY <1>3, <1>5, <1>6 DEF IInv

LEMMA RefreshMonitorsIInv ==
  ASSUME IInv, RefreshMonitors
  PROVE  IInv'
  <1>1. /\ UNCHANGED <<world, phase, core, published, fresh, rebuild, checking>>
        /\ refresher = "monitoring" /\ refresher' = "publishing"
        /\ SetNodes(NodesOf(fresh))
    BY DEF RefreshMonitors
  <1>2. nodes' \in Seq(Node) /\ score' \in [Node -> Score \cup {Blank, Unknown}]
    BY <1>1, NodesOfType, SetNodesType DEF IInv, TypeOK
  <1>3. TypeOK'
    BY <1>1, <1>2 DEF IInv, TypeOK, world, checking
  <1> QED
    BY <1>1, <1>3 DEF IInv, FirstRefreshInv, CarriesNodes, checking

(* Publishing ends the first refresh for good: fresh is not empty.         *)
LEMMA PublishIInv ==
  ASSUME IInv, Publish
  PROVE  IInv'
  <1>1. /\ UNCHANGED <<world, phase, core, health, checking>>
        /\ refresher = "publishing" /\ refresher' = "idle"
        /\ published' = fresh /\ fresh' = <<>> /\ rebuild' = FALSE
    BY DEF Publish
  <1>2. published' # <<>>
    BY <1>1 DEF IInv, CarriesNodes
  <1>3. TypeOK'
    <2>1. <<>> \in Seq(Entry)
      OBVIOUS
    <2> QED
      BY <1>1, <2>1 DEF IInv, TypeOK, world, health, checking
  <1> QED
    BY <1>1, <1>2, <1>3 DEF IInv, FirstRefreshInv, CarriesNodes

LEMMA CollectFailsIInv ==
  ASSUME IInv, CollectFails
  PROVE  IInv'
  BY DEF IInv, CollectFails, TypeOK, FirstRefreshInv, CarriesNodes, world, health, refreshing,
     checking

(* The checker is started only after the first refresh has published.      *)
LEMMA StartCheckerIInv ==
  ASSUME IInv, StartChecker
  PROVE  IInv'
  <1>1. /\ UNCHANGED <<world, core, published, refreshing, round, probed, failed,
                       candidates, last, debounced>>
        /\ published # <<>> /\ phase' = "running"
        /\ checker' \in {checker, "waiting"}
        /\ SetNodes(NodesOf(published)) \/ UNCHANGED <<nodes, score>>
    BY DEF StartChecker
  <1>2. nodes' \in Seq(Node) /\ score' \in [Node -> Score \cup {Blank, Unknown}]
    <2>1. CASE SetNodes(NodesOf(published))
      BY <2>1, NodesOfType, SetNodesType DEF IInv, TypeOK
    <2>2. CASE UNCHANGED <<nodes, score>>
      BY <2>2 DEF IInv, TypeOK
    <2> QED
      BY <1>1, <2>1, <2>2
  <1>3. TypeOK'
    BY <1>1, <1>2 DEF IInv, TypeOK, world, refreshing
  <1> QED
    BY <1>1, <1>3 DEF IInv, FirstRefreshInv, CarriesNodes, refreshing

-----------------------------------------------------------------------------
(* The checker's steps: it works, so a snapshot has been published.        *)

LEMMA BeginRoundIInv ==
  ASSUME IInv, BeginRound
  PROVE  IInv'
  <1>1. /\ UNCHANGED <<world, phase, core, published, health, refreshing, candidates, last,
                       debounced>>
        /\ checker = "waiting" /\ checker' = "probing" /\ round' = nodes /\ probed' = 0
        /\ failed' = {}
    BY DEF BeginRound
  <1>2. TypeOK'
    BY <1>1 DEF IInv, TypeOK, world, health, refreshing
  <1> QED
    BY <1>1, <1>2 DEF IInv, FirstRefreshInv, CarriesNodes, refreshing

LEMMA ProbeIInv ==
  ASSUME IInv, Probe
  PROVE  IInv'
  <1> DEFINE n == round[probed + 1]
  <1>1. /\ UNCHANGED <<world, phase, core, published, nodes, refreshing, checker, round,
                       candidates, last, debounced>>
        /\ checker = "probing" /\ probed < Len(round) /\ probed' = probed + 1
        /\ ProbeAnswered(n) \/ ProbeFailed(n)
    BY DEF Probe
  <1>2. n \in Node /\ probed' \in 0..Len(round)
    BY <1>1 DEF IInv, TypeOK
  <1> HIDE DEF n
  <1>3. score' \in [Node -> Score \cup {Blank, Unknown}] /\ failed' \subseteq Node
    <2>1. CASE ProbeAnswered(n)
      BY <1>2, <2>1 DEF ProbeAnswered, IInv, TypeOK
    <2>2. CASE ProbeFailed(n)
      BY <1>2, <2>2 DEF ProbeFailed, IInv, TypeOK, Score
    <2> QED
      BY <1>1, <2>1, <2>2
  <1>4. TypeOK'
    BY <1>1, <1>2, <1>3 DEF IInv, TypeOK, world, refreshing
  <1> QED
    BY <1>1, <1>4 DEF IInv, FirstRefreshInv, CarriesNodes, refreshing

LEMMA EndRoundIInv ==
  ASSUME IInv, NEW forgiven \in SUBSET failed, EndRound(forgiven)
  PROVE  IInv'
  <1>1. PICK list \in Listings(Free(forgiven)) :
          IF list = last \/ debounced
            THEN checker' = "waiting" /\ UNCHANGED <<candidates, last, debounced>>
            ELSE /\ checker' = "rebuilding" /\ candidates' = list /\ last' = list
                 /\ debounced' = TRUE
    BY DEF EndRound
  <1>2. /\ UNCHANGED <<world, phase, core, published, health, refreshing>>
        /\ checker = "probing" /\ round' = <<>> /\ probed' = 0 /\ failed' = {}
    BY DEF EndRound
  <1>3. list \in Seq(Node)
    BY FreeIsNodes, ListingsFacts DEF IInv
  <1>4. /\ checker' \in {"waiting", "rebuilding"} /\ debounced' \in BOOLEAN
        /\ candidates' \in Seq(Node) /\ last' \in Seq(Node)
    BY <1>1, <1>3 DEF IInv, TypeOK
  <1>5. TypeOK'
    BY <1>2, <1>4 DEF IInv, TypeOK, world, health, refreshing
  <1> QED
    BY <1>2, <1>5 DEF IInv, FirstRefreshInv, CarriesNodes, refreshing

LEMMA CheckerAppliesIInv ==
  ASSUME IInv, NEW works \in BOOLEAN, CheckerApplies(works)
  PROVE  IInv'
  <1>1. /\ UNCHANGED <<world, phase, published, health, refreshing, round, probed, failed,
                       last, debounced>>
        /\ checker = "rebuilding" /\ checker' \in {"monitoring", "waiting"}
        /\ candidates' \in {candidates, <<>>}
        /\ core' \in {core, candidates, Down}
    BY DEF CheckerApplies, Apply
  <1>2. TypeOK'
    <2>1. <<>> \in Seq(Node)
      OBVIOUS
    <2> QED
      BY <1>1, <2>1 DEF IInv, TypeOK, Down, world, health, refreshing
  <1> QED
    BY <1>1, <1>2 DEF IInv, FirstRefreshInv, CarriesNodes, refreshing

LEMMA CheckerMonitorsIInv ==
  ASSUME IInv, CheckerMonitors
  PROVE  IInv'
  <1>1. /\ UNCHANGED <<world, phase, core, published, refreshing, round, probed, failed,
                       last, debounced>>
        /\ checker = "monitoring" /\ checker' = "waiting" /\ candidates' = <<>>
        /\ SetNodes(candidates)
    BY DEF CheckerMonitors
  <1>2. nodes' \in Seq(Node) /\ score' \in [Node -> Score \cup {Blank, Unknown}]
    BY <1>1, SetNodesType DEF IInv, TypeOK
  <1>3. TypeOK'
    BY <1>1, <1>2 DEF IInv, TypeOK, world, refreshing
  <1> QED
    BY <1>1, <1>3 DEF IInv, FirstRefreshInv, CarriesNodes, refreshing

LEMMA NextIInv == IInv /\ [Next]_vars => IInv'
  <1> SUFFICES ASSUME IInv, [Next]_vars PROVE IInv'
    OBVIOUS
  <1>1. CASE RefreshStep
    BY <1>1, CollectIInv, CompareIInv, RefreshAppliesIInv, RefreshMonitorsIInv, PublishIInv
       DEF RefreshStep
  <1>2. CASE CheckStep
    BY <1>2, BeginRoundIInv, ProbeIInv, EndRoundIInv, CheckerAppliesIInv, CheckerMonitorsIInv
       DEF CheckStep
  <1>3. CASE UNCHANGED vars
    BY <1>3 DEF vars, IInv, TypeOK, FirstRefreshInv, CarriesNodes, world, health, refreshing,
       checking
  <1> QED
    BY <1>1, <1>2, <1>3, WorldIInv, CollectFailsIInv, StartCheckerIInv DEF Next

LEMMA Invariance == Spec => []IInv
  BY InitIInv, NextIInv, PTL DEF Spec

(* No call of applyCandidates chooses Start while a core runs ("sing-box   *)
(* 服务已启动"), for any interleaving of the refresher and the checker.     *)
THEOREM StartIsNeverRefused == Spec => []StartNeverRefused
  <1>1. IInv => StartNeverRefused
    BY DEF IInv, FirstRefreshInv, StartNeverRefused, StartRefused
  <1> QED
    BY <1>1, Invariance, PTL

-----------------------------------------------------------------------------
(* The state store: the inductive invariant                                *)

Writing == {"opening", "penalties", "statuses", "end"}

(* Only the holder of the lock writes.                                     *)
WriterHolds == \A f \in Flusher : pc[f] \in Writing => mu = {f}

(* A process that has ended has no flush under way.                        *)
EndedIsIdle == ~Alive => mu = {} /\ \A f \in Flusher : pc[f] = "idle"

(* The file is what the writer has written of its draft.                   *)
FileFollowsDraft ==
  \A f \in Flusher :
    /\ pc[f] \in {"penalties", "statuses"} => file.status = Missing
    /\ pc[f] \in {"penalties", "statuses", "end"} => ~file.ended
    /\ pc[f] \in {"statuses", "end"} => file.pool = draft[f].pool
    /\ pc[f] = "end" => file.status = draft[f].status

(* Statuses are collected first, and the pool only grows meanwhile.        *)
DraftsOrdered ==
  \A f \in Flusher :
    /\ pc[f] = "reading" => draft[f].status <= pool
    /\ pc[f] \in {"saving"} \cup Writing => draft[f].status <= draft[f].pool

StoreInv ==
  /\ StoreTypeOK
  /\ WriterHolds
  /\ EndedIsIdle
  /\ FileFollowsDraft
  /\ DraftsOrdered
  /\ status <= pool
  /\ Parses => file.status <= file.pool

LEMMA InitStore == StoreInit => StoreInv
  <1> SUFFICES ASSUME StoreInit PROVE StoreInv
    OBVIOUS
  <1> USE FlusherAssumption, MaxProbesAssumption, MaxStartsAssumption
  <1>1. StoreTypeOK
    <2>1. pc \in [Flusher -> States] /\ draft \in [Flusher -> [pool : Version, status : Version]]
      BY DEF StoreInit, States, EmptyDraft, Version
    <2>2. file \in [pool : Piece, status : Piece, ended : BOOLEAN]
      BY DEF StoreInit, EmptyFile, Piece, Missing
    <2>3. starts \in 1..(MaxStarts + 1) /\ pool \in Version /\ status \in Version
      BY DEF StoreInit, Version
    <2>4. process \in Phases /\ recording \in BOOLEAN /\ mu \in SUBSET Flusher
      BY DEF StoreInit, Phases
    <2> QED
      BY <2>1, <2>2, <2>3, <2>4 DEF StoreTypeOK
  <1>2. ~Parses
    BY DEF StoreInit, Parses, EmptyFile
  <1> QED
    BY <1>1, <1>2 DEF StoreInit, StoreInv, WriterHolds, EndedIsIdle, FileFollowsDraft, DraftsOrdered,
      Writing, Alive, Flusher

(* A step of one flusher leaves the other where it is.                     *)
LEMMA FlushIInv ==
  ASSUME StoreInv, NEW f \in Flusher, ReadStatuses(f) \/ FlushStep(f)
  PROVE  StoreInv'
  <1> USE FlusherAssumption, MaxProbesAssumption, MaxStartsAssumption
  <1> USE DEF StoreInv, StoreTypeOK, WriterHolds, EndedIsIdle, FileFollowsDraft, DraftsOrdered, Writing,
        Alive, Goto, unsaved, Phases, States, Version, Piece, Missing, Parses
  <1>1. CASE ReadStatuses(f)
    BY <1>1 DEF ReadStatuses
  <1>2. CASE ReadPenalties(f)
    BY <1>2 DEF ReadPenalties
  <1>3. CASE Lock(f)
    BY <1>3 DEF Lock
  <1>4. CASE Open(f)
    BY <1>4, SMTT(30) DEF Open, EmptyFile
  <1>5. CASE WritePenalties(f)
    BY <1>5 DEF WritePenalties
  <1>6. CASE WriteStatuses(f)
    BY <1>6 DEF WriteStatuses
  <1>7. CASE WriteEnd(f)
    BY <1>7, SMTT(30) DEF WriteEnd, Return, EmptyDraft
  <1>8. CASE WriteFails(f)
    BY <1>8 DEF WriteFails, Return, EmptyDraft
  <1> QED
    BY <1>1, <1>2, <1>3, <1>4, <1>5, <1>6, <1>7, <1>8 DEF FlushStep

LEMMA EndsIInv ==
  ASSUME StoreInv, NEW how \in {"exited", "killed"}, Ends(how)
  PROVE  StoreInv'
  <1>1. StoreTypeOK'
    <2>1. /\ pc' \in [Flusher -> States]
          /\ draft' \in [Flusher -> [pool : Version, status : Version]]
      BY MaxProbesAssumption DEF Ends, States, EmptyDraft, Version
    <2> QED
      BY <2>1 DEF StoreInv, StoreTypeOK, Ends, Phases
  <1>2. \A f \in Flusher : pc'[f] = "idle"
    BY DEF Ends
  <1>3. (WriterHolds /\ EndedIsIdle /\ FileFollowsDraft /\ DraftsOrdered)'
    BY <1>2 DEF Ends, WriterHolds, EndedIsIdle, FileFollowsDraft, DraftsOrdered, Writing
  <1> QED
    BY <1>1, <1>3 DEF StoreInv, Ends, Parses

LEMMA NextStore == StoreInv /\ [StoreNext]_store => StoreInv'
  <1> SUFFICES ASSUME StoreInv, [StoreNext]_store PROVE StoreInv'
    OBVIOUS
  <1> USE FlusherAssumption, MaxProbesAssumption, MaxStartsAssumption
  <1>1. CASE \E f \in Flusher : ReadStatuses(f) \/ FlushStep(f)
    BY <1>1, FlushIInv
  <1> USE DEF StoreInv, StoreTypeOK, WriterHolds, EndedIsIdle, FileFollowsDraft, DraftsOrdered, Writing,
        Alive, Phases, States, Version, Piece, Missing, Parses, unsaved
  <1>2. CASE Mark
    BY <1>2 DEF Mark
  <1>3. CASE Record
    <2>1. StoreTypeOK'
      BY <1>3 DEF Record
    <2>2. (WriterHolds /\ EndedIsIdle /\ FileFollowsDraft /\ DraftsOrdered)'
      BY <1>3 DEF Record
    <2>3. status' <= pool'
      BY <1>3 DEF Record
    <2> QED
      BY <1>3, <2>1, <2>2, <2>3 DEF Record
  <1>4. CASE Signal
    BY <1>4 DEF Signal
  <1>5. CASE Exit
    BY <1>5, EndsIInv DEF Exit
  <1>6. CASE Kill
    BY <1>6, EndsIInv DEF Kill
  <1>7. CASE Start
    BY <1>7 DEF Start, Restore
  <1>8. CASE UNCHANGED store
    BY <1>8 DEF store
  <1> QED
    BY <1>1, <1>2, <1>3, <1>4, <1>5, <1>6, <1>7, <1>8 DEF StoreNext

-----------------------------------------------------------------------------
(* No restart brings back a node as failing but selectable: whatever was   *)
(* cut off or interleaved, the penalties in memory and in a file that      *)
(* parses are as new as the statuses (flushState, Save, Load).             *)
THEOREM PenaltiesKnowMore == StoreSpec => []PenaltiesNotOlder
  <1>1. StoreInv => PenaltiesNotOlder
    BY DEF StoreInv, PenaltiesNotOlder
  <1> QED
    BY InitStore, NextStore, <1>1, PTL DEF StoreSpec

-----------------------------------------------------------------------------
(* The state store: one snapshot                                           *)

Pair(piece) == [pool |-> piece.pool, status |-> piece.status]

(* Every draft that is complete was collected, and so was what parses.     *)
CInv ==
  /\ \A f \in Flusher : pc[f] \in {"saving"} \cup Writing => draft[f] \in collected
  /\ FileIsOneSnapshot

storeMC == <<store, collected>>

LEMMA InitCInv == InitMC => StoreInv /\ CInv
  <1> SUFFICES ASSUME InitMC PROVE StoreInv /\ CInv
    OBVIOUS
  <1>1. StoreInv
    BY InitStore DEF InitMC
  <1> QED
    BY <1>1 DEF InitMC, StoreInit, CInv, FileIsOneSnapshot, Parses, EmptyFile, Writing

(* What a flush collects when it has read both stores is recorded.         *)
LEMMA CollectedGrows ==
  ASSUME NextMC
  PROVE  /\ collected \subseteq collected'
         /\ \A f \in Flusher : Collects(f) => draft'[f] \in collected'
  BY DEF NextMC

LEMMA FlushCInv ==
  ASSUME StoreInv, CInv, NextMC, NEW f \in Flusher, ReadStatuses(f) \/ FlushStep(f)
  PROVE  CInv'
  <1> USE FlusherAssumption, CollectedGrows
  <1> USE DEF StoreInv, StoreTypeOK, WriterHolds, FileFollowsDraft, CInv, FileIsOneSnapshot, Writing, Goto,
        States, Parses
  <1>1. CASE ReadStatuses(f)
    BY <1>1 DEF ReadStatuses
  <1>2. CASE ReadPenalties(f)
    BY <1>2 DEF ReadPenalties, Collects
  <1>3. CASE Lock(f)
    BY <1>3 DEF Lock
  <1>4. CASE Open(f)
    BY <1>4 DEF Open, EmptyFile
  <1>5. CASE WritePenalties(f)
    BY <1>5 DEF WritePenalties
  <1>6. CASE WriteStatuses(f)
    BY <1>6 DEF WriteStatuses
  <1>7. CASE WriteEnd(f)
    BY <1>7 DEF WriteEnd, Return
  <1>8. CASE WriteFails(f)
    BY <1>8 DEF WriteFails, Return
  <1> QED
    BY <1>1, <1>2, <1>3, <1>4, <1>5, <1>6, <1>7, <1>8 DEF FlushStep

LEMMA NextCInv == StoreInv /\ CInv /\ [NextMC]_storeMC => StoreInv' /\ CInv'
  <1> SUFFICES ASSUME StoreInv, CInv, [NextMC]_storeMC PROVE StoreInv' /\ CInv'
    OBVIOUS
  <1>1. StoreInv'
    BY NextStore DEF NextMC, storeMC
  <1>2. ASSUME UNCHANGED storeMC PROVE CInv'
    <2>1. UNCHANGED <<pc, draft, file, collected>>
      BY <1>2 DEF storeMC, store
    <2> QED
      BY <2>1 DEF CInv, FileIsOneSnapshot, Parses
  <1>3. ASSUME NextMC PROVE CInv'
    <2>1. CASE \E f \in Flusher : ReadStatuses(f) \/ FlushStep(f)
      BY <1>3, <2>1, FlushCInv
    <2> USE <1>3, CollectedGrows DEF CInv, FileIsOneSnapshot, Parses
    <2>2. CASE Mark
      BY <2>2 DEF Mark
    <2>3. CASE Record
      BY <2>3 DEF Record
    <2>4. CASE Signal
      BY <2>4 DEF Signal, unsaved
    <2>5. CASE Exit
      BY <2>5 DEF Exit, Ends, Writing
    <2>6. CASE Kill
      BY <2>6 DEF Kill, Ends, Writing
    <2>7. CASE Start
      BY <2>7 DEF Start
    <2> QED
      BY <1>3, <2>1, <2>2, <2>3, <2>4, <2>5, <2>6, <2>7 DEF NextMC, StoreNext
  <1> QED
    BY <1>1, <1>2, <1>3

(* A file that parses holds one snapshot as a flush collected it, although *)
(* two goroutines rewrite it in place, any write may fail and the process  *)
(* may be killed at any point (Save holds the lock from end to end).       *)
THEOREM OneSnapshot == StoreFairSpecMC => []FileIsOneSnapshot
  <1>1. CInv => FileIsOneSnapshot
    BY DEF CInv
  <1> QED
    BY InitCInv, NextCInv, <1>1, PTL DEF StoreFairSpecMC, storeMC
=============================================================================
