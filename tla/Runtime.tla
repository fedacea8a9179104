------------------------------- MODULE Runtime -------------------------------
(***************************************************************************)
(* internal/app/runtime.go and refresher.go: how the refresher and the      *)
(* health checker, two goroutines, share the core, the published snapshot  *)
(* and the list of monitored nodes.                                        *)
(*                                                                         *)
(* The parts that have a module of their own appear as those modules show  *)
(* them: the core is down or runs one list (CoreLifecycle), a call of it   *)
(* is one step because it holds the service's mutex throughout             *)
(* (OneBoxHoldsPorts); a round ends with the nodes that have no penalty,   *)
(* or all of them when each has one, the best first (CandidatesAreRight);  *)
(* a failure lowers a score and a success never does (FailingNodesAreLast, *)
(* SuccessNeverHurts).                                                     *)
(*                                                                         *)
(* The world - which nodes the sources and the geo filter yield, and which *)
(* of them answer - changes at most MaxChanges times.                      *)
(***************************************************************************)
EXTENDS Integers, Sequences, FiniteSets, SequencesExt

CONSTANTS
  Sources,             \* every node a source may yield, in the sources' order
  Restored,            \* what the state file may hold of a node's score
  RefreshEnabled,      \* policy.refresh.enabled
  HealthCheckEnabled,  \* policy.health_check.enabled
  MaxChanges

ASSUME SourcesAssumption == Sources \in Seq(Nat) /\ Sources # <<>> /\ IsInjective(Sources)
ASSUME FlagsAssumption == {RefreshEnabled, HealthCheckEnabled} \subseteq BOOLEAN
ASSUME MaxChangesAssumption == MaxChanges \in Nat

Node == ToSet(Sources)

(* Four scores stand for 5..100: after a failure a node has one of the     *)
(* first two, which share the lowest bucket.                               *)
Score == 0..3
Blank == -1    \* a status without a score, from the file of an older version
Unknown == -2  \* no status
FreshScore == 3
Bucket(score) == IF score <= 1 THEN 0 ELSE score

ASSUME RestoredAssumption == Restored \subseteq Score \cup {Blank, Unknown}

Down == <<>>

VARIABLES
  offered,     \* the nodes the sources yield and the geo filter accepts now
  up,          \* the nodes that answer a probe now
  changes,
  phase,       \* of bootstrap's Run
  core,        \* the list the running core was built from, or Down
  published,   \* snapshot.Candidates, as (node, bucket) pairs
  nodes,       \* checker.nodes
  score,       \* checker.nodeStatuses
  refresher,   \* what RefreshOnce does next
  fresh,       \* filtered.Candidates of the refresh under way
  rebuild,     \* its rebuildNeeded
  checker,     \* what the checker's goroutine does next
  round,       \* the nodes of its current round
  probed,      \* how many of them it has probed
  failed,      \* those that did not answer
  candidates,  \* what the round ended with
  last,        \* checker.lastCandidates
  debounced    \* a rebuild of the checker is less than c.debounce ago

world == <<offered, up, changes>>
refreshing == <<refresher, fresh, rebuild>>
checking == <<checker, round, probed, failed, candidates, last, debounced>>
health == <<nodes, score>>
vars == <<world, phase, core, published, health, refreshing, checking>>

Entry == [node : Node, bucket : 0..3]

TypeOK ==
  /\ offered \subseteq Node
  /\ up \subseteq Node
  /\ changes \in 0..MaxChanges
  /\ phase \in {"starting", "running", "exited"}
  /\ core \in Seq(Node)
  /\ published \in Seq(Entry)
  /\ nodes \in Seq(Node)
  /\ score \in [Node -> Score \cup {Blank, Unknown}]
  /\ refresher \in {"idle", "comparing", "applying", "monitoring", "publishing"}
  /\ fresh \in Seq(Entry)
  /\ rebuild \in BOOLEAN
  /\ checker \in {"off", "waiting", "probing", "rebuilding", "monitoring"}
  /\ round \in Seq(Node)
  /\ probed \in 0..Len(round)
  /\ failed \subseteq Node
  /\ candidates \in Seq(Node)
  /\ last \in Seq(Node)
  /\ debounced \in BOOLEAN

(* The ways to put the members of a set into a list.                       *)
Listings(S) == {list \in [1..Cardinality(S) -> S] : ToSet(list) = S}

NodesOf(entries) == [i \in DOMAIN entries |-> entries[i].node]

Init ==
  /\ offered \in SUBSET Node
  /\ up \in SUBSET Node
  /\ changes = 0
  /\ phase = "starting"
  /\ core = Down
  /\ published = <<>>
  /\ nodes = <<>>
  /\ score \in [Node -> Restored]
  /\ refresher = "idle"
  /\ fresh = <<>>
  /\ rebuild = FALSE
  /\ checker = "off"
  /\ round = <<>>
  /\ probed = 0
  /\ failed = {}
  /\ candidates = <<>>
  /\ last = <<>>
  /\ debounced = FALSE

-----------------------------------------------------------------------------
(* The world.                                                              *)

ChangeOffer(set) ==
  /\ changes < MaxChanges
  /\ changes' = changes + 1
  /\ offered' = set
  /\ UNCHANGED <<up, phase, core, published, health, refreshing, checking>>

ChangeReach(set) ==
  /\ changes < MaxChanges
  /\ changes' = changes + 1
  /\ up' = set
  /\ UNCHANGED <<offered, phase, core, published, health, refreshing, checking>>

DebounceEnds ==
  /\ debounced
  /\ debounced' = FALSE
  /\ UNCHANGED <<world, phase, core, published, health, refreshing, checker, round,
                 probed, failed, candidates, last>>

-----------------------------------------------------------------------------
(* Shared operations.                                                      *)

(* Checker.SetNodes.                                                       *)
SetNodes(list) ==
  /\ nodes' = list
  /\ score' = [n \in Node |->
                 IF n \in ToSet(list) /\ score[n] = Unknown THEN FreshScore ELSE score[n]]

(* applyCandidates' choice of call, and the core's answer.  Start on a     *)
(* running core is refused; a failed call leaves no core.                  *)
StartRefused == published = <<>> /\ core # Down

Apply(list, works) ==
  core' = IF StartRefused THEN core ELSE IF works THEN list ELSE Down

-----------------------------------------------------------------------------
(* RefreshOnce, first called by Start, then by the refresher.              *)

MayCollect ==
  \/ phase = "starting" /\ published = <<>>
  \/ phase = "running" /\ RefreshEnabled

Position(n) == CHOOSE i \in DOMAIN Sources : Sources[i] = n

(* The filter keeps the order of the sources.                              *)
Accepted(list) == \A i, j \in DOMAIN list : i < j => Position(list[i]) < Position(list[j])

Unscored(list) == [i \in DOMAIN list |-> [node |-> list[i], bucket |-> 0]]

(* Sources read, nodes deduplicated, located and filtered.                 *)
Collect ==
  /\ refresher = "idle"
  /\ MayCollect
  /\ offered # {}
  /\ refresher' = "comparing"
  /\ \E list \in Listings(offered) : Accepted(list) /\ fresh' = Unscored(list)
  /\ UNCHANGED <<world, phase, core, published, health, rebuild, checking>>

(* Nothing is left after the filter: a failed refresh changes nothing, but *)
(* the program exits when it is the first one.                             *)
CollectFails ==
  /\ refresher = "idle"
  /\ phase = "starting" /\ published = <<>>
  /\ phase' = "exited"
  /\ UNCHANGED <<world, core, published, health, refreshing, checking>>

Scored(entries) ==
  [i \in DOMAIN entries |->
     LET n == entries[i].node
     IN  [node |-> n,
          bucket |-> Bucket(IF score[n] = Unknown THEN FreshScore ELSE score[n])]]

Compared == refresher = "comparing" /\ refresher' = "applying"

MutantCompareAlwaysRebuilds ==
  /\ Compared
  /\ fresh' = Scored(fresh)
  /\ rebuild' = TRUE
  /\ UNCHANGED <<world, phase, core, published, health, checking>>

(* The candidates take the checker's scores and are compared with those of *)
(* the last refresh: the nodes, their order and their buckets.             *)
Compare ==
  /\ Compared
  /\ fresh' = Scored(fresh)
  /\ rebuild' = (published # Scored(fresh))
  /\ UNCHANGED <<world, phase, core, published, health, checking>>

(* applyCandidates up to SetNodes; its error ends the refresh.             *)
RefreshApplies(works) ==
  /\ refresher = "applying"
  /\ LET applied == ~rebuild \/ (works /\ ~StartRefused)
     IN  /\ IF rebuild THEN Apply(NodesOf(fresh), works) ELSE UNCHANGED core
         /\ refresher' = IF applied THEN "monitoring" ELSE "idle"
         /\ phase' = IF ~applied /\ phase = "starting" THEN "exited" ELSE phase
  /\ UNCHANGED <<world, published, health, fresh, rebuild, checking>>

MutantMonitorsOld ==
  /\ refresher = "monitoring"
  /\ refresher' = "publishing"
  /\ UNCHANGED <<world, phase, core, published, health, fresh, rebuild, checking>>

(* applyCandidates' SetNodes.                                              *)
RefreshMonitors ==
  /\ refresher = "monitoring"
  /\ SetNodes(NodesOf(fresh))
  /\ refresher' = "publishing"
  /\ UNCHANGED <<world, phase, core, published, fresh, rebuild, checking>>

Publish ==
  /\ refresher = "publishing"
  /\ published' = fresh
  /\ refresher' = "idle"
  /\ fresh' = <<>>
  /\ rebuild' = FALSE
  /\ UNCHANGED <<world, phase, core, health, checking>>

MutantStartEarly ==
  /\ phase = "starting"
  /\ refresher = "publishing"
  /\ phase' = "running"
  /\ SetNodes(NodesOf(fresh))
  /\ checker' = "waiting"
  /\ UNCHANGED <<world, core, published, refreshing, round, probed, failed, candidates,
                 last, debounced>>

(* The rest of Start.                                                      *)
StartChecker ==
  /\ phase = "starting"
  /\ published # <<>> /\ refresher = "idle"
  /\ phase' = "running"
  /\ IF HealthCheckEnabled
       THEN SetNodes(NodesOf(published)) /\ checker' = "waiting"
       ELSE UNCHANGED <<nodes, score, checker>>
  /\ UNCHANGED <<world, core, published, refreshing, round, probed, failed, candidates,
                 last, debounced>>

-----------------------------------------------------------------------------
(* evaluateAndRebuild.                                                     *)

BeginRound ==
  /\ checker = "waiting"
  /\ nodes # <<>>
  /\ checker' = "probing"
  /\ round' = nodes
  /\ probed' = 0
  /\ failed' = {}
  /\ UNCHANGED <<world, phase, core, published, health, refreshing, candidates, last,
                 debounced>>

ProbeAnswered(n) ==
  /\ n \in up
  /\ UNCHANGED failed
  /\ \E better \in {s \in Score : s >= score[n]} : score' = [score EXCEPT ![n] = better]

ProbeFailed(n) ==
  /\ n \notin up
  /\ failed' = failed \cup {n}
  /\ \E worse \in {s \in 0..1 : s <= score[n] \/ score[n] = Blank} :
       score' = [score EXCEPT ![n] = worse]

Probe ==
  /\ checker = "probing"
  /\ probed < Len(round)
  /\ LET n == round[probed + 1] IN ProbeAnswered(n) \/ ProbeFailed(n)
  /\ probed' = probed + 1
  /\ UNCHANGED <<world, phase, core, published, nodes, refreshing, checker, round,
                 candidates, last, debounced>>

(* filterNodeStats: the free nodes or all, by score and then by key.  The  *)
(* round has marked each of its nodes in the penalty pool, so the pool has *)
(* those that failed, less the ones whose penalty is over by now: in a     *)
(* round longer than the penalty window, any that failed early.            *)
Free(forgiven) ==
  LET free == (ToSet(round) \ failed) \cup forgiven
  IN  IF free = {} THEN ToSet(round) ELSE free

Better(a, b) == score[a] > score[b] \/ (score[a] = score[b] /\ a < b)

Best(list) == \A i, j \in DOMAIN list : i < j => Better(list[i], list[j])

(* shouldRebuild compares the list with the last one it handed over, not   *)
(* with what the core runs.  (It compares buckets too, but takes both from *)
(* the same scores: HealthChecker.)                                        *)
EndRound(forgiven) ==
  /\ checker = "probing"
  /\ probed = Len(round)
  /\ \E list \in Listings(Free(forgiven)) :
       /\ Best(list)
       /\ IF list = last \/ debounced
            THEN checker' = "waiting" /\ UNCHANGED <<candidates, last, debounced>>
            ELSE /\ checker' = "rebuilding"
                 /\ candidates' = list
                 /\ last' = list
                 /\ debounced' = TRUE
  /\ round' = <<>>
  /\ probed' = 0
  /\ failed' = {}
  /\ UNCHANGED <<world, phase, core, published, health, refreshing>>

(* rebuildFn, that is applyCandidates; its error is dropped.               *)
CheckerApplies(works) ==
  /\ checker = "rebuilding"
  /\ Apply(candidates, works)
  /\ IF works /\ ~StartRefused
       THEN checker' = "monitoring" /\ UNCHANGED candidates
       ELSE checker' = "waiting" /\ candidates' = <<>>
  /\ UNCHANGED <<world, phase, published, health, refreshing, round, probed, failed,
                 last, debounced>>

CheckerMonitors ==
  /\ checker = "monitoring"
  /\ SetNodes(candidates)
  /\ checker' = "waiting"
  /\ candidates' = <<>>
  /\ UNCHANGED <<world, phase, core, published, refreshing, round, probed, failed,
                 last, debounced>>

-----------------------------------------------------------------------------

RefreshStep ==
  \/ Collect
  \/ Compare
  \/ \E works \in BOOLEAN : RefreshApplies(works)
  \/ RefreshMonitors
  \/ Publish

CheckStep ==
  \/ BeginRound
  \/ Probe
  \/ \E forgiven \in SUBSET failed : EndRound(forgiven)
  \/ \E works \in BOOLEAN : CheckerApplies(works)
  \/ CheckerMonitors

Next ==
  \/ \E set \in SUBSET Node : ChangeOffer(set) \/ ChangeReach(set)
  \/ DebounceEnds
  \/ RefreshStep
  \/ CollectFails
  \/ StartChecker
  \/ CheckStep

Spec == Init /\ [][Next]_vars

(* The two tickers keep firing, no source fails for ever, and time passes. *)
Fairness ==
  /\ WF_vars(RefreshStep)
  /\ WF_vars(StartChecker)
  /\ WF_vars(CheckStep)
  /\ WF_vars(DebounceEnds)

FairSpec == Spec /\ Fairness

-----------------------------------------------------------------------------

(* The checker works only once the first refresh has published, so no call *)
(* of applyCandidates chooses Start while a core runs: it would be refused *)
(* ("sing-box 服务已启动") and, from the checker, refused unseen.  Scores   *)
(* and the other variables keep their types.                               *)
StartNeverRefused ==
  /\ TypeOK
  /\ StartRefused => checker # "rebuilding" /\ ~(refresher = "applying" /\ rebuild)

(* A penalty ended before the round that imposed it.                       *)
ForgivenInRound == \E forgiven \in SUBSET failed : forgiven # {} /\ EndRound(forgiven)

(* Once the world is stable the core runs only nodes the sources and the   *)
(* filter yield now (or none, if a rebuild failed), whatever round that    *)
(* still probes the old list ends when; and whatever the two goroutines'   *)
(* SetNodes overwrite, all of them are among the nodes the checker probes. *)
(* Unless no node is left at all and every refresh fails, or rounds keep    *)
(* outlasting penalties: then the checker may find a change in every round *)
(* and hand the old list, which each of them begins with, over again.      *)
CoreFollowsWorld ==
  \/ <>[](offered = {})
  \/ []<><<ForgivenInRound>>_vars
  \/ <>[](ToSet(core) \subseteq offered \cap ToSet(nodes))

(* The two rebuilders do not undo each other's work for ever: in a stable  *)
(* world the core is replaced only finitely often, unless rounds keep      *)
(* outlasting penalties, so that failed nodes come and go.                 *)
Settles == []<><<ForgivenInRound>>_vars \/ <>[][core' = core]_vars

(* docs/geoloom.prd.md:135: a node that failed is not selected for 300      *)
(* seconds.  So one that never answers again, with others that do, is out  *)
(* of the core in the end, if rounds are shorter than penalties.  (Does    *)
(* not hold: a refresh puts it back because its score fell, and the        *)
(* checker, whose list is the one it handed over last, sees nothing to do.) *)
FailedNodesLeave ==
  \A n \in Node :
    <>[](n \notin up /\ offered \cap up # {}) =>
      []<><<ForgivenInRound>>_vars \/ <>[](n \notin ToSet(core))

=============================================================================
