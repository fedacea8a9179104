---------------------------- MODULE HealthChecker ----------------------------
(***************************************************************************)
(* internal/health/checker.go: the goroutine that probes the monitored     *)
(* nodes one after the other, keeps their scores and the penalty pool, and  *)
(* asks for a rebuild of the core when the candidate list changed.  The    *)
(* runtime may replace the monitored list (SetNodes) between any two steps. *)
(*                                                                         *)
(* Time is counted in ticks.  A probe takes at most Timeout of them;       *)
(* waiting for the next round and rebuilding take any number, and one tick *)
(* may pass between the two readings of the clock that filterNodeStats     *)
(* makes.  Everything else is faster than a tick.  The pool is used as     *)
(* PenaltyLedger describes it: until[n] <= now means no penalty.           *)
(***************************************************************************)
EXTENDS HealthScore, Sequences, FiniteSets, SequencesExt

CONSTANTS
  NodeKey,    \* node keys, numbered in the order sort.SliceStable gives them
  NodeLists,  \* the lists the runtime may monitor
  Saved,      \* the statuses the state file may hold
  Window,     \* penalty window
  Timeout,    \* c.timeout
  Debounce,   \* c.debounce
  MaxNow,     \* bound of the clock
  MaxProbes   \* bound of the probes of one node

ASSUME NodeKeyAssumption == NodeKey \subseteq Nat

ASSUME TimesAssumption ==
  /\ Window \in Nat \ {0} /\ Timeout \in Nat \ {0} /\ Debounce \in Nat
  /\ MaxNow \in Nat \ {0} /\ MaxProbes \in Nat

(* DedupNodes and the filter leave lists without repetition, and the       *)
(* runtime refuses an empty one.                                           *)
ASSUME NodeListsAssumption ==
  \A list \in NodeLists : list \in Seq(NodeKey) /\ list # <<>> /\ IsInjective(list)

ASSUME SavedAssumption == Saved \subseteq Restorable(MaxProbes)

NoStatus == [FreshStatus EXCEPT !.score = -1]

States == {"waiting", "probing", "recording", "filtering", "sorting", "deciding",
           "rebuilding"}

VARIABLES
  now,
  until,           \* [NodeKey -> Nat]: the penalty pool
  nodes,           \* c.nodes
  status,          \* c.nodeStatuses, NoStatus for an absent key
  lastCandidates,  \* c.lastCandidates
  lastRebuildAt,   \* c.lastRebuildAt, 0 for the zero time
  pc,
  spent,           \* ticks the current step has taken
  round,           \* the nodes this round probes (currentNodes)
  next,            \* index of the node being probed
  draft,           \* updatePenalties' local `status`
  available,       \* the set FilterCandidatesWithStats returned
  candidates,      \* the sorted result of filterNodeStats
  applied,         \* history: the keys rebuildFn last took without an error
  refused          \* history: whether its last call returned an error

vars == <<now, until, nodes, status, lastCandidates, lastRebuildAt, pc, spent, round,
          next, draft, available, candidates, applied, refused>>

locals == <<round, next, draft, available, candidates>>

history == <<applied, refused>>

Candidate == [key : NodeKey, score : 0..MaxScore]

TypeOK ==
  /\ now \in 1..MaxNow
  /\ until \in [NodeKey -> 0..(MaxNow + Window)]
  /\ nodes \in Seq(NodeKey)
  /\ status \in [NodeKey -> StatusType \cup {NoStatus}]
  /\ lastCandidates \in Seq(NodeKey)
  /\ lastRebuildAt \in 0..now
  /\ pc \in States
  /\ spent \in 0..Timeout
  /\ round \in Seq(NodeKey)
  /\ next \in 1..(Len(round) + 1)
  /\ draft \in StatusType
  /\ available \subseteq NodeKey
  /\ candidates \in Seq(Candidate)
  /\ applied \in Seq(NodeKey)
  /\ refused \in BOOLEAN

-----------------------------------------------------------------------------

Penalized(n) == until[n] > now

Known(n) == status[n] # NoStatus

Keys(list) == [i \in DOMAIN list |-> list[i].key]

Signature(list) ==
  [i \in DOMAIN list |-> <<list[i].key, ScoreBucket(list[i].score)>>]

MutantSetNodesForgets(list) ==
  /\ nodes' = list
  /\ status' = [n \in NodeKey |-> IF n \in ToSet(list) THEN FreshStatus ELSE status[n]]

(* SetNodes: a node that was seen before keeps its history.                *)
SetNodes(list) ==
  /\ nodes' = list
  /\ status' = [n \in NodeKey |->
                  IF n \in ToSet(list) /\ ~Known(n) THEN FreshStatus ELSE status[n]]

(* What RestoreSnapshot and the pool's Restore may find for a node in the  *)
(* state file: a status or none, a window with some of its time left or    *)
(* none, in every mixture, because the runtime reads the statuses and the  *)
(* pool one after the other when it saves them.                            *)
Restored == (Saved \cup {NoStatus}) \X ({0} \cup 2..(1 + Window))

(* Start hands over the first list before the goroutine runs.              *)
Init ==
  /\ now = 1
  /\ \E saved \in [NodeKey -> Restored], list \in NodeLists :
       /\ until = [n \in NodeKey |-> saved[n][2]]
       /\ nodes = list
       /\ status = [n \in NodeKey |->
                      IF n \in ToSet(list) /\ saved[n][1] = NoStatus
                        THEN FreshStatus ELSE saved[n][1]]
  /\ lastCandidates = <<>>
  /\ lastRebuildAt = 0
  /\ pc = "waiting"
  /\ spent = 0
  /\ round = <<>>
  /\ next = 1
  /\ draft = FreshStatus
  /\ available = {}
  /\ candidates = <<>>
  /\ applied = <<>>
  /\ refused = FALSE

Goto(to) == pc' = to /\ spent' = 0

TimeAllowed ==
  \/ pc \in {"waiting", "rebuilding"} /\ UNCHANGED spent
  \/ pc = "probing" /\ spent < Timeout /\ spent' = spent + 1
  \/ pc = "sorting" /\ spent < 1 /\ spent' = spent + 1

Tick ==
  /\ now < MaxNow
  /\ now' = now + 1
  /\ TimeAllowed
  /\ UNCHANGED <<until, nodes, status, lastCandidates, lastRebuildAt, pc, locals, history>>

(* A refresh changes the monitored list, whatever the goroutine is doing.  *)
RefreshSetsNodes(list) ==
  /\ SetNodes(list)
  /\ UNCHANGED <<now, until, lastCandidates, lastRebuildAt, pc, spent, locals,
                 history>>

BeginRound ==
  /\ pc = "waiting"
  /\ nodes # <<>>
  /\ round' = nodes
  /\ next' = 1
  /\ Goto("probing")
  /\ UNCHANGED <<now, until, nodes, status, lastCandidates, lastRebuildAt, draft,
                 available, candidates, history>>

Probes(n) == status[n].successCount + status[n].failureCount

MutantSuccessKeepsPenalty(n, reachable) ==
  until' = [until EXCEPT ![n] = IF reachable THEN @ ELSE now + Window]

(* pool.MarkSuccess or pool.MarkFailure.                                   *)
MarkResult(n, reachable) ==
  until' = [until EXCEPT ![n] = IF reachable THEN 0 ELSE now + Window]

(* The probe of the next node returns and marks the pool.                  *)
Probe(reachable) ==
  /\ pc = "probing"
  /\ LET n == round[next]
     IN  /\ Probes(n) < MaxProbes
         /\ MarkResult(n, reachable)
         /\ draft' = Counted(Read(status[n]), reachable)
  /\ Goto("recording")
  /\ UNCHANGED <<now, nodes, status, lastCandidates, lastRebuildAt, round, next,
                 available, candidates, history>>

MutantRecordUnpenalized ==
  /\ pc = "recording"
  /\ status' = [status EXCEPT ![round[next]] =
                  [draft EXCEPT !.score = ComputeScore(draft, FALSE)]]
  /\ next' = next + 1
  /\ draft' = FreshStatus
  /\ Goto(IF next = Len(round) THEN "filtering" ELSE "probing")
  /\ UNCHANGED <<now, until, nodes, lastCandidates, lastRebuildAt, round,
                 available, candidates, history>>

(* The score is computed with the pool's answer and the status written     *)
(* back.                                                                   *)
Record ==
  /\ pc = "recording"
  /\ LET n == round[next]
     IN  status' = [status EXCEPT ![n] =
                      [draft EXCEPT !.score = ComputeScore(draft, Penalized(n))]]
  /\ next' = next + 1
  /\ draft' = FreshStatus
  /\ Goto(IF next = Len(round) THEN "filtering" ELSE "probing")
  /\ UNCHANGED <<now, until, nodes, lastCandidates, lastRebuildAt, round,
                 available, candidates, history>>

Unpenalized == {n \in ToSet(round) : ~Penalized(n)}

(* FilterCandidatesWithStats: the free nodes, or all when none is free.    *)
Filter ==
  /\ pc = "filtering"
  /\ available' = IF Unpenalized = {} THEN ToSet(round) ELSE Unpenalized
  /\ Goto("sorting")
  /\ UNCHANGED <<now, until, nodes, status, lastCandidates, lastRebuildAt, round, next,
                 draft, candidates, history>>

(* The sort's order; penalties, asked for again, only count in a fallback. *)
Before(a, b) ==
  IF Penalized(a.key) # Penalized(b.key) THEN ~Penalized(a.key)
  ELSE IF a.score # b.score THEN a.score > b.score
  ELSE a.key < b.key

Stats == {[key |-> n, score |-> status[n].score] : n \in available}

Sort ==
  /\ pc = "sorting"
  /\ \E list \in [1..Cardinality(Stats) -> Stats] :
       /\ ToSet(list) = Stats
       /\ \A i, j \in DOMAIN list : i < j => Before(list[i], list[j])
       /\ candidates' = list
  /\ available' = {}
  /\ Goto("deciding")
  /\ UNCHANGED <<now, until, nodes, status, lastCandidates, lastRebuildAt, round, next,
                 draft, history>>

(* lastSignature takes the scores of now, not those the last list was      *)
(* handed with.                                                            *)
LastSignature ==
  [i \in DOMAIN lastCandidates |->
     <<lastCandidates[i], ScoreBucket(status[lastCandidates[i]].score)>>]

Unchanged ==
  /\ lastCandidates = Keys(candidates)
  /\ LastSignature = Signature(candidates)

Debounced == lastRebuildAt # 0 /\ now - lastRebuildAt < Debounce

EndRound == Goto("waiting") /\ candidates' = <<>>

MutantDecideCommitsFirst ==
  /\ pc = "deciding"
  /\ IF Unchanged
       THEN EndRound /\ UNCHANGED <<lastCandidates, lastRebuildAt>>
       ELSE /\ lastCandidates' = Keys(candidates)
            /\ IF Debounced
                 THEN EndRound /\ UNCHANGED lastRebuildAt
                 ELSE /\ lastRebuildAt' = now
                      /\ Goto("rebuilding") /\ UNCHANGED candidates
  /\ UNCHANGED <<now, until, nodes, status, round, next, draft, available, history>>

(* shouldRebuild, and the call of rebuildFn when it says yes.              *)
Decide ==
  /\ pc = "deciding"
  /\ IF Unchanged \/ Debounced
       THEN EndRound /\ UNCHANGED <<lastCandidates, lastRebuildAt>>
       ELSE /\ lastCandidates' = Keys(candidates)
            /\ lastRebuildAt' = now
            /\ Goto("rebuilding") /\ UNCHANGED candidates
  /\ UNCHANGED <<now, until, nodes, status, round, next, draft, available, history>>

(* Runtime.applyCandidates: when the core is rebuilt the candidates become *)
(* the monitored list; its error is ignored by the checker.                *)
Rebuild(succeeds) ==
  /\ pc = "rebuilding"
  /\ IF succeeds
       THEN SetNodes(Keys(candidates)) /\ applied' = Keys(candidates)
       ELSE UNCHANGED <<nodes, status, applied>>
  /\ refused' = ~succeeds
  /\ EndRound
  /\ UNCHANGED <<now, until, lastCandidates, lastRebuildAt, round, next, draft,
                 available>>

Next ==
  \/ Tick
  \/ \E list \in NodeLists : RefreshSetsNodes(list)
  \/ BeginRound
  \/ \E reachable \in BOOLEAN : Probe(reachable)
  \/ Record
  \/ Filter
  \/ Sort
  \/ Decide
  \/ \E succeeds \in BOOLEAN : Rebuild(succeeds)

Spec == Init /\ [][Next]_vars

-----------------------------------------------------------------------------

Answered(n) == status[n].consecutiveFailures = 0

Answering == {n \in ToSet(round) : Answered(n)}

(* With the program's 300 s window and 5 s timeout, up to 60 nodes.        *)
RoundFitsWindow == (Len(round) - 1) * Timeout < Window

(* The nodes a round may end with: every one that answered, and one that   *)
(* did not only if its penalty is over, or if nobody answered and all are  *)
(* penalised.  When the round fits into a window no penalty is over.       *)
Admissible(chosen) ==
  /\ Answering \subseteq chosen
  /\ chosen \subseteq ToSet(round)
  /\ \/ \A n \in chosen : ~Penalized(n)
     \/ Answering = {} /\ chosen = ToSet(round)
  /\ chosen # {}
  /\ RoundFitsWindow => chosen = IF Answering = {} THEN ToSet(round) ELSE Answering

(* None that answered is held back by an old penalty, and none that failed *)
(* slips through, however long the round took and whatever SetNodes did    *)
(* meanwhile, except those whose window ended inside the round, which must *)
(* then have been longer than a window.                                    *)
CandidatesAreTheAnswering ==
  pc \in {"deciding", "rebuilding"} => Admissible(ToSet(Keys(candidates)))

(* The best come first, which the builder relies on for its top-K cut: no  *)
(* candidate is preceded by one with a lower score, except that a node     *)
(* whose window just ended goes before the others of an all-penalised list. *)
CandidatesAreRanked ==
  pc \in {"deciding", "rebuilding"} =>
    \A i, j \in DOMAIN candidates :
      i < j /\ candidates[i].score < candidates[j].score =>
        \A k \in DOMAIN candidates : ~Answered(candidates[k].key)

(* The list that is handed over, in a state of the right types.            *)
CandidatesAreRight ==
  /\ TypeOK
  /\ CandidatesAreTheAnswering
  /\ CandidatesAreRanked

(* Between rounds a node of the last round that is still penalised has a   *)
(* score of the lowest bucket, even if the state file said otherwise:      *)
(* score and pool, two stores written in two steps, agree.                 *)
PenaltyShowsInScore ==
  pc \in {"waiting", "filtering", "sorting", "deciding", "rebuilding"} =>
    \A n \in ToSet(round) : Penalized(n) => ScoreBucket(status[n].score) = 0

(* No counter of a node ever goes back and no node is forgotten, although  *)
(* SetNodes may run between a probe's reading of the status and its        *)
(* writing it back.                                                        *)
HistoryIsKept ==
  [][\A n \in NodeKey : Known(n) =>
       /\ status'[n] # NoStatus
       /\ status'[n].failureCount >= status[n].failureCount
       /\ status'[n].successCount >= status[n].successCount]_vars

(* A new order of the candidates reaches the core: a round that ends       *)
(* without a rebuild is inside the debounce time, and leaves a change for  *)
(* the next round to find, or found exactly the order the core last took   *)
(* from the checker.  Unless that core's rebuild failed: it is not tried   *)
(* again until the order changes once more.  Nothing is said of buckets:   *)
(* because of LastSignature the checker cannot see one change.             *)
NewOrderIsApplied ==
  [][(pc = "deciding" /\ pc' = "waiting") =>
       \/ now - lastRebuildAt < Debounce
       \/ Keys(candidates) = applied
       \/ refused]_vars
=============================================================================
