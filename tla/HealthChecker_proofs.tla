------------------------- MODULE HealthChecker_proofs -------------------------
(***************************************************************************)
(* What a round of the checker hands over, for any number of nodes, any    *)
(* lists the runtime sets, any times and anything the state file holds;    *)
(* what the history of one node does to its score; and that the checker    *)
(* gives every node such a history.                                        *)
(***************************************************************************)
EXTENDS HealthChecker, ProbeHistory, FiniteSetTheorems, SequenceTheorems, TLAPS

USE NodeKeyAssumption, TimesAssumption

-----------------------------------------------------------------------------
(* The inductive invariant                                                 *)

Proper(list) == IsInjective(list) /\ \A n \in ToSet(list) : Known(n)

(* Where the round stands; outside of it, all of the last one is past.     *)
Place ==
  /\ IF pc \in {"probing", "recording"} THEN next <= Len(round) ELSE next = Len(round) + 1
  /\ pc # "waiting" => round # <<>>

(* Score and pool tell the same of a node whose probe is recorded.         *)
Agree(n) ==
  /\ Answered(n) => until[n] = 0
  /\ ~Answered(n) => ScoreBucket(status[n].score) = 0

PastAgrees == \A i \in 1..(next - 1) : Agree(round[i])

(* The time from a probe to now: at most Timeout for each one after it.    *)
Elapsed(i) ==
  IF pc = "recording" THEN (next - i) * Timeout ELSE spent + (next - i - 1) * Timeout

WindowsLast ==
  pc \in {"probing", "recording", "filtering"} =>
    /\ pc = "filtering" => spent = 0
    /\ \A i \in 1..(next - 1) :
         ~Answered(round[i]) => until[round[i]] + Elapsed(i) >= now + Window

(* The status that is about to be written goes with the mark in the pool   *)
(* and is not behind the one it replaces.                                  *)
DraftGoesOn ==
  pc = "recording" =>
    LET n == round[next]
    IN  /\ until[n] = IF draft.consecutiveFailures = 0 THEN 0 ELSE now + Window
        /\ draft.failureCount >= status[n].failureCount
        /\ draft.successCount >= status[n].successCount
        /\ draft.consecutiveFailures # 0 => draft.failureCount # 0

AvailableIsRight == pc = "sorting" => Admissible(available)

CandidatesArePossible ==
  pc \in {"deciding", "rebuilding"} =>
    /\ CandidatesAreTheAnswering
    /\ CandidatesAreRanked
    /\ IsInjective(Keys(candidates))

AppliedIsLast ==
  /\ pc = "rebuilding" => lastCandidates = Keys(candidates)
  /\ pc # "rebuilding" /\ ~refused => lastCandidates = applied

IInv ==
  /\ TypeOK
  /\ Proper(nodes) /\ Proper(round)
  /\ Place
  /\ PastAgrees
  /\ WindowsLast
  /\ DraftGoesOn
  /\ AvailableIsRight
  /\ CandidatesArePossible
  /\ AppliedIsLast

-----------------------------------------------------------------------------
(* Facts about the operators                                               *)

LEMMA StatusFacts ==
  /\ FreshStatus \in StatusType
  /\ NoStatus \notin StatusType
  /\ NoStatus.failureCount = 0 /\ NoStatus.successCount = 0
  BY DEF FreshStatus, StatusType, NoStatus, MaxScore

(* A stored status before a probe, its counters after it.                  *)
LEMMA CountedFacts ==
  ASSUME NEW s \in StatusType, NEW reachable \in BOOLEAN
  PROVE  /\ Counted(Read(s), reachable) \in StatusType
         /\ Counted(Read(s), reachable).failureCount >= s.failureCount
         /\ Counted(Read(s), reachable).successCount >= s.successCount
         /\ Counted(Read(s), reachable).consecutiveFailures # 0 =>
              Counted(Read(s), reachable).failureCount # 0
         /\ Counted(Read(s), reachable).consecutiveFailures = 0 <=> reachable
  <1>1. /\ Read(s) \in StatusType
        /\ Read(s).failureCount = s.failureCount /\ Read(s).successCount = s.successCount
    <2>1. CASE s.score = 0
      BY <2>1 DEF Read, StatusType, MaxScore
    <2>2. CASE s.score # 0
      BY <2>2 DEF Read
    <2> QED
      BY <2>1, <2>2
  <1>2. CASE reachable
    BY <1>1, <1>2 DEF Counted, Succeeded, StatusType
  <1>3. CASE ~reachable
    BY <1>1, <1>3 DEF Counted, Failed, StatusType
  <1> QED
    BY <1>2, <1>3

(* A failure with its penalty lands in the lowest bucket.                  *)
LEMMA ScoreFacts ==
  ASSUME NEW s \in StatusType, NEW withPenalty \in BOOLEAN
  PROVE  /\ ComputeScore(s, withPenalty) \in 0..MaxScore
         /\ s.consecutiveFailures # 0 /\ s.failureCount # 0 /\ withPenalty =>
              ScoreBucket(ComputeScore(s, withPenalty)) = 0
  <1>1. /\ s.successCount \in 0..4 /\ s.failureCount \in Nat /\ s.consecutiveFailures \in Nat
    BY DEF StatusType
  <1>2. RawScore(s, withPenalty) \in Int
    BY <1>1 DEF RawScore, Penalty, MaxScore
  <1>3. ASSUME s.consecutiveFailures # 0, s.failureCount # 0, withPenalty
        PROVE  RawScore(s, withPenalty) < 40
    <2>1. Penalty(s.consecutiveFailures > 0, 20) = 20 /\ Penalty(withPenalty, 35) = 35
      BY <1>1, <1>3 DEF Penalty
    <2>2. PICK c \in Nat \ {0}, f \in Nat \ {0}, k \in 0..4 :
            c = s.consecutiveFailures /\ f = s.failureCount /\ k = s.successCount
      BY <1>1, <1>3
    <2>3. RawScore(s, withPenalty) = 100 - 20 - 15 * c - 5 * f + 3 * k - 35
      BY <1>3, <2>1, <2>2 DEF RawScore, MaxScore
    <2> QED
      BY <2>3
  <1> QED
    BY <1>2, <1>3 DEF ComputeScore, Clamp, ScoreBucket, MinScore, MaxScore

LEMMA AfterProbeType ==
  ASSUME NEW s \in StatusType, NEW reachable \in BOOLEAN, NEW withPenalty \in BOOLEAN
  PROVE  AfterProbe(s, reachable, withPenalty) \in StatusType
  <1>1. Counted(Read(s), reachable) \in StatusType
    BY CountedFacts
  <1>2. ComputeScore(Counted(Read(s), reachable), withPenalty) \in 0..MaxScore
    BY <1>1, ScoreFacts
  <1> QED
    BY <1>1, <1>2 DEF AfterProbe, StatusType

(* A restored status: its counters, and its score or none.                 *)
LEMMA RestorableFacts ==
  ASSUME NEW maxFailures \in Nat, NEW s \in Restorable(maxFailures)
  PROVE  s \in StatusType
  <1> DEFINE counters == [successCount : 0..4, failureCount : 0..maxFailures,
                          consecutiveFailures : 0..maxFailures, score : {0}]
  <1>1. \A c \in counters : c \in StatusType
    BY DEF StatusType, MaxScore
  <1>2. \A c \in StatusType : ComputeScore(c, c.consecutiveFailures > 0) \in 0..MaxScore
    <2> SUFFICES ASSUME NEW c \in StatusType
                 PROVE  ComputeScore(c, c.consecutiveFailures > 0) \in 0..MaxScore
      OBVIOUS
    <2>1. (c.consecutiveFailures > 0) \in BOOLEAN
      OBVIOUS
    <2> QED
      BY <2>1, ScoreFacts
  <1>3. \A c \in StatusType, n \in 0..MaxScore : [c EXCEPT !.score = n] \in StatusType
    BY DEF StatusType
  <1>4. \/ s \in counters
        \/ \E c \in counters : s = [c EXCEPT !.score = ComputeScore(c, c.consecutiveFailures > 0)]
    BY DEF Restorable
  <1> QED
    BY <1>1, <1>2, <1>3, <1>4

LEMMA InitialStatuses ==
  ASSUME NEW saved \in Restored
  PROVE  /\ saved[1] \in Saved \cup {NoStatus}
         /\ saved[1] \in StatusType \cup {NoStatus}
         /\ saved[2] \in 0..(1 + Window)
  <1>1. saved[1] \in Saved \cup {NoStatus} /\ saved[2] \in {0} \cup 2..(1 + Window)
    BY DEF Restored
  <1> QED
    BY <1>1, RestorableFacts, SavedAssumption

(* SetNodes keeps every history and knows every node of the list.          *)
LEMMA SetNodesFacts ==
  ASSUME status \in [NodeKey -> StatusType \cup {NoStatus}], NEW list \in Seq(NodeKey),
         SetNodes(list)
  PROVE  /\ nodes' = list
         /\ status' \in [NodeKey -> StatusType \cup {NoStatus}]
         /\ \A n \in NodeKey : Known(n) => status'[n] = status[n]
         /\ \A n \in NodeKey : ~Known(n) => status'[n] \in {NoStatus, FreshStatus}
         /\ \A n \in ToSet(list) : status'[n] # NoStatus
  BY StatusFacts DEF SetNodes, Known, ToSet

LEMMA Products ==
  ASSUME NEW a \in Int, NEW b \in Int, a <= b
  PROVE  /\ a * Timeout \in Int
         /\ a * Timeout <= b * Timeout
         /\ (a + 1) * Timeout = a * Timeout + Timeout
  OBVIOUS

-----------------------------------------------------------------------------
(* The inductive invariant holds                                           *)

LEMMA InitIInv == Init => IInv
  <1> SUFFICES ASSUME Init PROVE IInv
    OBVIOUS
  <1>1. PICK saved \in [NodeKey -> Restored], list \in NodeLists :
          /\ until = [n \in NodeKey |-> saved[n][2]]
          /\ nodes = list
          /\ status = [n \in NodeKey |->
                         IF n \in ToSet(list) /\ saved[n][1] = NoStatus
                           THEN FreshStatus ELSE saved[n][1]]
    BY DEF Init
  <1>2. \A n \in NodeKey : /\ saved[n][1] \in StatusType \cup {NoStatus}
                           /\ saved[n][2] \in 0..(1 + Window)
    BY InitialStatuses
  <1>3. /\ until \in [NodeKey -> 0..(MaxNow + Window)]
        /\ status \in [NodeKey -> StatusType \cup {NoStatus}]
    BY <1>1, <1>2, StatusFacts
  <1>4. TypeOK
    <2>1. nodes \in Seq(NodeKey)
      BY <1>1, NodeListsAssumption
    <2>2. /\ pc \in States /\ spent \in 0..Timeout /\ next \in 1..(Len(round) + 1)
          /\ now \in 1..MaxNow /\ lastRebuildAt \in 0..now
      BY DEF Init, States
    <2>3. /\ lastCandidates \in Seq(NodeKey) /\ round \in Seq(NodeKey)
          /\ candidates \in Seq(Candidate) /\ applied \in Seq(NodeKey) /\ refused \in BOOLEAN
      <3>1. /\ lastCandidates = <<>> /\ round = <<>> /\ candidates = <<>> /\ applied = <<>>
            /\ refused = FALSE
        BY DEF Init
      <3>2. refused \in BOOLEAN
        BY <3>1
      <3>3. \A S : <<>> \in Seq(S)
        BY EmptySeq
      <3> QED
        BY <3>1, <3>2, <3>3, Zenon
    <2> QED
      BY <1>3, <2>1, <2>2, <2>3, StatusFacts DEF Init, TypeOK
  <1>5. Proper(nodes)
    <2>1. ToSet(list) \subseteq NodeKey
      BY NodeListsAssumption DEF ToSet
    <2>2. \A n \in ToSet(list) : Known(n)
      BY <1>1, <2>1, StatusFacts DEF Known
    <2> QED
      BY <1>1, <2>2, NodeListsAssumption DEF Proper
  <1>6. Proper(round) /\ Place /\ PastAgrees
    <2>1. round = <<>> /\ Len(round) = 0 /\ DOMAIN round = {} /\ next = 1 /\ pc = "waiting"
      BY DEF Init
    <2> QED
      BY <2>1 DEF Proper, IsInjective, ToSet, Place, PastAgrees
  <1>7. AppliedIsLast
    BY DEF Init, AppliedIsLast
  <1> QED
    BY <1>4, <1>5, <1>6, <1>7 DEF Init, IInv, WindowsLast, DraftGoesOn, AvailableIsRight,
      CandidatesArePossible

(* Nothing a round relies on changes with the monitored list: the nodes it *)
(* probes are known, and SetNodes leaves those alone.                      *)
LEMMA RoundNodes ==
  ASSUME TypeOK, Proper(round)
  PROVE  /\ \A n \in ToSet(round) : n \in NodeKey /\ Known(n) /\ status[n] \in StatusType
         /\ \A i \in 1..Len(round) : round[i] \in ToSet(round)
         /\ \A i, j \in 1..Len(round) : round[i] = round[j] => i = j
  <1>1. /\ \A i \in 1..Len(round) : round[i] \in ToSet(round)
        /\ \A n \in ToSet(round) : n \in NodeKey
    BY DEF TypeOK, ToSet
  <1>2. \A n \in ToSet(round) : Known(n) /\ status[n] \in StatusType
    BY <1>1 DEF TypeOK, Proper, Known
  <1>3. \A i, j \in 1..Len(round) : round[i] = round[j] => i = j
    <2>1. DOMAIN round = 1..Len(round)
      BY DEF TypeOK
    <2> QED
      BY <2>1 DEF Proper, IsInjective
  <1> QED
    BY <1>1, <1>2, <1>3

(* A step that leaves the round and its statuses alone.                    *)
LEMMA RoundKept ==
  ASSUME IInv, UNCHANGED <<round, next, until>>,
         \A n \in ToSet(round) : status'[n] = status[n]
  PROVE  /\ PastAgrees'
         /\ \A n \in ToSet(round) : Answered(n)' <=> Answered(n)
         /\ Answering' = Answering
  <1>1. \A n \in ToSet(round) : Answered(n)' <=> Answered(n)
    BY DEF Answered
  <1>2. \A i \in 1..(next - 1) : round[i] \in ToSet(round)
    BY RoundNodes DEF IInv, TypeOK
  <1>3. PastAgrees'
    BY <1>1, <1>2 DEF IInv, PastAgrees, Agree
  <1>4. Answering' = Answering
    BY <1>1 DEF Answering
  <1> QED
    BY <1>1, <1>3, <1>4

LEMMA UntilType ==
  ASSUME TypeOK, NEW n \in NodeKey
  PROVE  until[n] \in Int /\ until[n] >= 0
  <1>1. until[n] \in 0..(MaxNow + Window)
    BY DEF TypeOK
  <1> QED
    BY <1>1

(* A choice that is admissible remains so: time only ends penalties.       *)
LEMMA AdmissibleKept ==
  ASSUME TypeOK, NEW S, Admissible(S), UNCHANGED <<round, until>>, now' \in Int, now' >= now,
         Answering' = Answering
  PROVE  Admissible(S)'
  <1>1. RoundFitsWindow' <=> RoundFitsWindow
    BY DEF RoundFitsWindow
  <1>2. S \subseteq NodeKey
    BY DEF Admissible, TypeOK, ToSet
  <1>3. \A n \in S : ~Penalized(n) => ~Penalized(n)'
    <2>1. \A n \in S : until[n] \in Int
      BY <1>2, UntilType
    <2>2. now \in Int
      BY DEF TypeOK
    <2> QED
      BY <2>1, <2>2 DEF Penalized
  <1> QED
    BY <1>1, <1>3 DEF Admissible

(* So with the sets a round passes on.                                     *)
LEMMA ChoiceKept ==
  ASSUME IInv, UNCHANGED <<round, until, pc, available, candidates>>,
         now' \in Int, now' >= now, Answering' = Answering
  PROVE  AvailableIsRight' /\ CandidatesAreTheAnswering'
  <1>1. AvailableIsRight'
    <2> SUFFICES ASSUME pc = "sorting" PROVE Admissible(available)'
      BY DEF AvailableIsRight
    <2>1. PICK S : S = available
      OBVIOUS
    <2>2. Admissible(S)'
      BY <2>1, AdmissibleKept DEF IInv, AvailableIsRight
    <2> QED
      BY <2>1, <2>2
  <1>2. CandidatesAreTheAnswering'
    <2> SUFFICES ASSUME pc \in {"deciding", "rebuilding"}
                 PROVE  Admissible(ToSet(Keys(candidates)))'
      BY DEF CandidatesAreTheAnswering
    <2>1. PICK S : S = ToSet(Keys(candidates))
      OBVIOUS
    <2>2. Admissible(S)'
      BY <2>1, AdmissibleKept DEF IInv, CandidatesArePossible, CandidatesAreTheAnswering
    <2>3. ToSet(Keys(candidates))' = S
      BY <2>1 DEF Keys, ToSet
    <2> QED
      BY <2>2, <2>3
  <1> QED
    BY <1>1, <1>2

(* The candidates are nodes of the round.                                  *)
LEMMA CandidatesInRound ==
  ASSUME IInv, pc \in {"deciding", "rebuilding"}
  PROVE  /\ Keys(candidates) \in Seq(NodeKey)
         /\ Len(Keys(candidates)) = Len(candidates)
         /\ \A k \in DOMAIN candidates : candidates[k].key \in ToSet(round)
  <1>1. candidates \in Seq(Candidate)
    BY DEF IInv, TypeOK
  <1>2. /\ Keys(candidates) \in Seq(NodeKey) /\ Len(Keys(candidates)) = Len(candidates)
        /\ DOMAIN Keys(candidates) = DOMAIN candidates
    <2>1. /\ Len(candidates) \in Nat /\ DOMAIN candidates = 1..Len(candidates)
          /\ \A i \in 1..Len(candidates) : candidates[i].key \in NodeKey
      <3>1. \A i \in 1..Len(candidates) : candidates[i] \in Candidate
        BY <1>1
      <3>2. \A c \in Candidate : c.key \in NodeKey
        BY DEF Candidate
      <3> QED
        BY <1>1, <3>1, <3>2
    <2>2. Keys(candidates) \in [1..Len(candidates) -> NodeKey]
      BY <2>1 DEF Keys
    <2> QED
      BY <2>1, <2>2, SeqDef
  <1>3. ToSet(Keys(candidates)) \subseteq ToSet(round)
    BY DEF IInv, CandidatesArePossible, CandidatesAreTheAnswering, Admissible
  <1>4. \A k \in DOMAIN candidates : candidates[k].key \in ToSet(Keys(candidates))
    BY <1>2 DEF Keys, ToSet
  <1> QED
    BY <1>2, <1>3, <1>4

LEMMA RefreshIInv ==
  ASSUME IInv, NEW list \in NodeLists, RefreshSetsNodes(list)
  PROVE  IInv'
  <1> USE DEF IInv
  <1>1. /\ list \in Seq(NodeKey) /\ IsInjective(list)
        /\ ToSet(list) \subseteq NodeKey
    BY NodeListsAssumption DEF ToSet
  <1>2. UNCHANGED <<now, until, lastCandidates, lastRebuildAt, pc, spent, round, next, draft,
                    available, candidates, applied, refused>>
    BY DEF RefreshSetsNodes, locals, history
  <1>3. /\ nodes' = list
        /\ status' \in [NodeKey -> StatusType \cup {NoStatus}]
        /\ \A n \in NodeKey : Known(n) => status'[n] = status[n]
        /\ \A n \in ToSet(list) : status'[n] # NoStatus
    BY <1>1, SetNodesFacts DEF RefreshSetsNodes, TypeOK
  <1>4. \A n \in ToSet(round) : n \in NodeKey /\ status'[n] = status[n] /\ Known(n)
    BY <1>3, RoundNodes
  <1>5. TypeOK'
    BY <1>1, <1>2, <1>3 DEF TypeOK
  <1>6. Proper(nodes)' /\ Proper(round)'
    BY <1>1, <1>2, <1>3, <1>4 DEF Proper, Known
  <1>7. /\ PastAgrees'
        /\ \A n \in ToSet(round) : Answered(n)' <=> Answered(n)
        /\ Answering' = Answering
    BY <1>2, <1>4, RoundKept
  <1>8. /\ \A i \in 1..(next - 1) : round[i] \in ToSet(round)
        /\ pc = "recording" => round[next] \in ToSet(round)
    BY RoundNodes DEF TypeOK, Place
  <1>9. WindowsLast' /\ DraftGoesOn'
    <2>1. WindowsLast'
      BY <1>2, <1>7, <1>8 DEF WindowsLast, Elapsed
    <2>2. DraftGoesOn'
      BY <1>2, <1>4, <1>8 DEF DraftGoesOn
    <2> QED
      BY <2>1, <2>2
  <1>10. AvailableIsRight' /\ CandidatesAreTheAnswering'
    BY <1>2, <1>7, ChoiceKept DEF TypeOK
  <1>11. CandidatesArePossible'
    <2> SUFFICES ASSUME pc \in {"deciding", "rebuilding"} PROVE CandidatesArePossible'
      BY <1>2 DEF CandidatesArePossible
    <2>2. CandidatesAreRanked'
      BY <1>2, <1>7, CandidatesInRound DEF CandidatesArePossible, CandidatesAreRanked
    <2> QED
      BY <1>2, <1>10, <2>2 DEF CandidatesArePossible, Keys
  <1> QED
    BY <1>2, <1>5, <1>6, <1>7, <1>9, <1>10, <1>11 DEF Place, AppliedIsLast

LEMMA TickIInv ==
  ASSUME IInv, Tick
  PROVE  IInv'
  <1> USE DEF IInv
  <1>1. /\ UNCHANGED <<until, nodes, status, lastCandidates, lastRebuildAt, pc, round, next,
                       draft, available, candidates, applied, refused>>
        /\ now' = now + 1 /\ now < MaxNow /\ TimeAllowed
    BY DEF Tick, locals, history
  <1>2. pc \notin {"recording", "filtering"} /\ spent' \in 0..Timeout
    BY <1>1 DEF TimeAllowed, TypeOK
  <1>3. TypeOK'
    BY <1>1, <1>2 DEF TypeOK
  <1>4. WindowsLast'
    <2> SUFFICES ASSUME pc = "probing", NEW i \in 1..(next - 1), ~Answered(round[i])
                 PROVE  until[round[i]] + Elapsed(i)' >= now' + Window
      BY <1>1, <1>2 DEF WindowsLast, Answered
    <2>1. until[round[i]] + Elapsed(i) >= now + Window
      BY DEF WindowsLast
    <2>2. Elapsed(i)' = Elapsed(i) + 1
      <3>1. spent' = spent + 1
        BY <1>1 DEF TimeAllowed
      <3>2. (next - i - 1) * Timeout \in Int
        BY Products DEF TypeOK
      <3> QED
        BY <1>1, <3>1, <3>2 DEF Elapsed, TypeOK
    <2>3. until[round[i]] \in Int /\ Elapsed(i) \in Int
      <3>1. until[round[i]] \in Int
        <4>1. i \in 1..Len(round)
          BY DEF TypeOK
        <4>2. round[i] \in NodeKey
          BY <4>1, RoundNodes
        <4> QED
          BY <4>2, UntilType
      <3>2. (next - i - 1) * Timeout \in Int
        BY Products DEF TypeOK
      <3>3. Elapsed(i) = spent + (next - i - 1) * Timeout /\ spent \in Int
        BY DEF Elapsed, TypeOK
      <3> QED
        BY <3>1, <3>2, <3>3
    <2> QED
      BY <1>1, <2>1, <2>2, <2>3 DEF TypeOK
  <1>5. AvailableIsRight' /\ CandidatesArePossible'
    <2>1. Answering' = Answering
      BY <1>1 DEF Answering, Answered
    <2>2. AvailableIsRight' /\ CandidatesAreTheAnswering'
      BY <1>1, <2>1, ChoiceKept DEF TypeOK
    <2> QED
      BY <1>1, <2>2 DEF CandidatesArePossible, CandidatesAreRanked, Answered, Keys
  <1> QED
    BY <1>1, <1>2, <1>3, <1>4, <1>5 DEF Proper, Known, Place, PastAgrees, Agree, Answered,
      DraftGoesOn, AppliedIsLast

LEMMA BeginRoundIInv ==
  ASSUME IInv, BeginRound
  PROVE  IInv'
  <1> USE DEF IInv
  <1>1. /\ UNCHANGED <<now, until, nodes, status, lastCandidates, lastRebuildAt, draft,
                       available, candidates, applied, refused>>
        /\ round' = nodes /\ nodes # <<>> /\ next' = 1 /\ spent' = 0
        /\ pc = "waiting" /\ pc' = "probing"
    BY DEF BeginRound, Goto, history
  <1>2. Len(nodes) \in Nat \ {0}
    BY <1>1, EmptySeq DEF TypeOK
  <1>3. TypeOK'
    BY <1>1, <1>2 DEF TypeOK, States
  <1>4. Proper(nodes)' /\ Proper(round)'
    BY <1>1 DEF Proper, Known
  <1>5. Place' /\ PastAgrees' /\ WindowsLast'
    BY <1>1, <1>2 DEF Place, PastAgrees, WindowsLast
  <1> QED
    BY <1>1, <1>3, <1>4, <1>5 DEF DraftGoesOn, AvailableIsRight, CandidatesArePossible,
      AppliedIsLast

(* A probe marks a node that is not past; the time since the earlier ones  *)
(* is at most one Timeout more.                                            *)
LEMMA ProbeIInv ==
  ASSUME IInv, NEW reachable \in BOOLEAN, Probe(reachable)
  PROVE  IInv'
  <1> USE DEF IInv
  <1> DEFINE n == round[next]
  <1>1. /\ UNCHANGED <<now, nodes, status, lastCandidates, lastRebuildAt, round, next,
                       available, candidates, applied, refused>>
        /\ pc = "probing" /\ pc' = "recording" /\ spent' = 0
        /\ until' = [until EXCEPT ![n] = IF reachable THEN 0 ELSE now + Window]
        /\ draft' = Counted(Read(status[n]), reachable)
    BY DEF Probe, Goto, MarkResult, history
  <1>2. next \in 1..Len(round) /\ n \in ToSet(round) /\ n \in NodeKey /\ status[n] \in StatusType
    BY <1>1, RoundNodes DEF TypeOK, Place
  <1>3. \A i \in 1..(next - 1) : /\ round[i] # n /\ round[i] \in NodeKey
                                 /\ until'[round[i]] = until[round[i]]
    <2>1. \A i \in 1..(next - 1) : round[i] # n /\ round[i] \in NodeKey
      BY <1>2, RoundNodes DEF TypeOK
    <2>2. DOMAIN until = NodeKey
      BY DEF TypeOK
    <2> QED
      BY <1>1, <2>1, <2>2
  <1>4. TypeOK'
    <2>1. until' \in [NodeKey -> 0..(MaxNow + Window)]
      BY <1>1, <1>2 DEF TypeOK
    <2>2. draft' \in StatusType
      BY <1>1, <1>2, CountedFacts
    <2> QED
      BY <1>1, <2>1, <2>2 DEF TypeOK, States
  <1>5. Proper(nodes)' /\ Proper(round)' /\ Place'
    BY <1>1 DEF Proper, Known, Place
  <1>6. PastAgrees'
    BY <1>1, <1>3 DEF PastAgrees, Agree, Answered
  <1>7. WindowsLast'
    <2> SUFFICES ASSUME NEW i \in 1..(next - 1), ~Answered(round[i])
                 PROVE  until[round[i]] + Elapsed(i)' >= now + Window
      BY <1>1, <1>3 DEF WindowsLast, Answered
    <2>1. until[round[i]] + Elapsed(i) >= now + Window
      BY <1>1 DEF WindowsLast
    <2>2. Elapsed(i) = spent + (next - i - 1) * Timeout /\ Elapsed(i)' = (next - i) * Timeout
      BY <1>1 DEF Elapsed
    <2>3. /\ (next - i - 1) * Timeout \in Int
          /\ (next - i - 1 + 1) * Timeout = (next - i - 1) * Timeout + Timeout
      BY Products DEF TypeOK
    <2>4. next - i - 1 + 1 = next - i
      BY DEF TypeOK
    <2>5. (next - i) * Timeout = (next - i - 1) * Timeout + Timeout
      BY <2>3, <2>4
    <2>6. Elapsed(i)' >= Elapsed(i) /\ Elapsed(i) \in Int /\ Elapsed(i)' \in Int
      BY <2>2, <2>3, <2>5 DEF TypeOK
    <2>7. until[round[i]] \in Int
      BY <1>3, UntilType
    <2> QED
      BY <2>1, <2>6, <2>7 DEF TypeOK
  <1>8. DraftGoesOn'
    BY <1>1, <1>2, CountedFacts DEF DraftGoesOn, TypeOK
  <1> QED
    BY <1>1, <1>4, <1>5, <1>6, <1>7, <1>8 DEF AvailableIsRight, CandidatesArePossible,
      AppliedIsLast

(* The recorded node joins the past: its score goes with its penalty.      *)
LEMMA RecordIInv ==
  ASSUME IInv, Record
  PROVE  IInv'
  <1> USE DEF IInv
  <1>0. next \in 1..Len(round)
    BY DEF Record, TypeOK, Place
  <1> PICK n \in NodeKey : n = round[next]
    BY <1>0, RoundNodes
  <1> DEFINE new == [draft EXCEPT !.score = ComputeScore(draft, Penalized(n))]
  <1>1. /\ UNCHANGED <<now, until, nodes, lastCandidates, lastRebuildAt, round, available,
                       candidates, applied, refused>>
        /\ pc = "recording" /\ spent' = 0 /\ next' = next + 1 /\ draft' = FreshStatus
        /\ status' = [status EXCEPT ![n] = new]
        /\ pc' = IF next = Len(round) THEN "filtering" ELSE "probing"
    BY DEF Record, Goto, history
  <1>2. /\ n \in ToSet(round) /\ Len(round) \in Nat /\ next \in Nat /\ now \in Nat
        /\ Penalized(n) \in BOOLEAN /\ draft \in StatusType
    BY <1>0, RoundNodes DEF TypeOK, Penalized
  <1>3. new \in StatusType /\ new # NoStatus
    <2>1. ComputeScore(draft, Penalized(n)) \in 0..MaxScore
      BY <1>2, ScoreFacts
    <2>2. new \in StatusType
      BY <1>2, <2>1 DEF StatusType
    <2> QED
      BY <2>2, StatusFacts
  <1>4. /\ status'[n] = new
        /\ \A m \in NodeKey : m # n => status'[m] = status[m]
        /\ \A m \in NodeKey : Known(m) => Known(m)'
    BY <1>1, <1>2, <1>3 DEF TypeOK, Known
  <1>5. \A i \in 1..(next - 1) : round[i] # n /\ status'[round[i]] = status[round[i]]
    <2>1. \A i \in 1..(next - 1) : i \in 1..Len(round) /\ i # next
      BY <1>0, <1>2
    <2>2. \A i \in 1..(next - 1) : round[i] # n /\ round[i] \in NodeKey
      BY <1>0, <2>1, RoundNodes
    <2> QED
      BY <1>4, <2>2
  <1>6. TypeOK'
    <2>1. status' \in [NodeKey -> StatusType \cup {NoStatus}]
      BY <1>1, <1>3 DEF TypeOK
    <2>2. pc' \in States /\ next' \in 1..(Len(round) + 1) /\ spent' \in 0..Timeout
      BY <1>0, <1>1, <1>2 DEF States
    <2> QED
      BY <1>1, <2>1, <2>2, StatusFacts DEF TypeOK
  <1>7. Proper(nodes)' /\ Proper(round)' /\ Place'
    <2>1. ToSet(nodes) \subseteq NodeKey /\ ToSet(round) \subseteq NodeKey
      BY RoundNodes DEF TypeOK, ToSet
    <2>2. Proper(nodes)' /\ Proper(round)'
      BY <1>1, <1>4, <2>1 DEF Proper
    <2>3. Place'
      BY <1>0, <1>1, <1>2 DEF Place
    <2> QED
      BY <2>2, <2>3
  <1>8. new.consecutiveFailures = draft.consecutiveFailures
    BY <1>2 DEF StatusType
  <1>9. Agree(n)'
    <2>1. CASE draft.consecutiveFailures = 0
      BY <1>1, <1>4, <1>8, <2>1 DEF Agree, Answered, DraftGoesOn
    <2>2. CASE draft.consecutiveFailures # 0
      <3>1. Penalized(n)
        BY <1>1, <1>2, <2>2 DEF DraftGoesOn, Penalized
      <3>2. new.score = ComputeScore(draft, TRUE)
        BY <1>2, <3>1 DEF StatusType
      <3>3. ScoreBucket(new.score) = 0
        BY <1>1, <1>2, <2>2, <3>2, ScoreFacts DEF DraftGoesOn
      <3> QED
        BY <1>4, <1>8, <2>2, <3>3 DEF Agree, Answered
    <2> QED
      BY <2>1, <2>2
  <1>10. \A i \in 1..(next' - 1) : i = next \/ i \in 1..(next - 1)
    BY <1>1, <1>2
  <1>11. PastAgrees'
    <2>1. \A i \in 1..(next - 1) : Agree(round[i])'
      BY <1>1, <1>5 DEF PastAgrees, Agree, Answered
    <2> QED
      BY <1>1, <1>9, <1>10, <2>1 DEF PastAgrees
  <1>12. WindowsLast'
    <2> SUFFICES ASSUME NEW i \in 1..(next' - 1), ~Answered(round[i])'
                 PROVE  until[round[i]] + Elapsed(i)' >= now + Window
      BY <1>1 DEF WindowsLast, Answered
    <2>1. Elapsed(i)' = 0 + (next - i) * Timeout
      <3>1. next' - i - 1 = next - i /\ pc' # "recording"
        BY <1>1, <1>2
      <3> QED
        BY <1>1, <3>1 DEF Elapsed
    <2>2. (next - i) * Timeout \in Int /\ (next - next) * Timeout = 0
      BY <1>1, <1>2, Products
    <2>3. CASE i = next
      <3>1. draft.consecutiveFailures # 0
        BY <1>1, <1>4, <1>8, <2>3 DEF Answered
      <3>2. until[n] = now + Window
        BY <1>1, <3>1 DEF DraftGoesOn
      <3>3. Elapsed(i)' = 0
        BY <2>1, <2>2, <2>3
      <3> QED
        BY <2>3, <3>2, <3>3 DEF TypeOK
    <2>4. CASE i # next
      <3>1. i \in 1..(next - 1) /\ ~Answered(round[i])
        BY <1>5, <1>10, <1>1, <2>4 DEF Answered
      <3>2. until[round[i]] + Elapsed(i) >= now + Window
        BY <1>1, <3>1 DEF WindowsLast
      <3>3. Elapsed(i) = (next - i) * Timeout
        BY <1>1 DEF Elapsed
      <3>4. Elapsed(i)' = Elapsed(i)
        BY <2>1, <2>2, <3>3
      <3> QED
        BY <3>2, <3>4
    <2> QED
      BY <2>3, <2>4
  <1> QED
    BY <1>1, <1>6, <1>7, <1>11, <1>12 DEF DraftGoesOn, AvailableIsRight, CandidatesArePossible,
      AppliedIsLast

(* When the round is over a node of it that is penalised failed, and one   *)
(* that failed is penalised if the round fits into a window.               *)
LEMMA FailedArePenalized ==
  ASSUME IInv, pc = "filtering", NEW n \in ToSet(round)
  PROVE  /\ Answered(n) => ~Penalized(n)
         /\ ~Answered(n) /\ RoundFitsWindow => Penalized(n)
  <1> USE DEF IInv
  <1>1. PICK i \in 1..Len(round) : n = round[i]
    BY DEF ToSet, TypeOK
  <1>2. next = Len(round) + 1 /\ Len(round) \in Nat /\ i \in 1..(next - 1)
    BY <1>1 DEF Place, TypeOK
  <1>3. until[n] \in Int /\ now \in Int /\ now > 0
    <2>1. n \in NodeKey
      BY RoundNodes
    <2>2. now \in 1..MaxNow
      BY DEF TypeOK
    <2> QED
      BY <2>1, <2>2, UntilType
  <1>4. CASE Answered(n)
    BY <1>1, <1>2, <1>3, <1>4 DEF PastAgrees, Agree, Penalized
  <1>5. CASE ~Answered(n) /\ RoundFitsWindow
    <2>1. until[n] + Elapsed(i) >= now + Window
      BY <1>1, <1>2, <1>5 DEF WindowsLast
    <2>2. Elapsed(i) = (Len(round) - i) * Timeout
      <3>1. next - i - 1 = Len(round) - i /\ (Len(round) - i) * Timeout \in Int
        BY <1>1, <1>2, Products
      <3> QED
        BY <3>1 DEF Elapsed, WindowsLast
    <2>3. (Len(round) - i) * Timeout <= (Len(round) - 1) * Timeout
      BY <1>1, <1>2, Products
    <2>4. (Len(round) - 1) * Timeout < Window
      BY <1>5 DEF RoundFitsWindow
    <2>5. /\ (Len(round) - i) * Timeout \in Int /\ (Len(round) - 1) * Timeout \in Int
          /\ Window \in Int
      BY <1>1, <1>2, Products
    <2>6. until[n] > now
      BY <1>3, <2>1, <2>2, <2>3, <2>4, <2>5
    <2> QED
      BY <1>5, <2>6 DEF Penalized
  <1> QED
    BY <1>4, <1>5

LEMMA FilterIInv ==
  ASSUME IInv, Filter
  PROVE  IInv'
  <1> USE DEF IInv
  <1>1. /\ UNCHANGED <<now, until, nodes, status, lastCandidates, lastRebuildAt, round, next,
                       draft, candidates, applied, refused>>
        /\ pc = "filtering" /\ pc' = "sorting" /\ spent' = 0
        /\ available' = IF Unpenalized = {} THEN ToSet(round) ELSE Unpenalized
    BY DEF Filter, Goto, history
  <1>2. /\ Answering \subseteq Unpenalized /\ Unpenalized \subseteq ToSet(round)
        /\ RoundFitsWindow => Unpenalized = Answering
        /\ \A n \in Unpenalized : ~Penalized(n)
    BY <1>1, FailedArePenalized DEF Unpenalized, Answering
  <1>3. ToSet(round) # {} /\ available' \subseteq NodeKey
    <2>1. Len(round) \in 1..Len(round)
      BY <1>1, EmptySeq DEF Place, TypeOK
    <2> QED
      BY <1>1, <1>2, <2>1, RoundNodes
  <1>4. TypeOK'
    <2>1. available' \subseteq NodeKey
      BY <1>3
    <2>2. pc' \in States /\ spent' \in 0..Timeout
      BY <1>1 DEF States
    <2> QED
      BY <1>1, <2>1, <2>2 DEF TypeOK
  <1>5. Admissible(available')
    BY <1>1, <1>2, <1>3 DEF Admissible
  <1>6. AvailableIsRight'
    BY <1>1, <1>5 DEF AvailableIsRight, Admissible, Answering, Answered, Penalized, RoundFitsWindow
  <1> QED
    BY <1>1, <1>4, <1>6 DEF Proper, Known, Place, PastAgrees, Agree, Answered, WindowsLast,
      DraftGoesOn, CandidatesArePossible, AppliedIsLast

(* The statistics are candidates, finitely many.                           *)
LEMMA StatsFacts ==
  ASSUME TypeOK, Proper(round), available \subseteq ToSet(round)
  PROVE  /\ Stats \subseteq Candidate
         /\ Cardinality(Stats) \in Nat
  <1>1. Stats \subseteq Candidate
    <2> SUFFICES ASSUME NEW n \in available
                 PROVE  [key |-> n, score |-> status[n].score] \in Candidate
      BY DEF Stats
    <2>1. n \in NodeKey /\ status[n] \in StatusType
      BY RoundNodes
    <2> QED
      BY <2>1 DEF Candidate, StatusType
  <1>2. Len(round) \in Nat /\ round \in [1..Len(round) -> ToSet(round)]
    BY RoundNodes DEF TypeOK
  <1>3. IsFiniteSet(ToSet(round))
    <2>1. round \in Surjection(1..Len(round), ToSet(round))
      BY <1>2 DEF Surjection, ToSet
    <2>2. IsFiniteSet(1..Len(round))
      BY <1>2, FS_Interval
    <2> QED
      BY <2>1, <2>2, FS_Surjection
  <1>4. IsFiniteSet(available)
    BY <1>3, FS_Subset
  <1>5. IsFiniteSet(Stats)
    <2> DEFINE entry == [n \in available |-> [key |-> n, score |-> status[n].score]]
    <2>1. entry \in Surjection(available, Stats)
      BY DEF Surjection, Stats
    <2> QED
      BY <1>4, <2>1, FS_Surjection
  <1> QED
    BY <1>1, <1>5, FS_CardinalityType

(* A sorted list of the statistics is what a round may hand over.          *)
LEMMA SortIInv ==
  ASSUME IInv, Sort
  PROVE  IInv'
  <1> USE DEF IInv
  <1>1. PICK list \in [1..Cardinality(Stats) -> Stats] :
          /\ ToSet(list) = Stats
          /\ \A i, j \in DOMAIN list : i < j => Before(list[i], list[j])
          /\ candidates' = list
    BY DEF Sort
  <1>2. /\ UNCHANGED <<now, until, nodes, status, lastCandidates, lastRebuildAt, round, next,
                       draft, applied, refused>>
        /\ pc = "sorting" /\ pc' = "deciding" /\ spent' = 0 /\ available' = {}
    BY DEF Sort, Goto, history
  <1>3. Admissible(available) /\ available \subseteq ToSet(round)
    BY <1>2 DEF AvailableIsRight, Admissible
  <1>4. /\ Stats \subseteq Candidate
        /\ Cardinality(Stats) \in Nat
    BY <1>3, StatsFacts
  <1>5. /\ list \in Seq(Candidate) /\ Len(list) = Cardinality(Stats)
        /\ DOMAIN list = 1..Cardinality(Stats)
    <2>1. list \in [1..Cardinality(Stats) -> Candidate]
      BY <1>1, <1>4
    <2> QED
      BY <1>4, <2>1, SeqDef
  <1>6. TypeOK'
    <2>1. pc' \in States /\ spent' \in 0..Timeout /\ available' \subseteq NodeKey
      BY <1>2 DEF States
    <2> QED
      BY <1>1, <1>2, <1>5, <2>1 DEF TypeOK
  <1>7. \A i \in DOMAIN list : list[i].key \in available /\ list[i].score = status[list[i].key].score
    BY <1>1 DEF Stats
  <1>8. ToSet(Keys(list)) = available
    <2>1. \A n \in available : \E i \in DOMAIN list : list[i].key = n
      <3> SUFFICES ASSUME NEW n \in available
                   PROVE  \E i \in DOMAIN list : list[i].key = n
        OBVIOUS
      <3>1. [key |-> n, score |-> status[n].score] \in ToSet(list)
        BY <1>1 DEF Stats
      <3> QED
        BY <3>1 DEF ToSet
    <2> QED
      BY <1>7, <2>1 DEF Keys, ToSet
  <1>9. CandidatesAreTheAnswering'
    <2>1. PICK S : S = available
      OBVIOUS
    <2>2. Answering' = Answering
      BY <1>2 DEF Answering, Answered
    <2>3. Admissible(S)'
      BY <1>2, <1>3, <2>1, <2>2 DEF Admissible, Penalized, RoundFitsWindow
    <2>4. ToSet(Keys(candidates))' = S
      BY <1>1, <1>8, <2>1 DEF Keys, ToSet
    <2> QED
      BY <2>3, <2>4 DEF CandidatesAreTheAnswering
  <1>10. IsInjective(Keys(list))
    <2> SUFFICES ASSUME NEW i \in DOMAIN list, NEW j \in DOMAIN list, i < j,
                        list[i].key = list[j].key
                 PROVE  FALSE
      BY <1>4, <1>5 DEF Keys, IsInjective
    <2>1. Before(list[i], list[j])
      BY <1>1
    <2>2. list[i].key \in Nat /\ list[i].score = list[j].score
      BY <1>3, <1>7, RoundNodes
    <2> QED
      BY <2>1, <2>2 DEF Before
  <1>11. CandidatesAreRanked'
    <2> SUFFICES ASSUME NEW i \in DOMAIN list, NEW j \in DOMAIN list, NEW k \in DOMAIN list,
                        i < j, list[i].score < list[j].score
                 PROVE  ~Answered(list[k].key)
      BY <1>1, <1>2 DEF CandidatesAreRanked, Answered
    <2>1. Before(list[i], list[j])
      BY <1>1
    <2>2. list[i].score \in Int /\ list[j].score \in Int
      <3>1. list[i] \in Candidate /\ list[j] \in Candidate
        BY <1>1, <1>4, <1>5
      <3>2. list[i].score \in 0..MaxScore /\ list[j].score \in 0..MaxScore
        BY <3>1 DEF Candidate
      <3>3. \A score \in 0..MaxScore : score \in Int
        BY DEF MaxScore
      <3> QED
        BY <3>2, <3>3
    <2>3. Penalized(list[j].key)
      <3>1. Penalized(list[i].key) \in BOOLEAN /\ Penalized(list[j].key) \in BOOLEAN
        BY DEF Penalized
      <3>2. ~(list[i].score > list[j].score) /\ list[i].score # list[j].score
        BY <2>2
      <3> QED
        BY <2>1, <3>1, <3>2 DEF Before
    <2>4. list[j].key \in available /\ list[j].key \in ToSet(round)
      BY <1>3, <1>7
    <2>5. ~Answered(list[j].key)
      <3>1. Agree(list[j].key)
        <4>1. PICK m \in 1..Len(round) : round[m] = list[j].key
          BY <2>4 DEF ToSet, TypeOK
        <4>2. m \in 1..(next - 1)
          BY <1>2, <4>1 DEF Place, TypeOK
        <4> QED
          BY <4>1, <4>2 DEF PastAgrees
      <3>2. now \in Nat
        BY DEF TypeOK
      <3> QED
        BY <2>3, <3>1, <3>2 DEF Agree, Penalized
    <2>6. Answering = {}
      BY <1>3, <2>3, <2>4 DEF Admissible
    <2>7. list[k].key \in ToSet(round)
      BY <1>3, <1>7
    <2> QED
      BY <2>6, <2>7 DEF Answering
  <1>12. CandidatesArePossible'
    <2>1. IsInjective(Keys(candidates))'
      BY <1>1, <1>5, <1>10 DEF Keys, IsInjective
    <2> QED
      BY <1>9, <1>11, <2>1 DEF CandidatesArePossible
  <1> QED
    BY <1>2, <1>6, <1>12 DEF Proper, Known, Place, PastAgrees, Agree, Answered, WindowsLast,
      DraftGoesOn, AvailableIsRight, AppliedIsLast

LEMMA DecideIInv ==
  ASSUME IInv, Decide
  PROVE  IInv'
  <1> USE DEF IInv
  <1>1. /\ UNCHANGED <<now, until, nodes, status, round, next, draft, available>>
        /\ pc = "deciding" /\ spent' = 0
        /\ \/ /\ pc' = "waiting" /\ candidates' = <<>>
              /\ UNCHANGED <<lastCandidates, lastRebuildAt>>
           \/ /\ pc' = "rebuilding" /\ candidates' = candidates
              /\ lastCandidates' = Keys(candidates) /\ lastRebuildAt' = now
        /\ UNCHANGED <<applied, refused>>
    BY DEF Decide, EndRound, Goto, history
  <1>2. Keys(candidates) \in Seq(NodeKey)
    BY <1>1, CandidatesInRound
  <1>3. TypeOK'
    <2>1. pc' \in States /\ spent' \in 0..Timeout
      BY <1>1 DEF States
    <2>2. /\ candidates \in Seq(Candidate)
          /\ lastCandidates \in Seq(NodeKey) /\ lastRebuildAt \in 0..now /\ now \in Nat
      BY DEF TypeOK
    <2>3. /\ candidates' \in Seq(Candidate)
          /\ lastCandidates' \in Seq(NodeKey) /\ lastRebuildAt' \in 0..now
      <3>1. CASE candidates' = <<>> /\ UNCHANGED <<lastCandidates, lastRebuildAt>>
        BY <2>2, <3>1
      <3>2. CASE /\ candidates' = candidates /\ lastCandidates' = Keys(candidates)
                 /\ lastRebuildAt' = now
        BY <1>2, <2>2, <3>2
      <3> QED
        BY <1>1, <3>1, <3>2
    <2> QED
      BY <1>1, <2>1, <2>3 DEF TypeOK
  <1>4. AppliedIsLast'
    BY <1>1 DEF AppliedIsLast
  <1>5. CandidatesArePossible'
    <2>1. CASE pc' = "waiting"
      BY <2>1 DEF CandidatesArePossible
    <2>2. CASE pc' = "rebuilding" /\ candidates' = candidates
      <3>1. Answering' = Answering
        BY <1>1 DEF Answering, Answered
      <3>2. CandidatesAreTheAnswering'
        <4>1. PICK S : S = ToSet(Keys(candidates))
          OBVIOUS
        <4>2. Admissible(S)
          BY <1>1, <4>1 DEF CandidatesArePossible, CandidatesAreTheAnswering
        <4>3. Admissible(S)'
          BY <1>1, <3>1, <4>2, AdmissibleKept DEF TypeOK
        <4>4. ToSet(Keys(candidates))' = S
          BY <2>2, <4>1 DEF Keys, ToSet
        <4> QED
          BY <4>3, <4>4 DEF CandidatesAreTheAnswering
      <3> QED
        BY <1>1, <2>2, <3>2 DEF CandidatesArePossible, CandidatesAreRanked, Answered, Keys,
          IsInjective
    <2> QED
      BY <1>1, <2>1, <2>2
  <1> QED
    BY <1>1, <1>3, <1>4, <1>5 DEF Proper, Known, Place, PastAgrees, Agree, Answered,
      WindowsLast, DraftGoesOn, AvailableIsRight

(* The candidates become the monitored list.                               *)
LEMMA RebuildIInv ==
  ASSUME IInv, NEW succeeds \in BOOLEAN, Rebuild(succeeds)
  PROVE  IInv'
  <1> USE DEF IInv
  <1> DEFINE keys == Keys(candidates)
  <1>1. /\ UNCHANGED <<now, until, lastCandidates, lastRebuildAt, round, next, draft, available>>
        /\ pc = "rebuilding" /\ pc' = "waiting" /\ spent' = 0 /\ candidates' = <<>>
        /\ SetNodes(keys) \/ UNCHANGED <<nodes, status>>
        /\ refused' \in BOOLEAN /\ (~refused' => applied' = keys)
        /\ applied' = applied \/ applied' = keys
    BY DEF Rebuild, EndRound, Goto
  <1>2. keys \in Seq(NodeKey) /\ IsInjective(keys)
    BY <1>1, CandidatesInRound DEF CandidatesArePossible
  <1>3. /\ nodes' \in Seq(NodeKey)
        /\ status' \in [NodeKey -> StatusType \cup {NoStatus}]
        /\ \A n \in NodeKey : Known(n) => status'[n] = status[n]
        /\ \/ nodes' = keys /\ \A n \in ToSet(keys) : status'[n] # NoStatus
           \/ UNCHANGED <<nodes, status>>
    <2>1. CASE SetNodes(keys)
      BY <1>2, <2>1, SetNodesFacts DEF TypeOK
    <2>2. CASE UNCHANGED <<nodes, status>>
      BY <2>2 DEF TypeOK
    <2> QED
      BY <1>1, <2>1, <2>2
  <1>4. \A n \in ToSet(round) : n \in NodeKey /\ Known(n) /\ status'[n] = status[n]
    BY <1>3, RoundNodes
  <1>5. TypeOK'
    <2>1. pc' \in States /\ spent' \in 0..Timeout /\ candidates' \in Seq(Candidate)
      BY <1>1 DEF States
    <2> QED
      BY <1>1, <1>2, <1>3, <2>1 DEF TypeOK
  <1>6. AppliedIsLast'
    BY <1>1 DEF AppliedIsLast
  <1>7. Proper(nodes)'
    <2>1. CASE nodes' = keys /\ \A n \in ToSet(keys) : status'[n] # NoStatus
      BY <1>2, <2>1 DEF Proper, Known
    <2>2. CASE UNCHANGED <<nodes, status>>
      BY <2>2 DEF Proper, Known
    <2> QED
      BY <1>3, <2>1, <2>2
  <1>8. Proper(round)' /\ Place'
    BY <1>1, <1>4 DEF Proper, Known, Place
  <1>9. PastAgrees'
    BY <1>1, <1>4, RoundKept
  <1> QED
    BY <1>1, <1>5, <1>6, <1>7, <1>8, <1>9 DEF WindowsLast, DraftGoesOn, AvailableIsRight,
      CandidatesArePossible

LEMMA NextIInv == IInv /\ [Next]_vars => IInv'
  <1>1. ASSUME IInv, UNCHANGED vars PROVE IInv'
    <2>1. UNCHANGED <<now, until, nodes, status, lastCandidates, lastRebuildAt, pc, spent, round,
                      next, draft, available, candidates, applied, refused>>
      BY <1>1 DEF vars
    <2>2. TypeOK'
      BY <1>1, <2>1 DEF IInv, TypeOK
    <2>3. (Proper(nodes) /\ Proper(round) /\ Place /\ PastAgrees)'
      BY <1>1, <2>1 DEF IInv, Proper, Known, Place, PastAgrees, Agree, Answered
    <2>4. (WindowsLast /\ DraftGoesOn /\ AppliedIsLast)'
      BY <1>1, <2>1 DEF IInv, WindowsLast, Elapsed, Answered, DraftGoesOn, AppliedIsLast
    <2>5. (AvailableIsRight /\ CandidatesArePossible)'
      <3>1. Answering' = Answering
        BY <2>1 DEF Answering, Answered
      <3>2. AvailableIsRight' /\ CandidatesAreTheAnswering'
        BY <1>1, <2>1, <3>1, ChoiceKept DEF IInv, TypeOK
      <3> QED
        BY <1>1, <2>1, <3>2 DEF IInv, CandidatesArePossible, CandidatesAreRanked, Answered, Keys,
          IsInjective
    <2> QED
      BY <2>2, <2>3, <2>4, <2>5 DEF IInv
  <1> QED
    BY <1>1, TickIInv, RefreshIInv, BeginRoundIInv, ProbeIInv, RecordIInv, FilterIInv, SortIInv,
      DecideIInv, RebuildIInv DEF Next

-----------------------------------------------------------------------------
(* What a round hands over, however long it took: every node that answered *)
(* in it, and one that failed only once its penalty is over or when nobody *)
(* answered; best first, in states of the right types, whatever the        *)
(* runtime does meanwhile (updatePenalties, filterNodeStats, SetNodes).    *)
THEOREM HandsOverTheAnswering == Spec => []CandidatesAreRight
  <1>1. IInv => CandidatesAreRight
    <2> SUFFICES ASSUME IInv PROVE CandidatesAreRight
      OBVIOUS
    <2>1. CandidatesAreTheAnswering /\ CandidatesAreRanked
      BY DEF IInv, CandidatesArePossible, CandidatesAreTheAnswering, CandidatesAreRanked
    <2> QED
      BY <2>1 DEF IInv, CandidatesAreRight
  <1> QED
    BY InitIInv, NextIInv, <1>1, PTL DEF Spec

(* Score and pool, two stores written in two steps, agree between rounds   *)
(* (updatePenalties, whatever RestoreSnapshot found).                      *)
THEOREM ScoreShowsPenalty == Spec => []PenaltyShowsInScore
  <1>1. IInv => PenaltyShowsInScore
    <2> SUFFICES ASSUME IInv, NEW n \in ToSet(round), Penalized(n),
                        pc \notin {"probing", "recording"}
                 PROVE  ScoreBucket(status[n].score) = 0
      BY DEF PenaltyShowsInScore
    <2>1. PICK i \in 1..Len(round) : n = round[i]
      BY DEF IInv, TypeOK, ToSet
    <2>2. i \in 1..(next - 1) /\ now \in Nat
      BY <2>1 DEF IInv, TypeOK, Place
    <2>3. Agree(n)
      BY <2>1, <2>2 DEF IInv, PastAgrees
    <2> QED
      BY <2>2, <2>3 DEF Agree, Penalized
  <1> QED
    BY InitIInv, NextIInv, <1>1, PTL DEF Spec

(* No probe result is lost and no node forgotten, although SetNodes may    *)
(* run between a probe's reading of a status and its writing it back.      *)
THEOREM KeepsHistory == Spec => HistoryIsKept
  <1> DEFINE Kept == \A n \in NodeKey : Known(n) =>
                       /\ status'[n] # NoStatus
                       /\ status'[n].failureCount >= status[n].failureCount
                       /\ status'[n].successCount >= status[n].successCount
  <1>1. IInv /\ [Next]_vars => [Kept]_vars
    <2> SUFFICES ASSUME IInv, Next, NEW n \in NodeKey, Known(n)
                 PROVE  /\ status'[n] # NoStatus
                        /\ status'[n].failureCount >= status[n].failureCount
                        /\ status'[n].successCount >= status[n].successCount
      OBVIOUS
    <2>1. /\ status[n] \in StatusType /\ status[n] # NoStatus
          /\ status[n].failureCount \in Int /\ status[n].successCount \in Int
      <3>1. status[n] \in StatusType \cup {NoStatus} /\ status[n] # NoStatus
        BY DEF IInv, TypeOK, Known
      <3>2. \A s \in StatusType : s.failureCount \in Int /\ s.successCount \in Int
        BY DEF StatusType
      <3> QED
        BY <3>1, <3>2, Zenon
    <2>2. CASE Record
      <3> DEFINE new == [draft EXCEPT !.score = ComputeScore(draft, Penalized(round[next]))]
      <3>1. pc = "recording" /\ status' = [status EXCEPT ![round[next]] = new]
        BY <2>2 DEF Record
      <3>2. draft \in StatusType /\ Penalized(round[next]) \in BOOLEAN
        BY DEF IInv, TypeOK, Penalized
      <3>3. ComputeScore(draft, Penalized(round[next])) \in 0..MaxScore
        BY <3>2, ScoreFacts
      <3>4. /\ new \in StatusType /\ new.failureCount = draft.failureCount
            /\ new.successCount = draft.successCount
        BY <3>2, <3>3 DEF StatusType
      <3>5. CASE n = round[next]
        <4>1. status'[n] = new
          BY <3>1, <3>5 DEF IInv, TypeOK
        <4> QED
          BY <3>1, <3>4, <3>5, <4>1, StatusFacts DEF IInv, DraftGoesOn
      <3>6. CASE n # round[next]
        <4>1. status'[n] = status[n]
          BY <3>1, <3>6 DEF IInv, TypeOK
        <4> QED
          BY <2>1, <4>1
      <3> QED
        BY <3>5, <3>6
    <2>3. CASE \E list \in NodeLists : RefreshSetsNodes(list)
      <3>1. status'[n] = status[n]
        BY <2>3, SetNodesFacts, NodeListsAssumption DEF RefreshSetsNodes, IInv, TypeOK
      <3> QED
        BY <2>1, <3>1
    <2>4. CASE \E succeeds \in BOOLEAN : Rebuild(succeeds)
      <3>1. CASE SetNodes(Keys(candidates))
        <4>1. Keys(candidates) \in Seq(NodeKey)
          BY <2>4, CandidatesInRound DEF Rebuild
        <4>2. status'[n] = status[n]
          BY <3>1, <4>1, SetNodesFacts DEF IInv, TypeOK
        <4> QED
          BY <2>1, <4>2
      <3>2. CASE UNCHANGED status
        BY <2>1, <3>2
      <3> QED
        BY <2>4, <3>1, <3>2 DEF Rebuild
    <2>5. CASE \/ Tick \/ BeginRound \/ Filter \/ Sort \/ Decide
               \/ \E reachable \in BOOLEAN : Probe(reachable)
      <3>1. UNCHANGED status
        BY <2>5 DEF Tick, BeginRound, Filter, Sort, Decide, Probe
      <3> QED
        BY <2>1, <3>1
    <2> QED
      BY <2>2, <2>3, <2>4, <2>5 DEF Next
  <1> QED
    BY InitIInv, NextIInv, <1>1, PTL DEF Spec, HistoryIsKept

(* A round that ends without a rebuild found the order the core last took, *)
(* unless the last rebuild failed, or leaves the change to a later round   *)
(* (shouldRebuild, evaluateAndRebuild).                                    *)
THEOREM AppliesNewOrders == Spec => NewOrderIsApplied
  <1> DEFINE Noticed == (pc = "deciding" /\ pc' = "waiting") =>
                          \/ now - lastRebuildAt < Debounce
                          \/ Keys(candidates) = applied
                          \/ refused
  <1>1. IInv /\ [Next]_vars => [Noticed]_vars
    <2> SUFFICES ASSUME IInv, Next, pc = "deciding", pc' = "waiting"
                 PROVE  \/ now - lastRebuildAt < Debounce
                        \/ Keys(candidates) = applied
                        \/ refused
      OBVIOUS
    <2>1. Decide
      BY DEF Next, Tick, RefreshSetsNodes, BeginRound, Probe, Record, Filter, Sort, Rebuild
    <2>2. Unchanged \/ Debounced
      BY <2>1 DEF Decide, Goto
    <2> QED
      BY <2>2 DEF Unchanged, Debounced, IInv, AppliedIsLast
  <1> QED
    BY InitIInv, NextIInv, <1>1, PTL DEF Spec, NewOrderIsApplied

-----------------------------------------------------------------------------
(* The life of one node (module ProbeHistory)                              *)

(* The part of the score that no probe result can take back.               *)
Ceiling(s) == Clamp(MaxScore - 5 * s.failureCount + 3 * s.successCount)

LEMMA ClampRange == \A raw \in Int : Clamp(raw) \in MinScore..MaxScore
BY DEF Clamp, MinScore, MaxScore

LEMMA ClampMonotone == \A a, b \in Int : a <= b => Clamp(a) <= Clamp(b)
BY DEF Clamp, MinScore, MaxScore

LEMMA ReadKeepsCounters ==
  ASSUME NEW s \in StatusType
  PROVE  /\ Read(s) \in StatusType
         /\ Read(s).successCount = s.successCount
         /\ Read(s).failureCount = s.failureCount
         /\ Read(s).consecutiveFailures = s.consecutiveFailures
<1>1. CASE s.score = 0
  BY <1>1 DEF Read, StatusType, MaxScore
<1>2. CASE s.score # 0
  BY <1>2 DEF Read
<1> QED
  BY <1>1, <1>2

LEMMA FailedCounters ==
  ASSUME NEW s \in StatusType
  PROVE  /\ Failed(s) \in StatusType
         /\ Failed(s).successCount = s.successCount
         /\ Failed(s).failureCount = s.failureCount + 1
         /\ Failed(s).consecutiveFailures = s.consecutiveFailures + 1
BY DEF Failed, StatusType

LEMMA SucceededCounters ==
  ASSUME NEW s \in StatusType
  PROVE  /\ Succeeded(s) \in StatusType
         /\ Succeeded(s).successCount >= s.successCount
         /\ Succeeded(s).failureCount = s.failureCount
         /\ Succeeded(s).consecutiveFailures = 0
BY DEF Succeeded, StatusType

LEMMA WithScore ==
  ASSUME NEW s \in StatusType, NEW n \in 0..MaxScore
  PROVE  /\ [s EXCEPT !.score = n] \in StatusType
         /\ [s EXCEPT !.score = n].score = n
         /\ [s EXCEPT !.score = n].successCount = s.successCount
         /\ [s EXCEPT !.score = n].failureCount = s.failureCount
         /\ [s EXCEPT !.score = n].consecutiveFailures = s.consecutiveFailures
BY DEF StatusType

(* Whatever the counters are, a failed probe of a node that its failure    *)
(* penalised leaves at most 37 points: the lowest bucket.                  *)
LEMMA FailureGivesLowestBucket ==
  ASSUME NEW s \in StatusType
  PROVE  /\ AfterProbe(s, FALSE, TRUE) \in StatusType
         /\ AfterProbe(s, FALSE, TRUE).score \in MinScore..37
         /\ ScoreBucket(AfterProbe(s, FALSE, TRUE).score) = 0
<1> DEFINE f == Failed(Read(s))
           raw == RawScore(f, TRUE)
<1>1. /\ f \in StatusType
      /\ f.consecutiveFailures >= 1
      /\ f.failureCount >= 1
  BY ReadKeepsCounters, FailedCounters DEF StatusType
<1> HIDE DEF f
<1>2. raw \in Int /\ raw <= 37
  BY <1>1 DEF RawScore, Penalty, StatusType, MaxScore
<1> HIDE DEF raw
<1>3. Clamp(raw) \in MinScore..37
  BY <1>2 DEF Clamp, MinScore, MaxScore
<1>4. AfterProbe(s, FALSE, TRUE) = [f EXCEPT !.score = Clamp(raw)]
  BY DEF AfterProbe, Counted, ComputeScore, f, raw
<1>5. Clamp(raw) \in 0..MaxScore
  BY <1>3 DEF MinScore, MaxScore
<1>6. /\ [f EXCEPT !.score = Clamp(raw)] \in StatusType
      /\ [f EXCEPT !.score = Clamp(raw)].score = Clamp(raw)
  BY <1>1, <1>5, WithScore
<1>7. ScoreBucket(Clamp(raw)) = 0
  BY <1>3 DEF ScoreBucket, MinScore
<1> QED
  BY <1>3, <1>4, <1>6, <1>7

LEMMA FailureBelowCeiling ==
  ASSUME NEW s \in StatusType
  PROVE  AfterProbe(s, FALSE, TRUE).score <= Ceiling(AfterProbe(s, FALSE, TRUE))
<1> DEFINE f == Failed(Read(s))
<1>1. f \in StatusType /\ f.consecutiveFailures >= 1
  BY ReadKeepsCounters, FailedCounters DEF StatusType
<1>2. RawScore(f, TRUE) <= MaxScore - 5 * f.failureCount + 3 * f.successCount
  BY <1>1 DEF RawScore, Penalty, StatusType, MaxScore
<1>3. /\ RawScore(f, TRUE) \in Int
      /\ MaxScore - 5 * f.failureCount + 3 * f.successCount \in Int
  BY <1>1 DEF RawScore, Penalty, StatusType, MaxScore
<1>4. Clamp(RawScore(f, TRUE)) <= Ceiling(f)
  BY <1>2, <1>3, ClampMonotone DEF Ceiling
<1>5. Clamp(RawScore(f, TRUE)) \in 0..MaxScore
  <2>1. Clamp(RawScore(f, TRUE)) \in MinScore..MaxScore
    BY <1>3, ClampRange
  <2>2. \A n : n \in MinScore..MaxScore => n \in 0..MaxScore
    BY DEF MinScore, MaxScore
  <2> QED
    BY <2>1, <2>2, Zenon
<1>6. AfterProbe(s, FALSE, TRUE) = [f EXCEPT !.score = Clamp(RawScore(f, TRUE))]
  BY DEF AfterProbe, Counted, ComputeScore
<1> HIDE DEF f
<1> QED
  BY <1>1, <1>4, <1>5, <1>6, WithScore DEF Ceiling

(* A success leaves the node exactly at its ceiling.                       *)
LEMMA SuccessGivesCeiling ==
  ASSUME NEW s \in StatusType
  PROVE  /\ AfterProbe(s, TRUE, FALSE) \in StatusType
         /\ AfterProbe(s, TRUE, FALSE).consecutiveFailures = 0
         /\ AfterProbe(s, TRUE, FALSE).score = Ceiling(AfterProbe(s, TRUE, FALSE))
         /\ AfterProbe(s, TRUE, FALSE).failureCount = s.failureCount
         /\ AfterProbe(s, TRUE, FALSE).successCount >= s.successCount
<1> DEFINE g == Succeeded(Read(s))
           raw == RawScore(g, FALSE)
<1>1. /\ g \in StatusType
      /\ g.consecutiveFailures = 0
      /\ g.failureCount = s.failureCount
      /\ g.successCount >= s.successCount
  BY ReadKeepsCounters, SucceededCounters
<1> HIDE DEF g
<1>2. /\ raw \in Int
      /\ raw = MaxScore - 5 * g.failureCount + 3 * g.successCount
  BY <1>1 DEF RawScore, Penalty, StatusType, MaxScore
<1> HIDE DEF raw
<1>3. Clamp(raw) \in 0..MaxScore
  BY <1>2, ClampRange DEF MinScore, MaxScore
<1>4. AfterProbe(s, TRUE, FALSE) = [g EXCEPT !.score = Clamp(raw)]
  BY DEF AfterProbe, Counted, ComputeScore, g, raw
<1> DEFINE h == [g EXCEPT !.score = Clamp(raw)]
<1>5. /\ h \in StatusType
      /\ h.score = Clamp(raw)
      /\ h.successCount = g.successCount
      /\ h.failureCount = g.failureCount
      /\ h.consecutiveFailures = g.consecutiveFailures
  BY <1>1, <1>3, WithScore
<1> HIDE DEF h
<1>6. h.score = Ceiling(h)
  BY <1>2, <1>5 DEF Ceiling
<1>7. AfterProbe(s, TRUE, FALSE) = h
  BY <1>4 DEF h
<1> QED
  BY <1>1, <1>5, <1>6, <1>7

(* The inductive invariant: a score never exceeds its counters' ceiling.   *)
BelowCeiling == nodeStatus.score <= Ceiling(nodeStatus)

LifeInv == LifeTypeOK /\ FailingNodesAreLast /\ BelowCeiling

(* A restored status with no score is below every ceiling, and one with a  *)
(* score has it from its counters: the sum of the lemmas above.            *)
LEMMA RestorableIsALife ==
  ASSUME NEW maxFailures \in Nat, NEW s \in Restorable(maxFailures)
  PROVE  /\ s \in StatusType
         /\ s.score \in {0} \cup MinScore..MaxScore
         /\ s.consecutiveFailures > 0 => ScoreBucket(s.score) = 0
         /\ s.score <= Ceiling(s)
<1> DEFINE counted ==
      {c \in [successCount : 0..4, failureCount : 0..maxFailures,
              consecutiveFailures : 0..maxFailures, score : {0}] :
         \/ c.consecutiveFailures = c.failureCount
         \/ c.consecutiveFailures < c.failureCount /\ c.successCount > 0}
<1>1. s \in counted \/ \E c \in counted :
        s = [c EXCEPT !.score = ComputeScore(c, c.consecutiveFailures > 0)]
  BY DEF Restorable
<1>2. \A c \in counted :
        /\ c \in StatusType
        /\ c.score = 0
        /\ c.consecutiveFailures > 0 => c.failureCount > 0
  BY DEF StatusType, MaxScore
<1> HIDE DEF counted
<1>3. \A c \in StatusType : Ceiling(c) \in MinScore..MaxScore
  BY ClampRange DEF Ceiling, StatusType, MaxScore
<1>4. CASE s \in counted
  BY <1>2, <1>3, <1>4 DEF ScoreBucket, MinScore, MaxScore
<1>5. ASSUME NEW c \in counted,
             s = [c EXCEPT !.score = ComputeScore(c, c.consecutiveFailures > 0)]
      PROVE  /\ s \in StatusType
             /\ s.score \in {0} \cup MinScore..MaxScore
             /\ s.consecutiveFailures > 0 => ScoreBucket(s.score) = 0
             /\ s.score <= Ceiling(s)
  <2>1. /\ c \in StatusType
        /\ c.consecutiveFailures \in Nat /\ c.failureCount \in Nat /\ c.successCount \in 0..4
        /\ c.consecutiveFailures > 0 => c.failureCount > 0
    BY <1>2 DEF StatusType
  <2>2. PICK penalty \in BOOLEAN : penalty <=> c.consecutiveFailures > 0
    OBVIOUS
  <2>3. ComputeScore(c, c.consecutiveFailures > 0) = ComputeScore(c, penalty)
    BY <2>2, Zenon DEF ComputeScore, RawScore, Penalty
  <2>4. /\ RawScore(c, penalty) \in Int
        /\ RawScore(c, penalty) <= MaxScore - 5 * c.failureCount + 3 * c.successCount
    BY <2>1 DEF RawScore, Penalty, MaxScore
  <2>5. ComputeScore(c, penalty) \in MinScore..MaxScore
    BY <2>4, ClampRange DEF ComputeScore
  <2>6. ComputeScore(c, penalty) <= Ceiling(c)
    <3>1. MaxScore - 5 * c.failureCount + 3 * c.successCount \in Int
      BY <2>1 DEF MaxScore
    <3> QED
      BY <2>4, <3>1, ClampMonotone DEF ComputeScore, Ceiling
  <2>7. c.consecutiveFailures > 0 => ScoreBucket(ComputeScore(c, penalty)) = 0
    BY <2>1, <2>2, ScoreFacts
  <2>8. ComputeScore(c, penalty) \in 0..MaxScore
    BY <2>5 DEF MinScore, MaxScore
  <2>9. /\ s \in StatusType
        /\ s.score = ComputeScore(c, penalty)
        /\ s.successCount = c.successCount
        /\ s.failureCount = c.failureCount
        /\ s.consecutiveFailures = c.consecutiveFailures
    BY <1>5, <2>1, <2>3, <2>8, WithScore
  <2> QED
    BY <2>5, <2>6, <2>7, <2>9 DEF Ceiling
<1> QED
  BY <1>1, <1>4, <1>5

LEMMA LifeStart == LifeInit => LifeInv
BY RestorableIsALife, MaxFailuresAssumption
   DEF LifeInit, LifeInv, LifeTypeOK, FailingNodesAreLast, BelowCeiling

LEMMA LifeStep == LifeInv /\ [LifeNext]_life => LifeInv'
<1> SUFFICES ASSUME LifeInv, [LifeNext]_life PROVE LifeInv'
  OBVIOUS
<1> USE DEF LifeInv, LifeTypeOK
<1>1. CASE ProbeSucceeds
  <2>1. /\ nodeStatus' \in StatusType
        /\ nodeStatus'.consecutiveFailures = 0
        /\ nodeStatus'.score = Ceiling(nodeStatus')
        /\ penalized' = FALSE
    BY <1>1, SuccessGivesCeiling DEF ProbeSucceeds
  <2>2. nodeStatus'.score \in MinScore..MaxScore
    BY <2>1, ClampRange DEF Ceiling, StatusType, MaxScore
  <2>3. FailingNodesAreLast' /\ BelowCeiling'
    BY <2>1, <2>2 DEF FailingNodesAreLast, BelowCeiling, MinScore, MaxScore
  <2>4. penalized' \in BOOLEAN
    BY <2>1
  <2> QED
    BY <2>1, <2>2, <2>3, <2>4, Zenon
<1>2. CASE ProbeFails
  <2>1. /\ nodeStatus' \in StatusType
        /\ nodeStatus'.score \in MinScore..37
        /\ ScoreBucket(nodeStatus'.score) = 0
        /\ penalized' = TRUE
    BY <1>2, FailureGivesLowestBucket DEF ProbeFails
  <2>2. BelowCeiling'
    BY <1>2, FailureBelowCeiling DEF ProbeFails, BelowCeiling
  <2> QED
    BY <2>1, <2>2 DEF FailingNodesAreLast, MinScore, MaxScore
<1>3. CASE WindowEnds
  BY <1>3 DEF WindowEnds, FailingNodesAreLast, BelowCeiling
<1>4. CASE UNCHANGED life
  BY <1>4 DEF life, FailingNodesAreLast, BelowCeiling
<1> QED
  BY <1>1, <1>2, <1>3, <1>4 DEF LifeNext

LEMMA LifeInvariance == LifeSpec => []LifeInv
BY LifeStart, LifeStep, PTL DEF LifeSpec

(* A node whose latest probe failed is in the lowest bucket.               *)
THEOREM FailingLast == LifeSpec => []FailingNodesAreLast
<1>1. LifeInv => FailingNodesAreLast
  BY DEF LifeInv
<1> QED
  BY LifeInvariance, <1>1, PTL

LEMMA CeilingOfFailures ==
  ASSUME NEW s \in StatusType
  PROVE  /\ s.failureCount >= 7 => Ceiling(s) <= 77
         /\ s.failureCount >= 15 => Ceiling(s) <= 37
BY DEF Ceiling, Clamp, StatusType, MinScore, MaxScore

(* Failures are never forgotten: seven of them bar a node from "ready" for *)
(* ever, fifteen keep it in the lowest bucket for ever, whatever its probes *)
(* bring and whatever RestoreSnapshot found of it.                         *)
THEOREM FailuresAreForLife == LifeSpec => []OldFailuresStay
<1>1. LifeInv => OldFailuresStay
  <2> SUFFICES ASSUME LifeInv PROVE OldFailuresStay
    OBVIOUS
  <2>1. /\ nodeStatus \in StatusType
        /\ nodeStatus.score \in 0..MaxScore
        /\ nodeStatus.score <= Ceiling(nodeStatus)
        /\ Ceiling(nodeStatus) \in Int
    BY ClampRange DEF LifeInv, LifeTypeOK, BelowCeiling, Ceiling, StatusType, MinScore, MaxScore
  <2> QED
    BY <2>1, CeilingOfFailures
       DEF LifeInv, OldFailuresStay, Ready, ReadyScore, ScoreBucket, MinScore, MaxScore, StatusType
<1> QED
  BY LifeInvariance, <1>1, PTL

(* A successful probe never costs a node score or weight.                  *)
THEOREM SuccessIsMonotone == LifeSpec => SuccessNeverHurts
<1>1. LifeInv /\ [LifeNext]_life =>
        [ProbeSucceeds =>
           /\ nodeStatus'.score >= nodeStatus.score
           /\ RandomWeight(nodeStatus'.score) >= RandomWeight(nodeStatus.score)]_life
  <2> SUFFICES ASSUME LifeInv, ProbeSucceeds
               PROVE  /\ nodeStatus'.score >= nodeStatus.score
                      /\ RandomWeight(nodeStatus'.score) >= RandomWeight(nodeStatus.score)
    OBVIOUS
  <2>1. /\ nodeStatus \in StatusType /\ nodeStatus' \in StatusType
        /\ nodeStatus'.score = Ceiling(nodeStatus')
        /\ nodeStatus'.failureCount = nodeStatus.failureCount
        /\ nodeStatus'.successCount >= nodeStatus.successCount
    BY SuccessGivesCeiling DEF LifeInv, LifeTypeOK, ProbeSucceeds
  <2>2. Ceiling(nodeStatus') >= Ceiling(nodeStatus)
    BY <2>1 DEF Ceiling, Clamp, StatusType, MinScore, MaxScore
  <2>3. Ceiling(nodeStatus) \in Int /\ Ceiling(nodeStatus') \in Int
    BY <2>1, ClampRange DEF Ceiling, StatusType, MinScore, MaxScore
  <2>4. nodeStatus'.score >= nodeStatus.score
    BY <2>1, <2>2, <2>3 DEF LifeInv, BelowCeiling, StatusType, MaxScore
  <2> QED
    BY <2>1, <2>4 DEF RandomWeight, ScoreBucket, StatusType, MaxScore
<1> QED
  BY LifeInvariance, <1>1, PTL DEF LifeSpec, SuccessNeverHurts

-----------------------------------------------------------------------------
(* The checker gives every node a life                                     *)

(* Between a probe and its recording the draft is the node's status; a     *)
(* node that was never seen is fresh.                                      *)
Recording(n) == pc = "recording" /\ round[next] = n

LifeStatus(n) ==
  IF Recording(n) THEN [draft EXCEPT !.score = ComputeScore(draft, Penalized(n))]
  ELSE IF Known(n) THEN status[n]
  ELSE FreshStatus

Life(n) == INSTANCE ProbeHistory WITH
  nodeStatus <- LifeStatus(n), penalized <- Penalized(n), MaxFailures <- MaxProbes

(* Both modules count and score by HealthScore.                            *)
LEMMA SameScores ==
  /\ \A n, m : Life(n)!Restorable(m) = Restorable(m)
  /\ \A n, s : Life(n)!AfterProbe(s, TRUE, FALSE) = AfterProbe(s, TRUE, FALSE)
  /\ \A n, s : Life(n)!AfterProbe(s, FALSE, TRUE) = AfterProbe(s, FALSE, TRUE)
  <1>1. \A n, s : Life(n)!Read(s) = Read(s)
    BY DEF Life!Read, Read, Life!MaxScore, MaxScore
  <1>2. \A n, s, reachable : Life(n)!Counted(s, reachable) = Counted(s, reachable)
    BY DEF Life!Counted, Counted, Life!Succeeded, Succeeded, Life!Failed, Failed
  <1>3. \A n, s, withPenalty : Life(n)!RawScore(s, withPenalty) = RawScore(s, withPenalty)
    BY DEF Life!RawScore, RawScore, Life!Penalty, Penalty, Life!MaxScore, MaxScore
  <1>4. \A n, raw : Life(n)!Clamp(raw) = Clamp(raw)
    BY DEF Life!Clamp, Clamp, Life!MaxScore, MaxScore, Life!MinScore, MinScore
  <1>5. \A n, s, withPenalty : Life(n)!ComputeScore(s, withPenalty) = ComputeScore(s, withPenalty)
    BY <1>3, <1>4 DEF Life!ComputeScore, ComputeScore
  <1>6. \A n, m : Life(n)!Restorable(m) = Restorable(m)
    BY <1>5 DEF Life!Restorable, Restorable
  <1>7. \A n, s : Life(n)!AfterProbe(s, TRUE, FALSE) = AfterProbe(s, TRUE, FALSE)
    BY <1>1, <1>2, <1>5 DEF Life!AfterProbe, AfterProbe
  <1>8. \A n, s : Life(n)!AfterProbe(s, FALSE, TRUE) = AfterProbe(s, FALSE, TRUE)
    BY <1>1, <1>2, <1>5 DEF Life!AfterProbe, AfterProbe
  <1> QED
    BY <1>6, <1>7, <1>8

LEMMA FreshIsRestorable ==
  ASSUME NEW maxFailures \in Nat
  PROVE  FreshStatus \in Restorable(maxFailures)
  <1> DEFINE none == [FreshStatus EXCEPT !.score = 0]
  <1>1. /\ none \in [successCount : 0..4, failureCount : 0..maxFailures,
                    consecutiveFailures : 0..maxFailures, score : {0}]
        /\ none.consecutiveFailures = 0 /\ none.failureCount = 0 /\ none.successCount = 0
    BY DEF FreshStatus
  <1>2. ComputeScore(none, none.consecutiveFailures > 0) = MaxScore
    BY <1>1 DEF ComputeScore, Clamp, RawScore, Penalty, MinScore, MaxScore
  <1>3. FreshStatus = [none EXCEPT !.score = MaxScore]
    <2>1. none = [successCount |-> 0, failureCount |-> 0, consecutiveFailures |-> 0, score |-> 0]
      BY DEF FreshStatus
    <2> HIDE DEF none
    <2> QED
      BY <2>1 DEF FreshStatus
  <1> QED
    BY <1>1, <1>2, <1>3 DEF Restorable

(* Whatever the state file holds, or nothing: a life starts with it.       *)
LEMMA LifeBegins ==
  ASSUME Init, NEW n \in NodeKey
  PROVE  Life(n)!LifeInit
  <1>1. PICK saved \in [NodeKey -> Restored], list \in NodeLists :
          /\ until = [m \in NodeKey |-> saved[m][2]]
          /\ status = [m \in NodeKey |->
                         IF m \in ToSet(list) /\ saved[m][1] = NoStatus
                           THEN FreshStatus ELSE saved[m][1]]
    BY DEF Init
  <1>2. LifeStatus(n) = IF saved[n][1] = NoStatus THEN FreshStatus ELSE saved[n][1]
    BY <1>1, StatusFacts DEF Init, LifeStatus, Recording, Known
  <1>4. saved[n][1] \in Saved \cup {NoStatus}
    BY InitialStatuses
  <1>5. LifeStatus(n) \in Restorable(MaxProbes)
    BY <1>2, <1>4, SavedAssumption, FreshIsRestorable
  <1>6. Penalized(n) \in BOOLEAN
    BY DEF Penalized
  <1>7. Life(n)!Restorable(MaxProbes) = Restorable(MaxProbes)
    BY SameScores, Zenon
  <1> QED
    BY <1>5, <1>6, <1>7, Zenon DEF Life!LifeInit

(* What SetNodes does to the statuses is nothing to a life.                *)
LEMMA LifeIdle ==
  ASSUME NEW n \in NodeKey, ~Recording(n), ~Recording(n)',
         Known(n) => status'[n] = status[n],
         ~Known(n) => status'[n] \in {NoStatus, FreshStatus},
         UNCHANGED <<now, until>>
  PROVE  UNCHANGED Life(n)!life
  <1>1. LifeStatus(n)' = LifeStatus(n)
    BY StatusFacts DEF LifeStatus, Known
  <1>2. Penalized(n)' = Penalized(n)
    BY DEF Penalized
  <1> QED
    BY <1>1, <1>2 DEF Life!life

(* A probe takes effect in the life when it marks the pool.                *)
LEMMA LifeProbed ==
  ASSUME IInv, NEW n \in NodeKey, NEW reachable \in BOOLEAN, Probe(reachable), round[next] = n
  PROVE  Life(n)!LifeNext
  <1>1. next \in 1..Len(round) /\ Known(n) /\ status[n] \in StatusType
    BY RoundNodes DEF IInv, TypeOK, Place, Probe
  <1>2. /\ pc = "probing" /\ Recording(n)' /\ now' = now /\ now \in Nat /\ now > 0
        /\ until'[n] = IF reachable THEN 0 ELSE now + Window
        /\ draft' = Counted(Read(status[n]), reachable)
        /\ Probes(n) < MaxProbes
    BY DEF Probe, Goto, MarkResult, Recording, IInv, TypeOK
  <1>3. LifeStatus(n) = status[n]
    BY <1>1, <1>2 DEF LifeStatus, Recording
  <1>4. Penalized(n)' \in BOOLEAN /\ (Penalized(n)' <=> ~reachable)
    BY <1>2 DEF Penalized
  <1>5. LifeStatus(n)' = AfterProbe(status[n], reachable, Penalized(n)')
    BY <1>2 DEF LifeStatus, AfterProbe
  <1>6. LifeStatus(n).failureCount < MaxProbes
    BY <1>1, <1>2, <1>3 DEF Probes, StatusType
  <1>7. CASE reachable
    <2>1. Penalized(n)' = FALSE /\ reachable = TRUE
      BY <1>4, <1>7
    <2>2. LifeStatus(n)' = AfterProbe(LifeStatus(n), TRUE, FALSE)
      BY <1>3, <1>5, <2>1
    <2>3. Life(n)!AfterProbe(LifeStatus(n), TRUE, FALSE) = AfterProbe(LifeStatus(n), TRUE, FALSE)
      BY SameScores, Zenon
    <2>4. Life(n)!ProbeSucceeds
      BY <2>1, <2>2, <2>3, Zenon DEF Life!ProbeSucceeds
    <2> QED
      BY <2>4 DEF Life!LifeNext
  <1>8. CASE ~reachable
    <2>1. Penalized(n)' = TRUE /\ reachable = FALSE
      BY <1>4, <1>8
    <2>2. LifeStatus(n)' = AfterProbe(LifeStatus(n), FALSE, TRUE)
      BY <1>3, <1>5, <2>1
    <2>3. Life(n)!AfterProbe(LifeStatus(n), FALSE, TRUE) = AfterProbe(LifeStatus(n), FALSE, TRUE)
      BY SameScores, Zenon
    <2>4. Life(n)!ProbeFails
      BY <1>6, <2>1, <2>2, <2>3, Zenon DEF Life!ProbeFails
    <2> QED
      BY <2>4 DEF Life!LifeNext
  <1> QED
    BY <1>7, <1>8

(* Recording writes back what the life has already.                        *)
LEMMA LifeRecorded ==
  ASSUME IInv, NEW n \in NodeKey, Record, round[next] = n
  PROVE  UNCHANGED Life(n)!life
  <1>1. /\ pc = "recording" /\ pc' # "recording" /\ UNCHANGED <<now, until>>
        /\ status' = [status EXCEPT ![n] =
                        [draft EXCEPT !.score = ComputeScore(draft, Penalized(n))]]
    BY DEF Record, Goto
  <1> DEFINE new == [draft EXCEPT !.score = ComputeScore(draft, Penalized(n))]
  <1>2. new \in StatusType
    <2>1. draft \in StatusType /\ Penalized(n) \in BOOLEAN
      BY DEF IInv, TypeOK, Penalized
    <2>2. ComputeScore(draft, Penalized(n)) \in 0..MaxScore
      BY <2>1, ScoreFacts
    <2> QED
      BY <2>1, <2>2 DEF StatusType
  <1>3. LifeStatus(n) = new
    BY <1>1 DEF LifeStatus, Recording
  <1>4. status'[n] = new
    BY <1>1 DEF IInv, TypeOK
  <1>5. LifeStatus(n)' = new
    BY <1>1, <1>2, <1>4, StatusFacts DEF LifeStatus, Recording, Known
  <1>6. Penalized(n)' = Penalized(n)
    BY <1>1 DEF Penalized
  <1> QED
    BY <1>3, <1>5, <1>6 DEF Life!life

(* A list that is set during a recording leaves the draft alone.           *)
LEMMA LifeDrafted ==
  ASSUME NEW n \in NodeKey, Recording(n),
         UNCHANGED <<now, until, pc, round, next, draft>>
  PROVE  UNCHANGED Life(n)!life
  BY DEF Recording, LifeStatus, Penalized, Life!life

LEMMA LifeGoesOn ==
  ASSUME IInv, [Next]_vars, NEW n \in NodeKey
  PROVE  [Life(n)!LifeNext]_(Life(n)!life)
  <1>1. CASE Tick
    <2>1. /\ UNCHANGED <<until, status, pc, round, next, draft>> /\ pc # "recording"
          /\ now' = now + 1 /\ now \in Nat
      BY <1>1 DEF Tick, TimeAllowed, locals, IInv, TypeOK
    <2>2. LifeStatus(n)' = LifeStatus(n)
      BY <2>1 DEF LifeStatus, Recording, Known
    <2>3. until[n] \in Int
      BY DEF IInv, TypeOK
    <2>4. Penalized(n)' => Penalized(n)
      BY <2>1, <2>3 DEF Penalized
    <2>5. CASE Penalized(n)' = Penalized(n)
      BY <2>2, <2>5 DEF Life!life
    <2>6. CASE Penalized(n)' # Penalized(n)
      <3>1. Penalized(n) /\ Penalized(n)' = FALSE
        BY <2>4, <2>6 DEF Penalized
      <3>2. Life(n)!WindowEnds
        BY <2>2, <3>1 DEF Life!WindowEnds
      <3> QED
        BY <3>2 DEF Life!LifeNext
    <2> QED
      BY <2>5, <2>6
  <1>2. ASSUME NEW list \in NodeLists, RefreshSetsNodes(list)
        PROVE  UNCHANGED Life(n)!life
    <2>1. SetNodes(list) /\ UNCHANGED <<now, until, pc, round, next, draft>>
      BY <1>2 DEF RefreshSetsNodes, locals
    <2>2. Recording(n)' <=> Recording(n)
      BY <2>1 DEF Recording
    <2>3. /\ Known(n) => status'[n] = status[n]
          /\ ~Known(n) => status'[n] \in {NoStatus, FreshStatus}
      BY <2>1, NodeListsAssumption, SetNodesFacts DEF IInv, TypeOK
    <2> QED
      BY <2>1, <2>2, <2>3, LifeIdle, LifeDrafted
  <1>3. ASSUME pc # "recording", pc' # "recording", UNCHANGED <<now, until, status>>
        PROVE  UNCHANGED Life(n)!life
    <2>1. ~Known(n) => status[n] = NoStatus
      BY DEF Known
    <2> QED
      BY <1>3, <2>1, LifeIdle DEF Recording
  <1>4. CASE BeginRound \/ Filter \/ Sort \/ Decide
    BY <1>3, <1>4 DEF BeginRound, Filter, Sort, Decide, EndRound, Goto
  <1>5. ASSUME NEW reachable \in BOOLEAN, Probe(reachable)
        PROVE  [Life(n)!LifeNext]_(Life(n)!life)
    <2>1. CASE round[next] = n
      BY <1>5, <2>1, LifeProbed
    <2>2. CASE round[next] # n
      <3>1. ~Recording(n) /\ ~Recording(n)' /\ UNCHANGED <<now, status>>
        BY <1>5, <2>2 DEF Probe, Recording
      <3>2. until'[n] = until[n]
        BY <1>5, <2>2 DEF Probe, MarkResult, IInv, TypeOK
      <3>3. LifeStatus(n)' = LifeStatus(n)
        BY <3>1 DEF LifeStatus, Known
      <3>4. Penalized(n)' = Penalized(n)
        BY <3>1, <3>2 DEF Penalized
      <3> QED
        BY <3>3, <3>4 DEF Life!life
    <2> QED
      BY <2>1, <2>2
  <1>6. CASE Record
    <2>1. CASE round[next] = n
      BY <1>6, <2>1, LifeRecorded
    <2>2. CASE round[next] # n
      <3>1. ~Recording(n) /\ ~Recording(n)' /\ UNCHANGED <<now, until>>
        BY <1>6, <2>2 DEF Record, Recording, Goto
      <3>2. status'[n] = status[n]
        BY <1>6, <2>2 DEF Record, IInv, TypeOK
      <3>3. ~Known(n) => status[n] = NoStatus
        BY DEF Known
      <3> QED
        BY <3>1, <3>2, <3>3, LifeIdle
    <2> QED
      BY <2>1, <2>2
  <1>7. ASSUME NEW succeeds \in BOOLEAN, Rebuild(succeeds)
        PROVE  UNCHANGED Life(n)!life
    <2>1. /\ pc = "rebuilding" /\ pc' = "waiting" /\ UNCHANGED <<now, until>>
          /\ IF succeeds THEN SetNodes(Keys(candidates)) ELSE UNCHANGED status
      BY <1>7 DEF Rebuild, EndRound, Goto
    <2>2. CASE succeeds
      <3>1. Keys(candidates) \in Seq(NodeKey)
        <4>1. Len(candidates) \in Nat /\ DOMAIN candidates = 1..Len(candidates)
          BY DEF IInv, TypeOK
        <4>2. \A i \in 1..Len(candidates) : candidates[i].key \in NodeKey
          <5>1. \A i \in 1..Len(candidates) : candidates[i] \in Candidate
            BY ElementOfSeq DEF IInv, TypeOK
          <5> QED
            BY <5>1 DEF Candidate
        <4>3. Keys(candidates) \in [1..Len(candidates) -> NodeKey]
          BY <4>1, <4>2 DEF Keys
        <4> QED
          BY <4>1, <4>3, SeqDef
      <3>2. SetNodes(Keys(candidates))
        BY <2>1, <2>2
      <3>3. /\ Known(n) => status'[n] = status[n]
            /\ ~Known(n) => status'[n] \in {NoStatus, FreshStatus}
        BY <3>1, <3>2, SetNodesFacts DEF IInv, TypeOK
      <3> QED
        BY <2>1, <3>3, LifeIdle DEF Recording
    <2>3. CASE ~succeeds
      BY <1>3, <2>1, <2>3
    <2> QED
      BY <2>2, <2>3
  <1>8. CASE UNCHANGED vars
    BY <1>8 DEF vars, LifeStatus, Recording, Known, Penalized, Life!life
  <1> QED
    BY <1>1, <1>2, <1>4, <1>5, <1>6, <1>7, <1>8 DEF Next

(* Whatever lists the runtime sets and however the rounds go, each node    *)
(* has one life of ProbeHistory: its probes count one after the other, and *)
(* what ProbeHistory promises of scores holds for it (updatePenalties,     *)
(* SetNodes, RestoreSnapshot).                                             *)
THEOREM EveryNodeHasOneLife ==
  ASSUME NEW n \in NodeKey
  PROVE  Spec => Life(n)!LifeSpec
  <1>1. Init => Life(n)!LifeInit
    BY LifeBegins
  <1>2. IInv /\ [Next]_vars => [Life(n)!LifeNext]_(Life(n)!life)
    BY LifeGoesOn
  <1> QED
    BY InitIInv, NextIInv, <1>1, <1>2, PTL DEF Spec, Life!LifeSpec

=============================================================================
