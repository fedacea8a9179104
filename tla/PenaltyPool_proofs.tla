------------------------- MODULE PenaltyPool_proofs --------------------------
(***************************************************************************)
(* Proofs about PenaltyPool, for any set of nodes and callers, any window  *)
(* and any bound of the clock; the last one is about PenaltyPoolMC's       *)
(* history of what was free during a call.                                 *)
(***************************************************************************)
EXTENDS PenaltyPoolMC, TLAPS

(* While the checker is writing a failure, no window in the map ends after *)
(* the one it is about to write: it alone writes windows, from clock       *)
(* readings that never go back.                                            *)
MarkerIsLast ==
  pc[Checker] = "marking" =>
    \A n \in NodeKey : penalties[n] <= stamp[Checker] + Window

(* The inductive invariant.  NoPenaltyOutlastsWindow alone is not          *)
(* inductive: WriteFailure preserves it because a stamp is never ahead of  *)
(* the clock.                                                              *)
IInv ==
  /\ TypeOK
  /\ StampsArePast
  /\ NoPenaltyOutlastsWindow
  /\ MarkerIsLast

USE WindowAssumption, CheckerAssumption

LEMMA InitIInv == Init => IInv
<1> SUFFICES ASSUME Init PROVE IInv
  OBVIOUS
<1>1. PICK saved \in [NodeKey -> 0..(1 + Window)] : penalties = Restore(saved, 1)
  BY DEF Init
<1>2. \A n \in NodeKey : penalties[n] \in 0..(1 + Window)
  BY <1>1 DEF Restore
<1>3. TypeOK
  BY <1>1, <1>2 DEF Init, TypeOK, States, Restore
<1>4. StampsArePast /\ NoPenaltyOutlastsWindow /\ MarkerIsLast
  BY <1>2 DEF Init, StampsArePast, NoPenaltyOutlastsWindow, MarkerIsLast
<1> QED
  BY <1>3, <1>4 DEF IInv

LEMMA StepIInv == IInv /\ [Next]_vars => IInv'
<1> SUFFICES ASSUME IInv, [Next]_vars PROVE IInv'
  OBVIOUS
<1> USE DEF IInv, TypeOK, States, StampsArePast, NoPenaltyOutlastsWindow, MarkerIsLast
<1>1. CASE Tick
  BY <1>1 DEF Tick, scan
<1>2. ASSUME NEW n \in NodeKey, BeginMarkFailure(n) PROVE IInv'
  BY <1>2 DEF BeginMarkFailure, scan
<1>3. ASSUME NEW n \in NodeKey, MarkSuccess(n) PROVE IInv'
  BY <1>3 DEF MarkSuccess, scan
<1>4. CASE WriteFailure
  BY <1>4 DEF WriteFailure, scan
<1>5. ASSUME NEW c \in Caller, NEW S \in SUBSET NodeKey, BeginFilter(c, S) PROVE IInv'
  BY <1>5 DEF BeginFilter
<1>6. ASSUME NEW c \in Caller, NEW n \in NodeKey, ReadClock(c, n) PROVE IInv'
  BY <1>6 DEF ReadClock, scan
<1>7. ASSUME NEW c \in Caller, ReadPenalty(c) PROVE IInv'
  <2>1. todo' \in [Caller -> SUBSET NodeKey] /\ kept' \in [Caller -> SUBSET NodeKey]
    BY <1>7 DEF ReadPenalty, Asked
  <2>2. /\ pc' \in [Caller -> States]
        /\ pc'[Checker] = "marking" => pc[Checker] = "marking"
    BY <1>7 DEF ReadPenalty
  <2> QED
    BY <1>7, <2>1, <2>2 DEF ReadPenalty
<1>8. ASSUME NEW c \in Caller, Sweep(c) PROVE IInv'
  BY <1>8 DEF Sweep, Expired, Free, scan
<1>9. ASSUME NEW c \in Caller, EndFilter(c) PROVE IInv'
  BY <1>9 DEF EndFilter
<1>10. CASE UNCHANGED vars
  BY <1>10 DEF vars
<1> QED
  BY <1>1, <1>2, <1>3, <1>4, <1>5, <1>6, <1>7, <1>8, <1>9, <1>10 DEF Next

LEMMA Invariance == Spec => []IInv
BY InitIInv, StepIInv, PTL DEF Spec

(* The variables of the pool keep their types whatever the callers do.     *)
THEOREM TypeCorrect == Spec => []TypeOK
<1>1. IInv => TypeOK
  BY DEF IInv
<1> QED
  BY Invariance, <1>1, PTL

(* A node is never kept out for longer than one window (MarkFailure,       *)
(* Restore), for any number of nodes and callers.                          *)
THEOREM WindowBound == Spec => []NoPenaltyOutlastsWindow
<1>1. IInv => NoPenaltyOutlastsWindow
  BY DEF IInv
<1> QED
  BY Invariance, <1>1, PTL

-----------------------------------------------------------------------------

(* One step cannot cut a penalty in force short unless it records a        *)
(* success: the sweep looks again, and a failure only moves the end later. *)
LEMMA StepKeepsPenalty ==
  ASSUME IInv, [Next]_vars, NEW n \in NodeKey,
         penalties[n] > now, penalties'[n] < penalties[n]
  PROVE  MarkSuccess(n)
<1> USE DEF IInv, TypeOK
<1>1. CASE Tick
  BY <1>1 DEF Tick
<1>2. ASSUME NEW m \in NodeKey, BeginMarkFailure(m) PROVE FALSE
  BY <1>2 DEF BeginMarkFailure
<1>3. ASSUME NEW m \in NodeKey, MarkSuccess(m) PROVE MarkSuccess(n)
  <2>1. m = n
    BY <1>3 DEF MarkSuccess
  <2> QED
    BY <1>3, <2>1
<1>4. CASE WriteFailure
  BY <1>4 DEF WriteFailure, MarkerIsLast
<1>5. ASSUME NEW c \in Caller, NEW S \in SUBSET NodeKey, BeginFilter(c, S) PROVE FALSE
  BY <1>5 DEF BeginFilter
<1>6. ASSUME NEW c \in Caller, NEW m \in NodeKey, ReadClock(c, m) PROVE FALSE
  BY <1>6 DEF ReadClock
<1>7. ASSUME NEW c \in Caller, ReadPenalty(c) PROVE FALSE
  BY <1>7 DEF ReadPenalty
<1>8. ASSUME NEW c \in Caller, Sweep(c) PROVE FALSE
  <2>1. stamp[c] <= now /\ key[c] \in NodeKey
    BY DEF StampsArePast
  <2> QED
    BY <1>8, <2>1 DEF Sweep, Expired
<1>9. ASSUME NEW c \in Caller, EndFilter(c) PROVE FALSE
  BY <1>9 DEF EndFilter
<1>10. CASE UNCHANGED vars
  BY <1>10 DEF vars
<1> QED
  BY <1>1, <1>2, <1>3, <1>4, <1>5, <1>6, <1>7, <1>8, <1>9, <1>10 DEF Next

(* penaltyUntil's second look under the write lock is what makes this true *)
(* with any number of concurrent callers.                                  *)
THEOREM PenaltiesStand == Spec => PenaltyStands
<1>1. IInv /\ [Next]_vars =>
        [\A n \in NodeKey :
           (penalties[n] > now /\ penalties'[n] < penalties[n]) => MarkSuccess(n)]_vars
  BY StepKeepsPenalty
<1> QED
  BY Invariance, <1>1, PTL DEF Spec, PenaltyStands

-----------------------------------------------------------------------------

(* The ledger's deadlines, as the pool's state shows them.                 *)
Shown == [n \in NodeKey |-> IF penalties[n] > now THEN penalties[n] ELSE 0]

LEMMA InitRefines == Init => Ledger!Init
<1> SUFFICES ASSUME Init PROVE Ledger!Init
  OBVIOUS
<1>1. PICK saved \in [NodeKey -> 0..(1 + Window)] : penalties = Restore(saved, 1)
  BY DEF Init
<1>2. \A n \in NodeKey : penalties[n] \in 0..(1 + Window)
  BY <1>1 DEF Restore
<1>3. now = 1
  BY DEF Init
<1> QED
  BY <1>2, <1>3 DEF Ledger!Init

(* A step that leaves every deadline in force alone is a stutter.          *)
LEMMA ShownStutters ==
  ASSUME UNCHANGED now,
         \A n \in NodeKey : \/ penalties'[n] = penalties[n]
                            \/ ~(penalties[n] > now) /\ ~(penalties'[n] > now)
  PROVE  UNCHANGED Ledger!ledgerVars
<1>1. Shown' = Shown
  BY DEF Shown
<1> QED
  BY <1>1 DEF Ledger!ledgerVars, Shown

LEMMA StepRefines == IInv /\ [Next]_vars => [Ledger!Next]_(Ledger!ledgerVars)
<1> SUFFICES ASSUME IInv, [Next]_vars PROVE [Ledger!Next]_(Ledger!ledgerVars)
  OBVIOUS
<1> USE DEF IInv, TypeOK
<1>1. CASE Tick
  <2>1. now' = now + 1 /\ penalties' = penalties
    BY <1>1 DEF Tick
  <2>2. Shown' = [n \in NodeKey |-> Ledger!InForce(Shown[n], now')]
    BY <2>1 DEF Shown, Ledger!InForce
  <2>3. Ledger!Tick
    BY <2>1, <2>2 DEF Ledger!Tick, Shown
  <2> QED
    BY <2>3 DEF Ledger!Next
<1>2. ASSUME NEW n \in NodeKey, BeginMarkFailure(n) PROVE UNCHANGED Ledger!ledgerVars
  BY <1>2, ShownStutters DEF BeginMarkFailure
<1>3. ASSUME NEW n \in NodeKey, MarkSuccess(n) PROVE Ledger!Succeed(n)
  <2>1. now' = now /\ penalties' = [penalties EXCEPT ![n] = 0]
    BY <1>3 DEF MarkSuccess
  <2>2. Shown' = [Shown EXCEPT ![n] = 0]
    BY <2>1 DEF Shown
  <2> QED
    BY <2>1, <2>2 DEF Ledger!Succeed, Shown
<1>4. ASSUME WriteFailure PROVE \E n \in NodeKey : Ledger!Fail(n)
  <2>1. PICK n \in NodeKey : n = key[Checker]
    OBVIOUS
  <2>2. PICK until \in 0..(now + Window) : until = stamp[Checker] + Window
    BY DEF StampsArePast
  <2>3. now' = now /\ penalties' = [penalties EXCEPT ![n] = until]
    BY <1>4, <2>1, <2>2 DEF WriteFailure
  <2>4. Shown' = [Shown EXCEPT ![n] = Ledger!InForce(until, now)]
    BY <2>3 DEF Shown, Ledger!InForce
  <2>5. Ledger!Fail(n)
    BY <2>3, <2>4 DEF Ledger!Fail, Shown
  <2> QED
    BY <2>5
<1>5. ASSUME NEW c \in Caller, NEW S \in SUBSET NodeKey, BeginFilter(c, S)
      PROVE UNCHANGED Ledger!ledgerVars
  BY <1>5, ShownStutters DEF BeginFilter
<1>6. ASSUME NEW c \in Caller, NEW n \in NodeKey, ReadClock(c, n)
      PROVE UNCHANGED Ledger!ledgerVars
  BY <1>6, ShownStutters DEF ReadClock
<1>7. ASSUME NEW c \in Caller, ReadPenalty(c) PROVE UNCHANGED Ledger!ledgerVars
  BY <1>7, ShownStutters DEF ReadPenalty
<1>8. ASSUME NEW c \in Caller, Sweep(c) PROVE UNCHANGED Ledger!ledgerVars
  <2>1. stamp[c] <= now /\ key[c] \in NodeKey
    BY DEF StampsArePast
  <2>2. UNCHANGED now
    BY <1>8 DEF Sweep
  <2>3. \A n \in NodeKey : \/ penalties'[n] = penalties[n]
                           \/ ~(penalties[n] > now) /\ ~(penalties'[n] > now)
    BY <1>8, <2>1 DEF Sweep, Expired
  <2> QED
    BY <2>2, <2>3, ShownStutters
<1>9. ASSUME NEW c \in Caller, EndFilter(c) PROVE UNCHANGED Ledger!ledgerVars
  BY <1>9, ShownStutters DEF EndFilter
<1>10. CASE UNCHANGED vars
  BY <1>10, ShownStutters DEF vars
<1> QED
  BY <1>1, <1>2, <1>3, <1>4, <1>5, <1>6, <1>7, <1>8, <1>9, <1>10 DEF Next, Ledger!Next

(* The pool, with its lazy clean-up and its unlocked clock readings, does  *)
(* nothing the ledger does not allow.                                      *)
THEOREM ImplementsLedger == Spec => LedgerSpec
BY Invariance, InitRefines, StepRefines, PTL DEF Spec, LedgerSpec, Ledger!Spec

-----------------------------------------------------------------------------

(* A caller in the middle of a filter call asks only about nodes it was    *)
(* given, at least one; outside a call nothing is kept.                    *)
Scanning(c) == pc[c] \in {"filtering", "asking", "sweeping"}

ScanInv(c) ==
  /\ Scanning(c) => input[c] # {}
  /\ ~Scanning(c) => kept[c] = {}
  /\ todo[c] \subseteq input[c]
  /\ kept[c] \subseteq input[c]
  /\ pc[c] = "asking" => key[c] \in todo[c]

(* Whatever is free now has been seen so by every call under way: what is  *)
(* found free or expired in the map is free, as the reading of the clock   *)
(* it is compared with is not from the future.                             *)
SeenInv(c) ==
  /\ kept[c] \subseteq seenFree[c]
  /\ pc[c] # "idle" => FreeNow \subseteq seenFree[c]

(* FilterAnswersTruly with what it rests on.                               *)
AnswersInv == IInv /\ \A c \in Caller : ScanInv(c) /\ SeenInv(c)

LEMMA StepOfScan ==
  ASSUME IInv, Next, NEW d \in Caller, ScanInv(d)
  PROVE  /\ ScanInv(d)'
         /\ kept'[d] \subseteq kept[d] \cup FreeNow
         /\ pc[d] # "asking" => kept'[d] \subseteq kept[d]
<1> USE DEF IInv, TypeOK, ScanInv, Scanning
<1>1. CASE Tick
  BY <1>1 DEF Tick, scan
<1>2. ASSUME NEW n \in NodeKey, BeginMarkFailure(n)
      PROVE  ScanInv(d)' /\ kept'[d] \subseteq kept[d]
  BY <1>2 DEF BeginMarkFailure, scan
<1>3. ASSUME NEW n \in NodeKey, MarkSuccess(n)
      PROVE  ScanInv(d)' /\ kept'[d] \subseteq kept[d]
  BY <1>3 DEF MarkSuccess, scan
<1>4. CASE WriteFailure
  BY <1>4 DEF WriteFailure, scan
<1>5. ASSUME NEW c \in Caller, NEW S \in SUBSET NodeKey, BeginFilter(c, S)
      PROVE  ScanInv(d)' /\ kept'[d] \subseteq kept[d]
  BY <1>5 DEF BeginFilter
<1>6. ASSUME NEW c \in Caller, NEW n \in NodeKey, ReadClock(c, n)
      PROVE  ScanInv(d)' /\ kept'[d] \subseteq kept[d]
  BY <1>6 DEF ReadClock, scan
<1>7. ASSUME NEW c \in Caller, ReadPenalty(c)
      PROVE  /\ ScanInv(d)'
             /\ kept'[d] \subseteq kept[d] \cup FreeNow
             /\ pc[d] # "asking" => kept'[d] \subseteq kept[d]
  <2>1. Free(c) \/ Expired(c) => key[c] \in FreeNow
    BY DEF Free, Expired, FreeNow, StampsArePast
  <2>2. /\ pc[c] = "asking" /\ pc'[c] \in {"filtering", "sweeping"}
        /\ d # c => pc'[d] = pc[d]
        /\ key' = key /\ input' = input
    BY <1>7 DEF ReadPenalty
  <2>3. /\ todo'[d] \subseteq todo[d]
        /\ d # c => todo'[d] = todo[d] /\ kept'[d] = kept[d]
        /\ kept'[c] \subseteq kept[c] \cup {key[c]}
        /\ kept'[c] # kept[c] => Free(c) \/ Expired(c)
    BY <1>7 DEF ReadPenalty, Asked
  <2> QED
    BY <2>1, <2>2, <2>3
<1>8. ASSUME NEW c \in Caller, Sweep(c)
      PROVE  ScanInv(d)' /\ kept'[d] \subseteq kept[d]
  BY <1>8 DEF Sweep, scan
<1>9. ASSUME NEW c \in Caller, EndFilter(c)
      PROVE  ScanInv(d)' /\ kept'[d] \subseteq kept[d]
  BY <1>9 DEF EndFilter
<1> QED
  BY <1>1, <1>2, <1>3, <1>4, <1>5, <1>6, <1>7, <1>8, <1>9 DEF Next

LEMMA StepAnswers == AnswersInv /\ [NextMC]_<<vars, seenFree>> => AnswersInv'
<1> SUFFICES ASSUME AnswersInv, [NextMC]_<<vars, seenFree>> PROVE AnswersInv'
  OBVIOUS
<1>1. CASE NextMC
  <2>1. Next /\ IInv /\ IInv'
    BY <1>1, StepIInv DEF NextMC, AnswersInv
  <2>2. ASSUME NEW c \in Caller PROVE ScanInv(c)' /\ SeenInv(c)'
    <3>1. /\ ScanInv(c)'
          /\ kept'[c] \subseteq kept[c] \cup FreeNow
          /\ pc[c] # "asking" => kept'[c] \subseteq kept[c]
      BY <2>1, StepOfScan DEF AnswersInv
    <3>2. seenFree'[c] = IF pc'[c] = "idle" THEN {}
                         ELSE IF pc[c] = "idle" THEN FreeNow'
                         ELSE seenFree[c] \cup FreeNow'
      BY <1>1 DEF NextMC
    <3>3. pc'[c] = "idle" \/ pc[c] = "idle" => kept'[c] = {}
      <4>1. CASE pc'[c] = "idle"
        BY <3>1, <4>1 DEF ScanInv, Scanning
      <4>2. CASE pc[c] = "idle"
        BY <3>1, <4>2 DEF AnswersInv, ScanInv, Scanning
      <4> QED
        BY <4>1, <4>2
    <3> QED
      BY <3>1, <3>2, <3>3 DEF AnswersInv, SeenInv
  <2> QED
    BY <2>1, <2>2 DEF AnswersInv
<1>2. CASE UNCHANGED <<vars, seenFree>>
  <2>1. IInv'
    BY <1>2, StepIInv DEF AnswersInv
  <2>2. ASSUME NEW c \in Caller PROVE ScanInv(c)' /\ SeenInv(c)'
    BY <1>2 DEF AnswersInv, ScanInv, SeenInv, Scanning, FreeNow, vars
  <2> QED
    BY <2>1, <2>2 DEF AnswersInv
<1> QED
  BY <1>1, <1>2

(* FilterCandidatesWithStats tells the truth to any number of concurrent   *)
(* callers: a node passes as free only if it was free during the call, and *)
(* what is returned is not empty and is either such nodes or all of them.  *)
THEOREM FilterIsTruthful == SpecMC => []FilterAnswersTruly
<1>1. InitMC => AnswersInv
  <2> SUFFICES ASSUME InitMC PROVE AnswersInv
    OBVIOUS
  <2>1. IInv
    BY InitIInv DEF InitMC
  <2> QED
    BY <2>1 DEF InitMC, Init, AnswersInv, ScanInv, SeenInv, Scanning
<1>2. AnswersInv => FilterAnswersTruly
  <2> SUFFICES ASSUME AnswersInv, NEW c \in Caller
               PROVE  /\ kept[c] \subseteq seenFree[c]
                      /\ (pc[c] = "filtering" /\ todo[c] = {}) =>
                           /\ Filtered(c) # {}
                           /\ Filtered(c) \subseteq seenFree[c] \/ Filtered(c) = input[c]
                           /\ Filtered(c) \subseteq input[c]
    BY DEF FilterAnswersTruly
  <2> QED
    BY DEF AnswersInv, ScanInv, SeenInv, Scanning, Filtered
<1> QED
  BY <1>1, <1>2, StepAnswers, PTL DEF SpecMC

=============================================================================
