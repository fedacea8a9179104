----------------------------- MODULE PenaltyPool -----------------------------
(***************************************************************************)
(* internal/health/penalty_pool.go: the table of penalty windows that the  *)
(* checker writes and filters candidates with.  Callers run concurrently;  *)
(* the RWMutex makes each access to the map atomic, but reading the clock, *)
(* reading the map and cleaning up an expired entry are separate steps, and *)
(* each of these is an action here.                                        *)
(*                                                                         *)
(* A time is a number of ticks.  penalties[n] = 0 stands for a key that is *)
(* not in the map: no stored deadline is ever 0.                           *)
(***************************************************************************)
EXTENDS Naturals, FiniteSets

CONSTANTS
  NodeKey,   \* node keys; the empty key, which every method ignores, is not one
  Caller,    \* goroutines that call the pool
  Checker,   \* the one that records results: the checker starts one goroutine only
  Window,    \* the penalty window
  MaxNow     \* bound of the clock, for model checking

ASSUME WindowAssumption == Window \in Nat \ {0}
ASSUME MaxNowAssumption == MaxNow \in Nat
ASSUME CheckerAssumption == Checker \in Caller
ASSUME NodeKeyAssumption == NodeKey # {}

VARIABLES
  now,        \* the clock nowFunc reads
  penalties,  \* [NodeKey -> Nat]: p.penalties, 0 for an absent key
  pc,         \* where each caller is
  key,        \* the node each caller is busy with
  stamp,      \* each caller's local variable `now`
  input,      \* the candidates a caller asked to filter
  todo,       \* those of them still to be asked about
  kept        \* those found free so far: `filtered`

vars == <<now, penalties, pc, key, stamp, input, todo, kept>>

scan == <<input, todo, kept>>

States == {"idle", "marking", "filtering", "asking", "sweeping"}

TypeOK ==
  /\ now \in Nat
  /\ penalties \in [NodeKey -> Nat]
  /\ pc \in [Caller -> States]
  /\ key \in [Caller -> NodeKey]
  /\ stamp \in [Caller -> Nat]
  /\ input \in [Caller -> SUBSET NodeKey]
  /\ todo \in [Caller -> SUBSET NodeKey]
  /\ kept \in [Caller -> SUBSET NodeKey]

-----------------------------------------------------------------------------

(* What Restore puts in the map: the saved windows that are not over yet.  *)
Restore(saved, at) == [n \in NodeKey |-> IF saved[n] > at THEN saved[n] ELSE 0]

(* The pool is restored once, before anyone else sees it, from windows     *)
(* that an earlier pool wrote and that its clock bounds.                   *)
Init ==
  /\ now = 1
  /\ \E saved \in [NodeKey -> 0..(1 + Window)] : penalties = Restore(saved, 1)
  /\ pc = [c \in Caller |-> "idle"]
  /\ key \in [Caller -> NodeKey]
  /\ stamp = [c \in Caller |-> 0]
  /\ input = [c \in Caller |-> {}]
  /\ todo = [c \in Caller |-> {}]
  /\ kept = [c \in Caller |-> {}]

Tick ==
  /\ now < MaxNow
  /\ now' = now + 1
  /\ UNCHANGED <<penalties, pc, key, stamp, scan>>

(* MarkFailure reads the clock before it takes the lock ...                *)
BeginMarkFailure(n) ==
  /\ pc[Checker] = "idle"
  /\ pc' = [pc EXCEPT ![Checker] = "marking"]
  /\ key' = [key EXCEPT ![Checker] = n]
  /\ stamp' = [stamp EXCEPT ![Checker] = now]
  /\ UNCHANGED <<now, penalties, scan>>

MutantStackedWindow ==
  /\ pc[Checker] = "marking"
  /\ penalties' = [penalties EXCEPT ![key[Checker]] =
                     IF @ = 0 THEN stamp[Checker] + Window ELSE @ + Window]
  /\ pc' = [pc EXCEPT ![Checker] = "idle"]
  /\ UNCHANGED <<now, key, stamp, scan>>

(* ... and writes the window that starts at that reading under it.         *)
WriteFailure ==
  /\ pc[Checker] = "marking"
  /\ penalties' = [penalties EXCEPT ![key[Checker]] = stamp[Checker] + Window]
  /\ pc' = [pc EXCEPT ![Checker] = "idle"]
  /\ UNCHANGED <<now, key, stamp, scan>>

MarkSuccess(n) ==
  /\ pc[Checker] = "idle"
  /\ penalties' = [penalties EXCEPT ![n] = 0]
  /\ UNCHANGED <<now, pc, key, stamp, scan>>

(* FilterCandidatesWithStats over any non-empty list, in any order;        *)
(* IsPenalized alone is the list with one node.                            *)
BeginFilter(c, S) ==
  /\ pc[c] = "idle"
  /\ S # {}
  /\ pc' = [pc EXCEPT ![c] = "filtering"]
  /\ input' = [input EXCEPT ![c] = S]
  /\ todo' = [todo EXCEPT ![c] = S]
  /\ kept' = [kept EXCEPT ![c] = {}]
  /\ UNCHANGED <<now, penalties, key, stamp>>

(* penaltyUntil, first the clock ...                                       *)
ReadClock(c, n) ==
  /\ pc[c] = "filtering"
  /\ n \in todo[c]
  /\ pc' = [pc EXCEPT ![c] = "asking"]
  /\ key' = [key EXCEPT ![c] = n]
  /\ stamp' = [stamp EXCEPT ![c] = now]
  /\ UNCHANGED <<now, penalties, scan>>

Free(c) == penalties[key[c]] = 0

MutantExpiredEarly(c) == ~Free(c) /\ penalties[key[c]] <= stamp[c] + 1

Expired(c) == ~Free(c) /\ penalties[key[c]] <= stamp[c]

Asked(c, verdict) ==
  /\ todo' = [todo EXCEPT ![c] = @ \ {key[c]}]
  /\ kept' = [kept EXCEPT ![c] = IF verdict = "free" THEN @ \cup {key[c]} ELSE @]

(* ... then the map under the read lock: absent and unexpired entries are  *)
(* answered at once, an expired one means "free" and is to be removed.     *)
ReadPenalty(c) ==
  /\ pc[c] = "asking"
  /\ \/ /\ Free(c)
        /\ Asked(c, "free")
        /\ pc' = [pc EXCEPT ![c] = "filtering"]
     \/ /\ Expired(c)
        /\ Asked(c, "free")
        /\ pc' = [pc EXCEPT ![c] = "sweeping"]
     \/ /\ ~Free(c) /\ ~Expired(c)
        /\ Asked(c, "penalised")
        /\ pc' = [pc EXCEPT ![c] = "filtering"]
  /\ UNCHANGED <<now, penalties, key, stamp, input>>

MutantBlindSweep(c) ==
  /\ pc[c] = "sweeping"
  /\ penalties' = [penalties EXCEPT ![key[c]] = 0]
  /\ pc' = [pc EXCEPT ![c] = "filtering"]
  /\ UNCHANGED <<now, key, stamp, scan>>

(* The removal takes the write lock and looks again: a failure recorded    *)
(* since the read lock was released must not be lost.                      *)
Sweep(c) ==
  /\ pc[c] = "sweeping"
  /\ penalties' = [penalties EXCEPT ![key[c]] = IF Expired(c) THEN 0 ELSE @]
  /\ pc' = [pc EXCEPT ![c] = "filtering"]
  /\ UNCHANGED <<now, key, stamp, scan>>

(* What the filter returns: the free nodes, or every node when none is.    *)
Filtered(c) == IF kept[c] = {} THEN input[c] ELSE kept[c]

EndFilter(c) ==
  /\ pc[c] = "filtering"
  /\ todo[c] = {}
  /\ pc' = [pc EXCEPT ![c] = "idle"]
  /\ input' = [input EXCEPT ![c] = {}]
  /\ kept' = [kept EXCEPT ![c] = {}]
  /\ UNCHANGED <<now, penalties, key, stamp, todo>>

Next ==
  \/ Tick
  \/ \E n \in NodeKey : BeginMarkFailure(n) \/ MarkSuccess(n)
  \/ WriteFailure
  \/ \E c \in Caller :
       \/ \E S \in SUBSET NodeKey : BeginFilter(c, S)
       \/ \E n \in NodeKey : ReadClock(c, n)
       \/ ReadPenalty(c) \/ Sweep(c) \/ EndFilter(c)

Spec == Init /\ [][Next]_vars

-----------------------------------------------------------------------------

(* No node stays out for longer than one window: whatever was restored,    *)
(* however many failures were recorded and however late their callers      *)
(* wrote them, no deadline is more than Window ahead of the clock          *)
(* (MarkFailure replaces the deadline, it never adds to it).               *)
NoPenaltyOutlastsWindow == \A n \in NodeKey : penalties[n] <= now + Window

(* Clock readings are never from the future: what makes an answer based on *)
(* a reading that is old by the time it is used still a safe one.          *)
StampsArePast == \A c \in Caller : stamp[c] <= now

(* A penalty in force is cut short by a success only: neither the lazy     *)
(* clean-up of another caller (penaltyUntil's second look under the write  *)
(* lock) nor a later failure may shorten it.                               *)
PenaltyStands ==
  [][\A n \in NodeKey :
       (penalties[n] > now /\ penalties'[n] < penalties[n])
         => MarkSuccess(n)]_vars

(* The pool implements the ledger: expired entries that nobody has asked   *)
(* about yet do not count, and removing them is not an event.              *)
Ledger == INSTANCE PenaltyLedger WITH
            now <- now,
            deadline <- [n \in NodeKey |-> IF penalties[n] > now THEN penalties[n] ELSE 0]

LedgerSpec == Ledger!Spec

=============================================================================
