------------------------------ MODULE LogBuffer ------------------------------
(***************************************************************************)
(* internal/observability/logbuffer.go: a ring of the latest log entries,  *)
(* written by every goroutine that logs and read by the management API.    *)
(* Append and Snapshot hold the buffer's lock from beginning to end, so    *)
(* each is one step.                                                       *)
(***************************************************************************)
EXTENDS Naturals, Sequences

CONSTANTS
  Entries,   \* log entries
  Capacity,  \* NewLogBuffer makes it 1 at least
  NoEntry    \* a slot that was never written

ASSUME CapacityAssumption == Capacity \in Nat \ {0}

VARIABLES
  entries,   \* the slots, from 0
  next,      \* the slot to be written next
  size,      \* slots in use
  truncated

ring == <<entries, next, size, truncated>>

Slots == 0..(Capacity - 1)

RingTypeOK ==
  /\ entries \in [Slots -> Entries \cup {NoEntry}]
  /\ next \in Slots
  /\ size \in 0..Capacity
  /\ truncated \in BOOLEAN

RingInit ==
  /\ entries = [slot \in Slots |-> NoEntry]
  /\ next = 0 /\ size = 0 /\ truncated = FALSE

MutantAppendEntry(entry) ==
  /\ entries' = [entries EXCEPT ![next] = entry]
  /\ next' = (next + 1) % Capacity
  /\ IF size < Capacity - 1
       THEN size' = size + 1 /\ UNCHANGED truncated
       ELSE truncated' = TRUE /\ UNCHANGED size

AppendEntry(entry) ==
  /\ entries' = [entries EXCEPT ![next] = entry]
  /\ next' = (next + 1) % Capacity
  /\ IF size < Capacity
       THEN size' = size + 1 /\ UNCHANGED truncated
       ELSE truncated' = TRUE /\ UNCHANGED size

(* Snapshot: the oldest entry is where the next one will go, once the ring *)
(* is full.                                                                *)
Start == IF size = Capacity THEN next ELSE 0
Items == [i \in 1..size |-> entries[(Start + i - 1) % Capacity]]

RingNext == \E entry \in Entries : AppendEntry(entry)
RingSpec == RingInit /\ [][RingNext]_ring

-----------------------------------------------------------------------------
(* Wherever the ring stands, what Snapshot returns are the latest entries  *)
(* in the order they were appended, and truncated tells that older ones    *)
(* are gone.                                                               *)
History == INSTANCE LogHistory WITH recent <- Items, lost <- truncated
HistorySpec == History!Spec
=============================================================================
