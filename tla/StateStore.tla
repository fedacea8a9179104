------------------------------ MODULE StateStore ------------------------------
(***************************************************************************)
(* internal/state/store.go and the flushes of internal/app/runtime.go: the *)
(* health data of a node, saved by the refresher after each refresh and by *)
(* main at shutdown, while the checker goes on changing it, and restored   *)
(* at the next start.  The process may be killed between any two steps.    *)
(*                                                                         *)
(* What is saved is told apart by versions: a probe of the node first gives *)
(* the penalty pool a new version, then the checker's status.  The file is *)
(* the JSON text in three pieces, written in this order: penalty_until,    *)
(* node_statuses, and the end of the text, without which it does not parse. *)
(***************************************************************************)
EXTENDS Integers

CONSTANTS
  Refresher, Main,   \* the goroutines that flush
  MaxProbes,         \* bound of the versions
  MaxStarts          \* bound of the starts of the program

ASSUME FlusherAssumption == Refresher # Main
ASSUME MaxProbesAssumption == MaxProbes \in Nat
ASSUME MaxStartsAssumption == MaxStarts \in Nat

Flusher == {Refresher, Main}

Version == 0..MaxProbes

(* A piece that is not there.                                              *)
Missing == -1

States == {"idle", "reading", "saving", "opening", "penalties", "statuses", "end"}

Phases == {"running", "stopping", "saved", "exited", "killed"}

VARIABLES
  process,      \* of the process
  starts,     \* starts of the program so far
  pool,       \* version of the penalty pool
  status,     \* version of the checker's statuses
  recording,  \* the checker has marked the pool and not yet the status
  pc,         \* where each flusher is
  draft,      \* the state.Snapshot each flusher is saving
  mu,         \* SUBSET Flusher: who holds Store.mu
  file        \* the state file; empty and absent are the same to Load

store == <<process, starts, pool, status, recording, pc, draft, mu, file>>

unsaved == <<pool, status, recording>>

Piece == Version \cup {Missing}

StoreTypeOK ==
  /\ process \in Phases
  /\ starts \in 1..(MaxStarts + 1)
  /\ pool \in Version
  /\ status \in Version
  /\ recording \in BOOLEAN
  /\ pc \in [Flusher -> States]
  /\ draft \in [Flusher -> [pool : Version, status : Version]]
  /\ mu \in SUBSET Flusher
  /\ file \in [pool : Piece, status : Piece, ended : BOOLEAN]

EmptyFile == [pool |-> Missing, status |-> Missing, ended |-> FALSE]

EmptyDraft == [pool |-> 0, status |-> 0]

Alive == process \in {"running", "stopping", "saved"}

Parses == file.pool # Missing /\ file.status # Missing /\ file.ended

StoreInit ==
  /\ process = "running"
  /\ starts = 1
  /\ pool = 0
  /\ status = 0
  /\ recording = FALSE
  /\ pc = [f \in Flusher |-> "idle"]
  /\ draft = [f \in Flusher |-> EmptyDraft]
  /\ mu = {}
  /\ file = EmptyFile

-----------------------------------------------------------------------------
(* The checker: updatePenalties, for as long as the process lives.         *)

Mark ==
  /\ Alive
  /\ ~recording /\ pool < MaxProbes
  /\ pool' = pool + 1
  /\ recording' = TRUE
  /\ UNCHANGED <<process, starts, status, pc, draft, mu, file>>

Record ==
  /\ Alive
  /\ recording
  /\ status' = pool
  /\ recording' = FALSE
  /\ UNCHANGED <<process, starts, pool, pc, draft, mu, file>>

-----------------------------------------------------------------------------
(* flushState.                                                             *)

Goto(f, to) == pc' = [pc EXCEPT ![f] = to]

(* The refresher flushes after a refresh, also one that is under way when  *)
(* the signal comes; main once, after the signal.                          *)
MayFlush(f) == f = Main => process = "stopping"

(* checker.Snapshot ...                                                    *)
ReadStatuses(f) ==
  /\ Alive /\ pc[f] = "idle" /\ MayFlush(f)
  /\ draft' = [draft EXCEPT ![f] = [pool |-> 0, status |-> status]]
  /\ Goto(f, "reading")
  /\ UNCHANGED <<process, starts, unsaved, mu, file>>

(* ... and then penalty.Snapshot.                                          *)
ReadPenalties(f) ==
  /\ Alive /\ pc[f] = "reading"
  /\ draft' = [draft EXCEPT ![f] = [pool |-> pool, status |-> draft[f].status]]
  /\ Goto(f, "saving")
  /\ UNCHANGED <<process, starts, unsaved, mu, file>>

Return(f) ==
  /\ Goto(f, "idle")
  /\ mu' = mu \ {f}
  /\ draft' = [draft EXCEPT ![f] = EmptyDraft]
  /\ process' = IF f = Main THEN "saved" ELSE process

MutantLockShared(f) ==
  /\ Alive /\ pc[f] = "saving"
  /\ mu' = mu \cup {f}
  /\ Goto(f, "opening")
  /\ UNCHANGED <<process, starts, unsaved, draft, file>>

(* Save takes the lock.                                                    *)
Lock(f) ==
  /\ Alive /\ pc[f] = "saving" /\ mu = {}
  /\ mu' = {f}
  /\ Goto(f, "opening")
  /\ UNCHANGED <<process, starts, unsaved, draft, file>>

(* MkdirAll or the opening may fail; opening truncates.                    *)
Open(f) ==
  /\ Alive /\ pc[f] = "opening"
  /\ file' = EmptyFile
  /\ Goto(f, "penalties")
  /\ UNCHANGED <<process, starts, unsaved, draft, mu>>

WritePenalties(f) ==
  /\ Alive /\ pc[f] = "penalties"
  /\ file' = [pool |-> draft[f].pool, status |-> file.status, ended |-> file.ended]
  /\ Goto(f, "statuses")
  /\ UNCHANGED <<process, starts, unsaved, draft, mu>>

WriteStatuses(f) ==
  /\ Alive /\ pc[f] = "statuses"
  /\ file' = [pool |-> file.pool, status |-> draft[f].status, ended |-> file.ended]
  /\ Goto(f, "end")
  /\ UNCHANGED <<process, starts, unsaved, draft, mu>>

WriteEnd(f) ==
  /\ Alive /\ pc[f] = "end"
  /\ file' = [pool |-> file.pool, status |-> file.status, ended |-> TRUE]
  /\ Return(f)
  /\ UNCHANGED <<starts, unsaved>>

MutantFailureKeepsLock(f) ==
  /\ Alive /\ pc[f] \in {"opening", "penalties", "statuses", "end"}
  /\ Goto(f, "idle")
  /\ draft' = [draft EXCEPT ![f] = EmptyDraft]
  /\ process' = IF f = Main THEN "saved" ELSE process
  /\ UNCHANGED <<starts, unsaved, mu, file>>

(* Any of them may fail; what has been written stays.                      *)
WriteFails(f) ==
  /\ Alive /\ pc[f] \in {"opening", "penalties", "statuses", "end"}
  /\ Return(f)
  /\ UNCHANGED <<starts, unsaved, file>>

-----------------------------------------------------------------------------
(* The process.                                                            *)

Signal ==
  /\ process = "running"
  /\ process' = "stopping"
  /\ UNCHANGED <<starts, unsaved, pc, draft, mu, file>>

(* A process that ends takes its goroutines with it.                       *)
Ends(how) ==
  /\ process' = how
  /\ pc' = [f \in Flusher |-> "idle"]
  /\ draft' = [f \in Flusher |-> EmptyDraft]
  /\ mu' = {}
  /\ recording' = FALSE
  /\ UNCHANGED <<starts, pool, status, file>>

(* Close has flushed and closed the core; main returns.                    *)
Exit == process = "saved" /\ Ends("exited")

Kill == Alive /\ Ends("killed")

MutantRestoreStatusesOnly ==
  /\ status' = IF file.status # Missing THEN file.status ELSE 0
  /\ pool' = 0

(* Load: all of the file or, when it does not parse, nothing.              *)
Restore ==
  /\ status' = IF Parses THEN file.status ELSE 0
  /\ pool' = IF Parses THEN file.pool ELSE 0

Start ==
  /\ ~Alive
  /\ starts <= MaxStarts
  /\ starts' = starts + 1
  /\ process' = "running"
  /\ Restore
  /\ UNCHANGED <<recording, pc, draft, mu, file>>

FlushStep(f) ==
  \/ ReadPenalties(f) \/ Lock(f) \/ Open(f)
  \/ WritePenalties(f) \/ WriteStatuses(f) \/ WriteEnd(f) \/ WriteFails(f)

MainStep == ReadStatuses(Main) \/ FlushStep(Main) \/ Exit

StoreNext ==
  \/ Mark
  \/ Record
  \/ \E f \in Flusher : ReadStatuses(f) \/ FlushStep(f)
  \/ Signal
  \/ Exit
  \/ Kill
  \/ Start

StoreSpec == StoreInit /\ [][StoreNext]_store

(* A goroutine that can go on does; the lock is handed to who waits.       *)
StoreFairness ==
  /\ WF_store(FlushStep(Refresher))
  /\ WF_store(MainStep)
  /\ SF_store(Lock(Main))

StoreFairSpec == StoreSpec /\ StoreFairness

-----------------------------------------------------------------------------

(* The penalties of a saved state are never older than its statuses: a     *)
(* failure that the statuses know of has had its penalty recorded (and     *)
(* perhaps lifted by something newer), so that no restart brings back a    *)
(* node as failing but selectable.  Two facts keep it: updatePenalties     *)
(* marks the pool before the status, flushState reads them the other way.  *)
(* (And the variables keep their types.)                                   *)
PenaltiesNotOlder ==
  /\ StoreTypeOK
  /\ status <= pool
  /\ Parses => file.status <= file.pool

(* Main always gets through Close, whoever holds the store's lock and      *)
(* whatever fails.                                                         *)
ShutdownEnds == process = "stopping" ~> ~Alive

=============================================================================
