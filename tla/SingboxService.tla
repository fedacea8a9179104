--------------------------- MODULE SingboxService ----------------------------
(***************************************************************************)
(* internal/core/singbox/service.go: the wrapper that owns the sing-box    *)
(* instance.  Start, Rebuild and Close may be called by several goroutines *)
(* (refresher, checker, shutdown); s.mu is held for a whole call, but the  *)
(* instances live outside the lock: what they hold (the listening port) is *)
(* visible to the machine between any two steps.                           *)
(*                                                                         *)
(* An instance is a number in 1..made, `current` is 0 for nil.  Closing an *)
(* instance releases what it holds even when Close reports an error, which *)
(* is how sing-box closes its parts (external to this repository).         *)
(***************************************************************************)
EXTENDS Naturals

CONSTANTS
  Caller,    \* goroutines that call the service
  Config,    \* candidate lists a call can ask for
  Down,      \* no core serving
  MaxBox     \* bound on the instances created, for model checking

ASSUME DownAssumption == Down \notin Config
ASSUME MaxBoxAssumption == MaxBox \in Nat
ASSUME ConfigAssumption == Config # {}

Box == 1..MaxBox

Op == {"start", "rebuild", "close"}

States == {"idle", "calling", "closing", "building", "creating", "starting", "aborting"}

BoxStates == {"absent", "created", "half", "up", "closed"}

VARIABLES
  holder,    \* SUBSET Caller: who is inside s.mu
  pc,        \* where each caller is
  op,        \* the call it makes
  config,    \* and its argument
  current,   \* s.current
  old,       \* the instance closeLocked took out of s.current
  made,      \* instances created so far
  box,       \* [Box -> BoxStates]
  built,     \* [Box -> Config]: what each instance was created from
  stats      \* SUBSET Config: the candidate list s.lastBuildStats is about

vars == <<holder, pc, op, config, current, old, made, box, built, stats>>

TypeOK ==
  /\ holder \in SUBSET Caller
  /\ pc \in [Caller -> States]
  /\ op \in [Caller -> Op]
  /\ config \in [Caller -> Config]
  /\ current \in {0} \cup Box
  /\ old \in {0} \cup Box
  /\ made \in 0..MaxBox
  /\ box \in [Box -> BoxStates]
  /\ built \in [Box -> Config]
  /\ stats \in SUBSET Config

-----------------------------------------------------------------------------

Init ==
  /\ holder = {}
  /\ pc = [c \in Caller |-> "idle"]
  /\ op = [c \in Caller |-> "close"]
  /\ config \in [Caller -> Config]
  /\ current = 0
  /\ old = 0
  /\ made = 0
  /\ box = [b \in Box |-> "absent"]
  /\ built \in [Box -> Config]
  /\ stats = {}

Goto(c, to) == pc' = [pc EXCEPT ![c] = to]

(* Every return runs the deferred Unlock.                                  *)
Return(c) == Goto(c, "idle") /\ holder' = {}

Call(c, operation, list) ==
  /\ pc[c] = "idle"
  /\ Goto(c, "calling")
  /\ op' = [op EXCEPT ![c] = operation]
  /\ config' = [config EXCEPT ![c] = list]
  /\ UNCHANGED <<holder, current, old, made, box, built, stats>>

MutantStartReplaces(c) ==
  /\ pc[c] = "calling" /\ op[c] = "start" /\ holder = {}
  /\ holder' = {c} /\ Goto(c, "building")
  /\ UNCHANGED <<op, config, current, old, made, box, built, stats>>

MutantEarlyReturnKeepsLock(c) ==
  /\ pc[c] = "calling" /\ op[c] = "start" /\ holder = {}
  /\ holder' = {c}
  /\ Goto(c, IF current # 0 THEN "idle" ELSE "building")
  /\ UNCHANGED <<op, config, current, old, made, box, built, stats>>

MutantStatsBeforeCheck(c) ==
  /\ pc[c] = "calling" /\ op[c] = "start" /\ holder = {}
  /\ stats' = {config[c]}
  /\ IF current # 0 THEN Return(c) ELSE holder' = {c} /\ Goto(c, "building")
  /\ UNCHANGED <<op, config, current, old, made, box, built>>

MutantStartReconfigures(c) ==
  /\ pc[c] = "calling" /\ op[c] = "start" /\ holder = {}
  /\ IF current # 0
       THEN built' = [built EXCEPT ![current] = config[c]] /\ Return(c)
       ELSE holder' = {c} /\ Goto(c, "building") /\ UNCHANGED built
  /\ UNCHANGED <<op, config, current, old, made, box, stats>>

(* Start is refused, at once, while an instance is running.                *)
LockStart(c) ==
  /\ pc[c] = "calling" /\ op[c] = "start" /\ holder = {}
  /\ IF current # 0 THEN Return(c) ELSE holder' = {c} /\ Goto(c, "building")
  /\ UNCHANGED <<op, config, current, old, made, box, built, stats>>

(* Rebuild and Close begin with closeLocked, which forgets the instance    *)
(* before it closes it.                                                    *)
LockClose(c) ==
  /\ pc[c] = "calling" /\ op[c] \in {"rebuild", "close"} /\ holder = {}
  /\ IF current # 0
       THEN holder' = {c} /\ Goto(c, "closing")
       ELSE IF op[c] = "rebuild"
         THEN holder' = {c} /\ Goto(c, "building")
         ELSE Return(c)
  /\ old' = current
  /\ current' = 0
  /\ UNCHANGED <<op, config, made, box, built, stats>>

(* An error of Close ends the call: Rebuild then leaves no instance.       *)
CloseOld(c) ==
  /\ pc[c] = "closing"
  /\ box' = [box EXCEPT ![old] = "closed"]
  /\ \/ op[c] = "rebuild" /\ Goto(c, "building") /\ UNCHANGED holder
     \/ Return(c)
  /\ UNCHANGED <<op, config, current, old, made, built, stats>>

(* builder.Build, whose statistics are kept whether it fails or not.       *)
BuildOptions(c) ==
  /\ pc[c] = "building"
  /\ stats' = {config[c]}
  /\ \/ Goto(c, "creating") /\ UNCHANGED holder
     \/ Return(c)
  /\ UNCHANGED <<op, config, current, old, made, box, built>>

MutantNewBoxTwice(c) ==
  /\ pc[c] = "creating"
  /\ \/ /\ made < MaxBox
        /\ made' = made + 2
        /\ box' = [box EXCEPT ![made'] = "created"]
        /\ built' = [built EXCEPT ![made'] = config[c]]
        /\ Goto(c, "starting")
        /\ UNCHANGED holder
     \/ /\ Return(c)
        /\ UNCHANGED <<made, box, built>>
  /\ UNCHANGED <<op, config, current, old, stats>>

NewBox(c) ==
  /\ pc[c] = "creating"
  /\ \/ /\ made < MaxBox
        /\ made' = made + 1
        /\ box' = [box EXCEPT ![made'] = "created"]
        /\ built' = [built EXCEPT ![made'] = config[c]]
        /\ Goto(c, "starting")
        /\ UNCHANGED holder
     \/ /\ Return(c)
        /\ UNCHANGED <<made, box, built>>
  /\ UNCHANGED <<op, config, current, old, stats>>

MutantFailedStartLeaks(c) ==
  /\ pc[c] = "starting"
  /\ \/ /\ box' = [box EXCEPT ![made] = "up"]
        /\ current' = made
        /\ Return(c)
     \/ /\ box' = [box EXCEPT ![made] = "half"]
        /\ Return(c)
        /\ UNCHANGED current
  /\ UNCHANGED <<op, config, old, made, built, stats>>

(* An instance that fails to start may already hold some of its ports.     *)
StartBox(c) ==
  /\ pc[c] = "starting"
  /\ \/ /\ box' = [box EXCEPT ![made] = "up"]
        /\ current' = made
        /\ Return(c)
     \/ /\ box' = [box EXCEPT ![made] = "half"]
        /\ Goto(c, "aborting")
        /\ UNCHANGED <<holder, current>>
  /\ UNCHANGED <<op, config, old, made, built, stats>>

AbortBox(c) ==
  /\ pc[c] = "aborting"
  /\ box' = [box EXCEPT ![made] = "closed"]
  /\ Return(c)
  /\ UNCHANGED <<op, config, current, old, made, built, stats>>

Acquire(c) == LockStart(c) \/ LockClose(c)

Proceed(c) ==
  CloseOld(c) \/ BuildOptions(c) \/ NewBox(c) \/ StartBox(c) \/ AbortBox(c)

Next ==
  \E c \in Caller :
    \/ \E operation \in Op, list \in Config : Call(c, operation, list)
    \/ Acquire(c)
    \/ Proceed(c)

Spec == Init /\ [][Next]_vars

(* A call inside the lock goes on, and a sync.Mutex hands itself to a      *)
(* waiter that has been waiting, so that no caller is passed over forever. *)
Fairness == \A c \in Caller : WF_vars(Proceed(c)) /\ SF_vars(Acquire(c))

FairSpec == Spec /\ Fairness

-----------------------------------------------------------------------------

HoldsPorts(b) == box[b] \in {"half", "up"}

(* At no instant do two instances hold the listening port, whatever the    *)
(* interleaving of Start, Rebuild and Close and whichever of their steps   *)
(* fail: closing comes before starting, and a failed start is undone.      *)
OneBoxHoldsPorts ==
  \A a, b \in Box : HoldsPorts(a) /\ HoldsPorts(b) => a = b

(* Between calls nothing is left behind: the instances still alive are     *)
(* exactly s.current.  In particular a failed start leaves no orphan that  *)
(* would keep the port from the next attempt.                              *)
NothingLeaks ==
  holder = {} =>
    \A b \in Box :
      /\ b = current <=> box[b] = "up"
      /\ box[b] \in {"absent", "up", "closed"}

(* LastBuildStats describes the instance that is running, when one is: a   *)
(* refused Start does not overwrite it.                                    *)
StatsDescribeCurrent ==
  (holder = {} /\ current # 0) => stats = {built[current]}

(* Every call comes back: no path leaves s.mu locked.                      *)
EveryCallReturns == \A c \in Caller : pc[c] # "idle" ~> pc[c] = "idle"

(* The service behaves, for its users, as a core that is down or serving.  *)
Up == {b \in Box : box[b] = "up"}

Serving == IF Up = {} THEN Down ELSE built[CHOOSE b \in Up : TRUE]

Lifecycle == INSTANCE CoreLifecycle WITH serving <- Serving

LifecycleSpec == Lifecycle!Spec

=============================================================================
