------------------------ MODULE SingboxService_proofs ------------------------
(***************************************************************************)
(* Proofs about SingboxService, for any callers, configurations and number *)
(* of instances.                                                           *)
(***************************************************************************)
EXTENDS SingboxService, TLAPS

Inside == {"closing", "building", "creating", "starting", "aborting"}

(* s.mu excludes: at most one caller is inside, and exactly the callers    *)
(* that are inside hold it.                                                *)
LockInv ==
  /\ \A c \in Caller : c \in holder <=> pc[c] \in Inside
  /\ \A a, b \in holder : a = b

Quiet(b) == box[b] \in {"absent", "closed"}

(* What the caller inside the lock knows of the instances at each point.   *)
HolderAt(c) ==
  /\ pc[c] = "closing" =>
       /\ current = 0 /\ old \in Box /\ box[old] = "up"
       /\ \A b \in Box : b # old => Quiet(b)
  /\ pc[c] \in {"building", "creating"} =>
       current = 0 /\ \A b \in Box : Quiet(b)
  /\ pc[c] = "starting" =>
       /\ current = 0 /\ made \in Box /\ box[made] = "created"
       /\ built[made] = config[c]
       /\ \A b \in Box : b # made => Quiet(b)
  /\ pc[c] = "aborting" =>
       /\ current = 0 /\ made \in Box /\ box[made] = "half"
       /\ \A b \in Box : b # made => Quiet(b)
  /\ pc[c] \in {"creating", "starting"} => stats = {config[c]}

HolderInv == \A c \in Caller : HolderAt(c)

(* Instances that were not created yet hold nothing.                       *)
FreshInv == \A b \in Box : b > made => box[b] = "absent"

(* The inductive invariant.                                                *)
IInv ==
  /\ TypeOK
  /\ LockInv
  /\ HolderInv
  /\ FreshInv
  /\ NothingLeaks
  /\ StatsDescribeCurrent

USE MaxBoxAssumption, ConfigAssumption

LEMMA InitIInv == Init => IInv
<1> SUFFICES ASSUME Init PROVE IInv
  OBVIOUS
<1>1. TypeOK
  BY DEF Init, TypeOK, Op, States, BoxStates, Box
<1>2. LockInv /\ HolderInv /\ FreshInv
  BY DEF Init, LockInv, Inside, HolderInv, HolderAt, FreshInv, Box
<1>3. NothingLeaks /\ StatsDescribeCurrent
  BY DEF Init, NothingLeaks, StatsDescribeCurrent, Box
<1> QED
  BY <1>1, <1>2, <1>3 DEF IInv

LEMMA StepIInv == IInv /\ [Next]_vars => IInv'
<1> SUFFICES ASSUME IInv, [Next]_vars PROVE IInv'
  OBVIOUS
<1> USE DEF IInv, Goto, Return
<1>1. ASSUME NEW c \in Caller, NEW o \in Op, NEW l \in Config, Call(c, o, l) PROVE IInv'
  BY <1>1 DEF Call, TypeOK, States, LockInv, Inside, HolderInv, HolderAt,
              Quiet, FreshInv, NothingLeaks, StatsDescribeCurrent
<1>2. ASSUME NEW c \in Caller, LockStart(c) PROVE IInv'
  <2>1. TypeOK'
    BY <1>2 DEF LockStart, TypeOK, States
  <2>2. LockInv'
    BY <1>2 DEF LockStart, LockInv, Inside, TypeOK, States
  <2>3. HolderInv'
    <3>1. HolderAt(c)'
      BY <1>2, <2>1 DEF LockStart, HolderInv, HolderAt, Quiet, TypeOK, Box, NothingLeaks,
                       FreshInv
    <3>2. \A d \in Caller : d # c => pc'[d] \notin Inside
      BY <1>2 DEF LockStart, LockInv, Inside, TypeOK
    <3>3. \A d \in Caller : d # c => HolderAt(d)'
      BY <3>2 DEF HolderAt, Inside
    <3> QED
      BY <3>1, <3>3 DEF HolderInv
  <2>4. FreshInv'
    BY <1>2, <2>1 DEF LockStart, FreshInv, HolderInv, HolderAt, TypeOK, Box
  <2>5. NothingLeaks' /\ StatsDescribeCurrent'
    BY <1>2, <2>1 DEF LockStart, NothingLeaks, StatsDescribeCurrent, HolderInv, HolderAt,
                     Quiet, LockInv, Inside, TypeOK, Box
  <2> QED
    BY <2>1, <2>2, <2>3, <2>4, <2>5 DEF IInv
<1>3. ASSUME NEW c \in Caller, LockClose(c) PROVE IInv'
  <2>1. TypeOK'
    BY <1>3 DEF LockClose, TypeOK, States
  <2>2. LockInv'
    BY <1>3 DEF LockClose, LockInv, Inside, TypeOK, States
  <2>3. HolderInv'
    <3>1. HolderAt(c)'
      BY <1>3, <2>1 DEF LockClose, HolderInv, HolderAt, Quiet, TypeOK, Box, NothingLeaks,
                       FreshInv
    <3>2. \A d \in Caller : d # c => pc'[d] \notin Inside
      BY <1>3 DEF LockClose, LockInv, Inside, TypeOK
    <3>3. \A d \in Caller : d # c => HolderAt(d)'
      BY <3>2 DEF HolderAt, Inside
    <3> QED
      BY <3>1, <3>3 DEF HolderInv
  <2>4. FreshInv'
    BY <1>3, <2>1 DEF LockClose, FreshInv, HolderInv, HolderAt, TypeOK, Box
  <2>5. NothingLeaks' /\ StatsDescribeCurrent'
    BY <1>3, <2>1 DEF LockClose, NothingLeaks, StatsDescribeCurrent, HolderInv, HolderAt,
                     Quiet, LockInv, Inside, TypeOK, Box
  <2> QED
    BY <2>1, <2>2, <2>3, <2>4, <2>5 DEF IInv
<1>4. ASSUME NEW c \in Caller, CloseOld(c) PROVE IInv'
  <2>1. TypeOK'
    BY <1>4 DEF CloseOld, TypeOK, States, BoxStates
  <2>2. LockInv'
    BY <1>4 DEF CloseOld, LockInv, Inside, TypeOK, States
  <2>3. HolderInv'
    <3>1. HolderAt(c)'
      BY <1>4, <2>1 DEF CloseOld, HolderInv, HolderAt, Quiet, TypeOK, Box, NothingLeaks,
                       FreshInv
    <3>2. \A d \in Caller : d # c => pc'[d] \notin Inside
      BY <1>4 DEF CloseOld, LockInv, Inside, TypeOK
    <3>3. \A d \in Caller : d # c => HolderAt(d)'
      BY <3>2 DEF HolderAt, Inside
    <3> QED
      BY <3>1, <3>3 DEF HolderInv
  <2>4. FreshInv'
    BY <1>4, <2>1 DEF CloseOld, FreshInv, HolderInv, HolderAt, TypeOK, Box
  <2>5. NothingLeaks' /\ StatsDescribeCurrent'
    BY <1>4, <2>1 DEF CloseOld, NothingLeaks, StatsDescribeCurrent, HolderInv, HolderAt,
                     Quiet, LockInv, Inside, TypeOK, Box
  <2> QED
    BY <2>1, <2>2, <2>3, <2>4, <2>5 DEF IInv
<1>5. ASSUME NEW c \in Caller, BuildOptions(c) PROVE IInv'
  <2>1. TypeOK'
    BY <1>5 DEF BuildOptions, TypeOK, States
  <2>2. LockInv'
    BY <1>5 DEF BuildOptions, LockInv, Inside, TypeOK, States
  <2>3. HolderInv'
    <3>1. HolderAt(c)'
      BY <1>5, <2>1 DEF BuildOptions, HolderInv, HolderAt, Quiet, TypeOK, Box, NothingLeaks,
                       FreshInv
    <3>2. \A d \in Caller : d # c => pc'[d] \notin Inside
      BY <1>5 DEF BuildOptions, LockInv, Inside, TypeOK
    <3>3. \A d \in Caller : d # c => HolderAt(d)'
      BY <3>2 DEF HolderAt, Inside
    <3> QED
      BY <3>1, <3>3 DEF HolderInv
  <2>4. FreshInv'
    BY <1>5, <2>1 DEF BuildOptions, FreshInv, HolderInv, HolderAt, TypeOK, Box
  <2>5. NothingLeaks' /\ StatsDescribeCurrent'
    BY <1>5, <2>1 DEF BuildOptions, NothingLeaks, StatsDescribeCurrent, HolderInv, HolderAt,
                     Quiet, LockInv, Inside, TypeOK, Box
  <2> QED
    BY <2>1, <2>2, <2>3, <2>4, <2>5 DEF IInv
<1>6. ASSUME NEW c \in Caller, NewBox(c) PROVE IInv'
  <2>1. TypeOK'
    <3>1. CASE made' = made + 1 /\ made < MaxBox
      <4>1. made' \in Box
        BY <3>1 DEF TypeOK, Box
      <4>2. /\ box' = [box EXCEPT ![made'] = "created"]
            /\ built' = [built EXCEPT ![made'] = config[c]]
        BY <1>6, <3>1 DEF NewBox, TypeOK
      <4>3. box' \in [Box -> BoxStates] /\ built' \in [Box -> Config]
        BY <4>1, <4>2 DEF TypeOK, BoxStates
      <4> QED
        BY <1>6, <4>1, <4>3 DEF NewBox, TypeOK, States, Box
    <3>2. CASE UNCHANGED <<made, box, built>>
      BY <1>6, <3>2 DEF NewBox, TypeOK, States
    <3> QED
      BY <1>6, <3>1, <3>2 DEF NewBox
  <2>2. LockInv'
    BY <1>6 DEF NewBox, LockInv, Inside, TypeOK, States
  <2>3. HolderInv'
    <3>1. HolderAt(c)'
      BY <1>6, <2>1 DEF NewBox, HolderInv, HolderAt, Quiet, TypeOK, Box, NothingLeaks,
                       FreshInv
    <3>2. \A d \in Caller : d # c => pc'[d] \notin Inside
      BY <1>6 DEF NewBox, LockInv, Inside, TypeOK
    <3>3. \A d \in Caller : d # c => HolderAt(d)'
      BY <3>2 DEF HolderAt, Inside
    <3> QED
      BY <3>1, <3>3 DEF HolderInv
  <2>4. FreshInv'
    BY <1>6, <2>1 DEF NewBox, FreshInv, HolderInv, HolderAt, TypeOK, Box
  <2>5. NothingLeaks' /\ StatsDescribeCurrent'
    BY <1>6, <2>1, SMTT(30) DEF NewBox, NothingLeaks, StatsDescribeCurrent, HolderInv, HolderAt,
                     Quiet, LockInv, Inside, TypeOK, Box
  <2> QED
    BY <2>1, <2>2, <2>3, <2>4, <2>5 DEF IInv
<1>7. ASSUME NEW c \in Caller, StartBox(c) PROVE IInv'
  <2>1. TypeOK'
    <3>1. made \in Box
      BY <1>7 DEF StartBox, HolderInv, HolderAt
    <3> QED
      BY <1>7, <3>1 DEF StartBox, TypeOK, States, BoxStates
  <2>2. LockInv'
    BY <1>7 DEF StartBox, LockInv, Inside, TypeOK, States
  <2>3. HolderInv'
    <3>1. HolderAt(c)'
      BY <1>7, <2>1 DEF StartBox, HolderInv, HolderAt, Quiet, TypeOK, Box, NothingLeaks,
                       FreshInv
    <3>2. \A d \in Caller : d # c => pc'[d] \notin Inside
      BY <1>7 DEF StartBox, LockInv, Inside, TypeOK
    <3>3. \A d \in Caller : d # c => HolderAt(d)'
      BY <3>2 DEF HolderAt, Inside
    <3> QED
      BY <3>1, <3>3 DEF HolderInv
  <2>4. FreshInv'
    BY <1>7, <2>1 DEF StartBox, FreshInv, HolderInv, HolderAt, TypeOK, Box
  <2>5. NothingLeaks' /\ StatsDescribeCurrent'
    BY <1>7, <2>1 DEF StartBox, NothingLeaks, StatsDescribeCurrent, HolderInv, HolderAt,
                     Quiet, LockInv, Inside, TypeOK, Box
  <2> QED
    BY <2>1, <2>2, <2>3, <2>4, <2>5 DEF IInv
<1>8. ASSUME NEW c \in Caller, AbortBox(c) PROVE IInv'
  <2>1. TypeOK'
    BY <1>8 DEF AbortBox, TypeOK, States, BoxStates
  <2>2. LockInv'
    BY <1>8 DEF AbortBox, LockInv, Inside, TypeOK, States
  <2>3. HolderInv'
    <3>1. HolderAt(c)'
      BY <1>8, <2>1 DEF AbortBox, HolderInv, HolderAt, Quiet, TypeOK, Box, NothingLeaks,
                       FreshInv
    <3>2. \A d \in Caller : d # c => pc'[d] \notin Inside
      BY <1>8 DEF AbortBox, LockInv, Inside, TypeOK
    <3>3. \A d \in Caller : d # c => HolderAt(d)'
      BY <3>2 DEF HolderAt, Inside
    <3> QED
      BY <3>1, <3>3 DEF HolderInv
  <2>4. FreshInv'
    BY <1>8, <2>1 DEF AbortBox, FreshInv, HolderInv, HolderAt, TypeOK, Box
  <2>5. NothingLeaks' /\ StatsDescribeCurrent'
    BY <1>8, <2>1 DEF AbortBox, NothingLeaks, StatsDescribeCurrent, HolderInv, HolderAt,
                     Quiet, LockInv, Inside, TypeOK, Box
  <2> QED
    BY <2>1, <2>2, <2>3, <2>4, <2>5 DEF IInv
<1>9. CASE UNCHANGED vars
  BY <1>9 DEF vars, TypeOK, LockInv, HolderInv, HolderAt, Quiet, FreshInv, NothingLeaks,
              StatsDescribeCurrent
<1> QED
  BY <1>1, <1>2, <1>3, <1>4, <1>5, <1>6, <1>7, <1>8, <1>9 DEF Next, Acquire, Proceed

LEMMA Invariance == Spec => []IInv
BY InitIInv, StepIInv, PTL DEF Spec

(* The variables keep their types.                                         *)
THEOREM TypeCorrect == Spec => []TypeOK
<1>1. IInv => TypeOK
  BY DEF IInv
<1> QED
  BY Invariance, <1>1, PTL

LEMMA IInvImpliesOneBox == IInv => OneBoxHoldsPorts
<1> SUFFICES ASSUME IInv, NEW a \in Box, NEW b \in Box, HoldsPorts(a), HoldsPorts(b)
             PROVE a = b
  BY DEF OneBoxHoldsPorts
<1>1. CASE holder = {}
  BY <1>1 DEF IInv, NothingLeaks, HoldsPorts
<1>2. CASE holder # {}
  <2>1. PICK c \in Caller : c \in holder
    BY <1>2 DEF IInv, TypeOK
  <2>2. pc[c] \in Inside /\ HolderAt(c)
    BY <2>1 DEF IInv, LockInv, HolderInv
  <2> QED
    BY <2>2 DEF Inside, HolderAt, Quiet, HoldsPorts
<1> QED
  BY <1>1, <1>2

(* Never two instances on the port, for any number of goroutines calling   *)
(* Start, Rebuild and Close and any pattern of failures.                   *)
THEOREM MutualExclusion == Spec => []OneBoxHoldsPorts
BY Invariance, IInvImpliesOneBox, PTL

(* Whenever no call is in progress, the live instances are s.current and   *)
(* no other.                                                               *)
THEOREM NoLeak == Spec => []NothingLeaks
<1>1. IInv => NothingLeaks
  BY DEF IInv
<1> QED
  BY Invariance, <1>1, PTL

(* The build statistics shown are those of the running instance.           *)
THEOREM StatsCorrect == Spec => []StatsDescribeCurrent
<1>1. IInv => StatsDescribeCurrent
  BY DEF IInv
<1> QED
  BY Invariance, <1>1, PTL

-----------------------------------------------------------------------------

(* A step that neither starts nor closes a running instance is invisible.  *)
LEMMA ServingStutters ==
  ASSUME Up' = Up, \A b \in Up : built'[b] = built[b]
  PROVE  Serving' = Serving
BY DEF Serving

LEMMA StepRefines == IInv /\ [Next]_vars => [Lifecycle!Next]_Serving
<1> SUFFICES ASSUME IInv, [Next]_vars PROVE [Lifecycle!Next]_Serving
  OBVIOUS
<1> USE DEF IInv
<1>1. ASSUME NEW c \in Caller, NEW o \in Op, NEW l \in Config, Call(c, o, l)
      PROVE Serving' = Serving
  BY <1>1, ServingStutters DEF Call, Up
<1>2. ASSUME NEW c \in Caller, LockStart(c) PROVE Serving' = Serving
  BY <1>2, ServingStutters DEF LockStart, Up
<1>3. ASSUME NEW c \in Caller, LockClose(c) PROVE Serving' = Serving
  BY <1>3, ServingStutters DEF LockClose, Up
<1>4. ASSUME NEW c \in Caller, CloseOld(c) PROVE Lifecycle!Stop
  <2>1. /\ old \in Box /\ box[old] = "up"
        /\ \A b \in Box : b # old => Quiet(b)
    BY <1>4 DEF CloseOld, HolderInv, HolderAt
  <2>2. Up = {old} /\ Up' = {}
    BY <1>4, <2>1 DEF CloseOld, Up, Quiet, TypeOK
  <2>3. Serving \in Config /\ Serving' = Down
    BY <2>1, <2>2 DEF Serving, TypeOK
  <2> QED
    BY <2>3, DownAssumption DEF Lifecycle!Stop
<1>5. ASSUME NEW c \in Caller, BuildOptions(c) PROVE Serving' = Serving
  BY <1>5, ServingStutters DEF BuildOptions, Up
<1>6. ASSUME NEW c \in Caller, NewBox(c) PROVE Serving' = Serving
  <2>1. \A b \in Box : Quiet(b)
    BY <1>6 DEF NewBox, HolderInv, HolderAt
  <2>2. Up = {} /\ Up' = {}
    BY <1>6, <2>1 DEF NewBox, Up, Quiet, TypeOK
  <2> QED
    BY <2>2 DEF Serving
<1>7. ASSUME NEW c \in Caller, StartBox(c)
      PROVE Serving' = Serving \/ \E l \in Config : Lifecycle!Bring(l)
  <2>1. /\ made \in Box /\ box[made] = "created"
        /\ \A b \in Box : b # made => Quiet(b)
    BY <1>7 DEF StartBox, HolderInv, HolderAt
  <2>2. Up = {}
    BY <2>1 DEF Up, Quiet
  <2>3. CASE box' = [box EXCEPT ![made] = "up"]
    <3>1. Up' = {made} /\ built' = built
      BY <1>7, <2>1, <2>2, <2>3 DEF StartBox, Up, TypeOK
    <3>2. Serving = Down /\ Serving' \in Config
      BY <2>1, <2>2, <3>1 DEF Serving, TypeOK
    <3> QED
      BY <3>2 DEF Lifecycle!Bring
  <2>4. CASE box' = [box EXCEPT ![made] = "half"]
    <3>1. Up' = {}
      BY <2>1, <2>2, <2>4 DEF Up, TypeOK
    <3> QED
      BY <2>2, <3>1 DEF Serving
  <2> QED
    BY <1>7, <2>3, <2>4 DEF StartBox
<1>8. ASSUME NEW c \in Caller, AbortBox(c) PROVE Serving' = Serving
  <2>1. /\ made \in Box /\ box[made] = "half"
        /\ \A b \in Box : b # made => Quiet(b)
    BY <1>8 DEF AbortBox, HolderInv, HolderAt
  <2>2. Up = {} /\ Up' = {}
    BY <1>8, <2>1 DEF AbortBox, Up, Quiet, TypeOK
  <2> QED
    BY <2>2 DEF Serving
<1>9. CASE UNCHANGED vars
  BY <1>9, ServingStutters DEF vars, Up
<1> QED
  BY <1>1, <1>2, <1>3, <1>4, <1>5, <1>6, <1>7, <1>8, <1>9
     DEF Next, Acquire, Proceed, Lifecycle!Next

(* The service implements the core its users assume: it goes down before   *)
(* it serves another configuration, and serves one at a time.              *)
THEOREM ImplementsLifecycle == Spec => LifecycleSpec
<1>1. Init => Lifecycle!Init
  BY DEF Init, Serving, Up, Lifecycle!Init
<1> QED
  BY <1>1, Invariance, StepRefines, PTL DEF Spec, LifecycleSpec, Lifecycle!Spec

=============================================================================
