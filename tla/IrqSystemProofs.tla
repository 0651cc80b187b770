-------------------------- MODULE IrqSystemProofs --------------------------
(***************************************************************************)
(* Proofs about the interrupt controller with its processors, for any      *)
(* number of processors, any lines in use, any cascade line, any devices   *)
(* and any values written by software.                                     *)
(***************************************************************************)
EXTENDS IrqSystem, WellFoundedInduction, TLAPS

-----------------------------------------------------------------------------
(* The priority encoder                                                    *)

\* A non-empty set of naturals has a smallest element.
LEMMA SmallestExists ==
    ASSUME NEW S \in SUBSET Nat, S # {}
    PROVE  \E x \in S : \A y \in S : x =< y
<1>1. \E x \in S : \A y \in S : <<y, x>> \notin OpToRel(<, Nat)
  BY NatLessThanWellFounded, WFMin
<1>2. PICK x \in S : \A y \in S : <<y, x>> \notin OpToRel(<, Nat)
  BY <1>1
<1>3. ASSUME NEW y \in S PROVE x =< y
  <2>1. <<y, x>> \notin OpToRel(<, Nat)
    BY <1>2
  <2>2. ~ (y < x)
    BY <2>1 DEF OpToRel
  <2> QED BY <2>2
<1> QED BY <1>3

\* The smallest of a set of line numbers is one of them.
LEMMA MinInSet ==
    ASSUME NEW S \in SUBSET (1..15), S # {}
    PROVE  Min(S) \in S
<1>1. \E x \in S : \A y \in S : x =< y
  BY SmallestExists
<1> QED BY <1>1 DEF Min

\* The largest of a set of line numbers is one of them.
LEMMA MaxInSet ==
    ASSUME NEW S \in SUBSET (1..15), S # {}
    PROVE  Max(S) \in S
<1> DEFINE T == {15 - x : x \in S}
<1>1. PICK t \in T : \A u \in T : t =< u
  <2>1. T \in SUBSET Nat
    OBVIOUS
  <2>2. T # {}
    OBVIOUS
  <2> QED BY <2>1, <2>2, SmallestExists
<1>2. PICK m \in S : t = 15 - m
  OBVIOUS
<1>3. \A y \in S : m >= y
  <2> TAKE y \in S
  <2>1. t =< 15 - y
    BY <1>1
  <2> QED BY <2>1, <1>2
<1> QED BY <1>3 DEF Max

\* launch_irq selects none or one of the regular lines it is given.
LEMMA HighestIsGiven ==
    ASSUME NEW irqs
    PROVE  /\ Highest(irqs) = 0 \/ Highest(irqs) \in irqs \cap Regular
           /\ irqs \cap Regular # {} => Highest(irqs) # 0
<1> DEFINE level1 == irqs \cap level \cap Regular
           level0 == (irqs \ level) \cap Regular
<1>1. level1 \in SUBSET (1..15) /\ level0 \in SUBSET (1..15)
  BY DEF Regular
<1>2. level1 # {} => Max(level1) \in irqs \cap Regular /\ Max(level1) # 0
  BY <1>1, MaxInSet DEF Regular
<1>3. level0 # {} => Max(level0) \in irqs \cap Regular /\ Max(level0) # 0
  BY <1>1, MaxInSet DEF Regular
<1>4. irqs \cap Regular # {} => level1 # {} \/ level0 # {}
  OBVIOUS
<1> QED BY <1>2, <1>3, <1>4 DEF Highest

-----------------------------------------------------------------------------
(* Type correctness                                                        *)

\* Lowering all the requests writes pairs and port values of their types.
LEMMA LowerAllType ==
    ASSUME NEW irq \in 0..15, LowerAll(irq)
    PROVE  /\ irqReq' \in [CPUs -> Request]
           /\ irqSignal' \in [CPUs -> 0..15 \cup {NoIrq}]
           /\ \A c \in CPUs : irqSignal'[c] = NoIrq /\ ~irqReq'[c].on
BY DEF LowerAll, Request, Received

\* What launch_irq writes to a channel, and the port then holds.
LEMMA LaunchedReqType ==
    ASSUME IrqmpTypeOK, NEW c \in CPUs
    PROVE  /\ LaunchedReq(c) \in Request
           /\ Received(LaunchedReq(c)) \in 0..15 \cup {NoIrq}
<1>1. High(c) \in 0..15
  BY HighestIsGiven DEF High, Regular
<1>2. LaunchedReq(c) \in Request
  BY <1>1 DEF LaunchedReq, Request, IrqmpTypeOK
<1> QED BY <1>2 DEF Received, Request

\* The handlers of the controller keep its registers and signals in type.
LEMMA LaunchTypes == IrqmpTypeOK /\ LaunchIrq => IrqmpTypeOK'
<1> SUFFICES ASSUME IrqmpTypeOK, LaunchIrq PROVE IrqmpTypeOK'
  OBVIOUS
<1>1. pending' \subseteq Lines
  BY IrqmpAssumption DEF LaunchIrq, WithBit, IrqmpTypeOK
<1>2. irqReq' \in [CPUs -> Request]
  BY LaunchedReqType DEF LaunchIrq
<1>3. irqSignal' \in [CPUs -> 0..15 \cup {NoIrq}]
  <2>1. \A c \in CPUs : Received(LaunchedReq(c)) \in 0..15 \cup {NoIrq}
    BY LaunchedReqType
  <2> QED BY <2>1 DEF LaunchIrq, IrqmpTypeOK
<1> QED BY <1>1, <1>2, <1>3 DEF LaunchIrq, IrqmpTypeOK

LEMMA SignalTypes ==
    ASSUME IrqmpTypeOK
    PROVE  /\ \A lines \in SUBSET Lines : IncommingIrq(lines) => IrqmpTypeOK'
           /\ \A cpu \in CPUs, irq \in 0..15 :
                  AcknowledgedIrq(irq, cpu) => IrqmpTypeOK'
<1>1. ASSUME NEW lines \in SUBSET Lines, IncommingIrq(lines) PROVE IrqmpTypeOK'
  BY <1>1 DEF IncommingIrq, IrqmpTypeOK, ports
<1>2. ASSUME NEW cpu \in CPUs, NEW irq \in 0..15, AcknowledgedIrq(irq, cpu)
      PROVE  IrqmpTypeOK'
  <2>1. LowerAll(irq)
    BY <1>2 DEF AcknowledgedIrq
  <2>2. force' \in [CPUs -> SUBSET Lines] /\ forcereg' \in [CPUs -> SUBSET Lines]
    BY <1>2 DEF AcknowledgedIrq, IrqmpTypeOK
  <2>3. pending' \subseteq Lines /\ irForce' \subseteq Regular
    BY <1>2 DEF AcknowledgedIrq, IrqmpTypeOK
  <2> QED BY <1>2, <2>1, <2>2, <2>3, LowerAllType DEF AcknowledgedIrq, IrqmpTypeOK
<1> QED BY <1>1, <1>2

LEMMA WriteTypes ==
    ASSUME IrqmpTypeOK
    PROVE  /\ \A w : WriteLevel(w) => IrqmpTypeOK'
           /\ \A w : WriteBroadcast(w) => IrqmpTypeOK'
           /\ \A w : WritePending(w) => IrqmpTypeOK'
           /\ \A w : WriteIrForce(w) => IrqmpTypeOK'
           /\ \A w, c : c \in CPUs /\ WriteMask(c, w) => IrqmpTypeOK'
           /\ \A c \in CPUs, id \in 0..31 : WriteExtirId(c, id) => IrqmpTypeOK'
<1> USE DEF IrqmpTypeOK
<1>1. ASSUME NEW w, WriteLevel(w) PROVE IrqmpTypeOK'
  BY <1>1 DEF WriteLevel, ports
<1>2. ASSUME NEW w, WriteBroadcast(w) PROVE IrqmpTypeOK'
  BY <1>2 DEF WriteBroadcast, ports
<1>3. ASSUME NEW w, WritePending(w) PROVE IrqmpTypeOK'
  BY <1>3 DEF WritePending, PendingWrite, ports, Maskable, Regular, Extended
<1>4. ASSUME NEW w, WriteIrForce(w) PROVE IrqmpTypeOK'
  BY <1>4 DEF WriteIrForce, PendingWrite, ports
<1>5. ASSUME NEW w, NEW c \in CPUs, WriteMask(c, w) PROVE IrqmpTypeOK'
  BY <1>5 DEF WriteMask, PendingWrite, ports
<1>6. ASSUME NEW c \in CPUs, NEW id \in 0..31, WriteExtirId(c, id) PROVE IrqmpTypeOK'
  BY <1>6 DEF WriteExtirId, ports
<1> QED BY <1>1, <1>2, <1>3, <1>4, <1>5, <1>6

LEMMA ClearTypes ==
    ASSUME IrqmpTypeOK, NEW w, WriteClear(w)
    PROVE  IrqmpTypeOK'
<1> DEFINE ic == w \cap Maskable
<1>1. irqReq' \in [CPUs -> Request] /\ irqSignal' \in [CPUs -> 0..15 \cup {NoIrq}]
  <2>1. CASE ic \cap Regular # {}
    <3>1. ic \cap Regular \in SUBSET (1..15)
      BY DEF Regular
    <3>2. Min(ic \cap Regular) \in 0..15
      BY <2>1, <3>1, MinInSet
    <3>3. LowerAll(Min(ic \cap Regular))
      BY <2>1 DEF WriteClear
    <3> QED BY <3>2, <3>3, LowerAllType
  <2>2. CASE ic \cap Regular = {}
    <3>1. LowerAll(EIRQ) \/ UNCHANGED ports
      BY <2>2 DEF WriteClear
    <3> QED BY <3>1, LowerAllType, IrqmpAssumption DEF IrqmpTypeOK, ports
  <2> QED BY <2>1, <2>2
<1>2. pending' \subseteq Lines /\ irForce' \subseteq Regular
  BY DEF WriteClear, IrqmpTypeOK
<1>3. extirId' \in [CPUs -> 0..31]
  BY DEF WriteClear, IrqmpTypeOK
<1> QED BY <1>1, <1>2, <1>3 DEF WriteClear, IrqmpTypeOK

LEMMA ForceTypes ==
    ASSUME IrqmpTypeOK, NEW cpu \in CPUs, NEW w, NEW v, WriteForce(cpu, w, v)
    PROVE  IrqmpTypeOK'
<1>1. irqReq' \in [CPUs -> Request] /\ irqSignal' \in [CPUs -> 0..15 \cup {NoIrq}]
  <2>1. CASE v \cap Regular # {}
    <3>1. v \cap Regular \in SUBSET (1..15)
      BY DEF Regular
    <3>2. Min(v \cap Regular) \in 0..15
      BY <2>1, <3>1, MinInSet
    <3>3. LowerAll(Min(v \cap Regular))
      BY <2>1 DEF WriteForce
    <3> QED BY <3>2, <3>3, LowerAllType
  <2>2. CASE v \cap Regular = {}
    BY <2>2 DEF WriteForce, IrqmpTypeOK, ports
  <2> QED BY <2>1, <2>2
<1>2. force' \in [CPUs -> SUBSET Lines] /\ forcereg' \in [CPUs -> SUBSET Lines]
  BY DEF WriteForce, Regular
<1>3. pending' \subseteq Lines
  BY DEF WriteForce, IrqmpTypeOK
<1> QED BY <1>1, <1>2, <1>3 DEF WriteForce, IrqmpTypeOK

\* Every initial state is in type.
LEMMA InitTypes == Init \/ InitBooted => TypeOK
<1>1. ASSUME IrqmpInit PROVE IrqmpTypeOK
  <2>1. [irq |-> 0, on |-> FALSE] \in Request
    BY DEF Request
  <2>2. irqReq \in [CPUs -> Request]
    BY <1>1, <2>1 DEF IrqmpInit
  <2>3. /\ mask \in [CPUs -> SUBSET Maskable]
        /\ force \in [CPUs -> SUBSET Lines]
        /\ forcereg \in [CPUs -> SUBSET Lines]
    BY <1>1 DEF IrqmpInit
  <2>4. extirId \in [CPUs -> 0..31] /\ irqSignal \in [CPUs -> 0..15 \cup {NoIrq}]
    BY <1>1 DEF IrqmpInit
  <2> QED BY <1>1, <2>2, <2>3, <2>4 DEF IrqmpInit, IrqmpTypeOK
<1>2. ASSUME Init \/ InitBooted
      PROVE  /\ run \in [CPUs -> RunStates]
             /\ et \in [CPUs -> BOOLEAN]
             /\ pil \in [CPUs -> 0..15]
             /\ tt \in [CPUs -> 0..15]
             /\ ops \in 0..MaxOps
  <2>1. run \in [CPUs -> RunStates]
    BY <1>2 DEF Init, InitBooted, RunStates
  <2>2. et \in [CPUs -> BOOLEAN]
    BY <1>2 DEF Init, InitBooted
  <2>3. pil \in [CPUs -> 0..15] /\ tt \in [CPUs -> 0..15]
    BY <1>2 DEF Init, InitBooted
  <2>4. ops \in 0..MaxOps
    BY <1>2, SystemAssumption DEF Init, InitBooted
  <2> QED BY <2>1, <2>2, <2>3, <2>4
<1> QED BY <1>1, <1>2 DEF Init, InitBooted, TypeOK

\* Every step of the system keeps it in type.
LEMMA TypeStep == TypeOK /\ [Next]_vars => TypeOK'
<1> SUFFICES ASSUME TypeOK, [Next]_vars PROVE TypeOK'
  OBVIOUS
<1> DEFINE CpuTypeOK == /\ run \in [CPUs -> RunStates]
                        /\ et \in [CPUs -> BOOLEAN]
                        /\ pil \in [CPUs -> 0..15]
                        /\ tt \in [CPUs -> 0..15]
<1>0. IrqmpTypeOK /\ CpuTypeOK /\ ops \in 0..MaxOps /\ MaxOps \in Nat
  BY SystemAssumption DEF TypeOK
<1>a. ASSUME ops < MaxOps, ops' = ops + 1 PROVE ops' \in 0..MaxOps
  BY <1>0, <1>a
<1>b. ASSUME UNCHANGED cpuVars PROVE CpuTypeOK'
  BY <1>0, <1>b DEF cpuVars
<1>1. CASE Launch
  BY <1>1, <1>0, <1>b, LaunchTypes DEF Launch, TypeOK
<1>2. ASSUME NEW c \in CPUs, ResetOp(c) PROVE TypeOK'
  <2>1. IrqmpTypeOK'
    BY <1>0, <1>2 DEF ResetOp, IrqmpTypeOK, regs
  <2>2. CpuTypeOK' /\ ops' = ops
    BY <1>0, <1>2 DEF ResetOp, RunStates
  <2> QED BY <1>0, <2>1, <2>2 DEF TypeOK
<1>3. ASSUME NEW c \in CPUs, TakeIrq(c) PROVE TypeOK'
  <2>1. irqSignal[c] \in 0..15
    BY <1>0, <1>3 DEF TakeIrq, CanTake, IrqmpTypeOK, NoIrq
  <2>2. IrqmpTypeOK'
    BY <1>0, <1>3, <2>1, SignalTypes DEF TakeIrq
  <2>3. CpuTypeOK' /\ ops' = ops
    BY <1>0, <1>3, <2>1 DEF TakeIrq
  <2> QED BY <1>0, <2>2, <2>3 DEF TypeOK
<1>4. ASSUME NEW c \in CPUs, SetPsr(c) PROVE TypeOK'
  <2>1. PICK e \in BOOLEAN, p \in {0} \cup Regular : WritePsr(c, e, p)
    BY <1>4 DEF SetPsr
  <2>2. p \in 0..15
    BY DEF Regular
  <2>3. IrqmpTypeOK'
    BY <1>0, <2>1 DEF WritePsr, irqmpVars, regs, ports, IrqmpTypeOK
  <2>4. CpuTypeOK' /\ ops' = ops
    BY <1>0, <2>1, <2>2 DEF WritePsr
  <2> QED BY <1>0, <2>3, <2>4 DEF TypeOK
<1>5. CASE DeviceIrq
  <2>1. PICK l \in Devices : Op(IncommingIrq({l}) /\ UNCHANGED cpuVars)
    BY <1>5 DEF DeviceIrq
  <2>2. {l} \in SUBSET Lines
    BY SystemAssumption
  <2> QED BY <1>0, <1>a, <1>b, <2>1, <2>2, SignalTypes DEF Op, TypeOK
<1>6. CASE Configure
  BY <1>0, <1>6, <1>a, <1>b, WriteTypes DEF Configure, Op, TypeOK
<1>7. CASE ClearIrqs
  BY <1>0, <1>7, <1>a, <1>b, ClearTypes DEF ClearIrqs, Op, TypeOK
<1>8. CASE ForceOne
  BY <1>0, <1>8, <1>a, <1>b, ForceTypes DEF ForceOne, Op, TypeOK
<1>9. CASE RaisePending \/ ForceAll
  BY <1>0, <1>9, <1>a, <1>b, WriteTypes DEF RaisePending, ForceAll, Op, TypeOK
<1>10. CASE StartCpus
  <2>1. PICK bits \in SUBSET CPUs : Op(MpstatWrite(bits))
    BY <1>10 DEF StartCpus
  <2>2. IrqmpTypeOK'
    BY <1>0, <2>1 DEF Op, MpstatWrite, irqmpVars, regs, ports, IrqmpTypeOK
  <2>3. CpuTypeOK'
    BY <1>0, <2>1 DEF Op, MpstatWrite, RunStates
  <2> QED BY <1>a, <2>1, <2>2, <2>3 DEF Op, TypeOK
<1>11. CASE SetPriorities \/ OverwritePending
  BY <1>0, <1>11, <1>a, <1>b, WriteTypes DEF SetPriorities, OverwritePending, Op, TypeOK
<1>12. CASE SetExtirId
  <2>1. PICK c \in CPUs, id \in Extended \cup {0} :
            Op(WriteExtirId(c, id) /\ UNCHANGED cpuVars)
    BY <1>12 DEF SetExtirId
  <2>2. id \in 0..31
    BY DEF Extended
  <2> QED BY <1>0, <1>a, <1>b, <2>1, <2>2, WriteTypes DEF Op, TypeOK
<1>13. CASE UNCHANGED vars
  BY <1>0, <1>13 DEF vars, irqmpVars, regs, ports, cpuVars, TypeOK, IrqmpTypeOK
<1> QED BY <1>1, <1>2, <1>3, <1>4, <1>5, <1>6, <1>7, <1>8, <1>9, <1>10, <1>11,
           <1>12, <1>13 DEF Next, Processors, Environment

\* A step of the booted system is a step of the system.
LEMMA BootedIsNext == [NextBooted]_vars => [Next]_vars
BY DEF NextBooted, Next

\* The registers, the signals and the processors stay in type.
THEOREM TypeCorrect == Spec => []TypeOK
<1> QED BY InitTypes, TypeStep, PTL DEF Spec

THEOREM TypeCorrectBooted == SpecBooted => []TypeOK
<1> QED BY InitTypes, TypeStep, BootedIsNext, PTL DEF SpecBooted

-----------------------------------------------------------------------------
(* The two copies of the force register                                    *)

\* Initially both are empty, and every handler updates them alike.
LEMMA ShadowStep == TypeOK /\ ShadowAgrees /\ [Next]_vars => ShadowAgrees'
<1> SUFFICES ASSUME TypeOK, ShadowAgrees, [Next]_vars PROVE ShadowAgrees'
  OBVIOUS
<1>0. IrqmpTypeOK
  BY DEF TypeOK
<1>a. ASSUME UNCHANGED <<force, forcereg>> PROVE ShadowAgrees'
  BY <1>a DEF ShadowAgrees
<1>1. ASSUME NEW lines, IncommingIrq(lines) PROVE ShadowAgrees'
  BY <1>1, <1>0 DEF IncommingIrq, ShadowAgrees, IrqmpTypeOK
<1>2. ASSUME NEW irq, NEW cpu \in CPUs, AcknowledgedIrq(irq, cpu) PROVE ShadowAgrees'
  <2>1. ASSUME NEW c \in CPUs
        PROVE  forcereg'[c] \cap Regular = force'[c] \cap Regular
    BY <1>2, <1>0 DEF AcknowledgedIrq, ShadowAgrees, IrqmpTypeOK
  <2> QED BY <2>1 DEF ShadowAgrees
<1>3. ASSUME NEW w, NEW v, NEW cpu \in CPUs, WriteForce(cpu, w, v) PROVE ShadowAgrees'
  BY <1>3 DEF WriteForce, ShadowAgrees
<1>4. CASE Launch
  BY <1>4, <1>a DEF Launch, LaunchIrq
<1>5. CASE Processors
  BY <1>5, <1>a, <1>2 DEF Processors, ResetOp, SetPsr, WritePsr, TakeIrq,
                          irqmpVars, regs
<1>6. CASE DeviceIrq \/ ForceOne
  BY <1>6, <1>1, <1>3 DEF DeviceIrq, ForceOne, Op
<1>7. CASE Configure \/ ClearIrqs \/ RaisePending \/ ForceAll
  BY <1>7, <1>a DEF Configure, ClearIrqs, RaisePending, ForceAll, Op,
       WriteBroadcast, WriteMask, WriteClear, WritePending, WriteIrForce
<1>8. CASE StartCpus \/ SetPriorities \/ OverwritePending \/ SetExtirId
  BY <1>8, <1>a DEF StartCpus, SetPriorities, OverwritePending, SetExtirId, Op,
       MpstatWrite, WriteLevel, WritePending, WriteExtirId, irqmpVars, regs
<1>9. CASE UNCHANGED vars
  BY <1>9, <1>a DEF vars, irqmpVars, regs
<1> QED BY <1>4, <1>5, <1>6, <1>7, <1>8, <1>9 DEF Next, Environment

LEMMA InitShadow == Init \/ InitBooted => ShadowAgrees
BY DEF Init, InitBooted, IrqmpInit, ShadowAgrees

\* incomming_irq, force_write and acknowledged_irq keep the register software
\* reads and the member forcereg in agreement.
THEOREM ShadowCorrect == Spec => []ShadowAgrees
<1> QED BY InitShadow, ShadowStep, TypeCorrect, PTL DEF Spec

-----------------------------------------------------------------------------
(* What launch_irq shows the processors                                    *)

\* A raised port holds a real line, the one last written to its channel.
PortHolds ==
    \A c \in CPUs : irqSignal[c] # NoIrq =>
        irqSignal[c] # 0 /\ irqReq[c] = [irq |-> irqSignal[c], on |-> TRUE]

\* The lines wanted by a processor are among those its round looks at, and the
\* round looks at no other line but the cascade.
LEMMA WantedIsSeen ==
    ASSUME NEW c \in CPUs
    PROVE  Wanted(c) = AllIrqs(c) \cap DeliveredLines
<1>1. \A n \in DeliveredLines : n \in SeenPending(c) <=> n \in pending
  BY DEF SeenPending, WithBit, DeliveredLines
<1> QED BY <1>1 DEF Wanted, AllIrqs, DeliveredLines

\* launch_irq does not change what is wanted.
LEMMA LaunchKeepsWanted ==
    ASSUME LaunchIrq, NEW c \in CPUs
    PROVE  Wanted(c)' = Wanted(c)
<1>1. \A n \in DeliveredLines : n \in pending' <=> n \in pending
  BY DEF LaunchIrq, WithBit, DeliveredLines
<1> QED BY <1>1 DEF LaunchIrq, Wanted, DeliveredLines

\* After launch_irq a port shows what its round selected, or nothing.
LEMMA LaunchOutcome ==
    ASSUME IrqmpTypeOK, PortHolds, LaunchIrq, NEW c \in CPUs
    PROVE  /\ irqSignal'[c] # NoIrq => irqSignal'[c] = High(c) /\ High(c) # 0
           /\ irqSignal'[c] # NoIrq => irqReq'[c] = [irq |-> irqSignal'[c], on |-> TRUE]
           /\ High(c) # 0 /\ irqSignal[c] = Received(irqReq[c]) =>
                  irqSignal'[c] = High(c)
           /\ irqSignal[c] = Received(irqReq[c]) =>
                  irqSignal'[c] = Received(irqReq'[c])
<1>1. irqReq'[c] = LaunchedReq(c)
  BY DEF LaunchIrq
<1>2. irqSignal'[c] = IF LaunchedReq(c) # irqReq[c] THEN Received(LaunchedReq(c))
                                                   ELSE irqSignal[c]
  BY DEF LaunchIrq
<1>3. High(c) # 0 => LaunchedReq(c) = [irq |-> High(c), on |-> TRUE]
  BY DEF LaunchedReq
<1>4. High(c) = 0 /\ LaunchedReq(c) # irqReq[c] =>
          LaunchedReq(c) = [irq |-> 0, on |-> FALSE]
  BY DEF LaunchedReq
<1>5. High(c) = 0 /\ LaunchedReq(c) = irqReq[c] =>
          irqReq[c].irq = 0 \/ irqReq[c].on = FALSE
  BY DEF LaunchedReq
<1>6. irqSignal[c] # NoIrq =>
          irqSignal[c] # 0 /\ irqReq[c] = [irq |-> irqSignal[c], on |-> TRUE]
  BY DEF PortHolds
<1> QED BY <1>1, <1>2, <1>3, <1>4, <1>5, <1>6 DEF Received

\* Every step keeps the ports in step with their channels.
LEMMA PortHoldsStep == TypeOK /\ PortHolds /\ [Next]_vars => PortHolds'
<1> SUFFICES ASSUME TypeOK, PortHolds, [Next]_vars PROVE PortHolds'
  OBVIOUS
<1>0. IrqmpTypeOK
  BY DEF TypeOK
<1>a. ASSUME UNCHANGED ports PROVE PortHolds'
  BY <1>a DEF PortHolds, ports
<1>b. ASSUME NEW irq, LowerAll(irq) PROVE PortHolds'
  BY <1>b DEF PortHolds, LowerAll, Received
<1>1. CASE Launch
  BY <1>0, <1>1, LaunchOutcome DEF PortHolds, Launch
<1>2. ASSUME NEW c \in CPUs, ResetOp(c) PROVE PortHolds'
  BY <1>0, <1>2 DEF ResetOp, PortHolds, IrqmpTypeOK
<1>3. ASSUME NEW c \in CPUs, TakeIrq(c) \/ SetPsr(c) PROVE PortHolds'
  BY <1>a, <1>b, <1>3 DEF TakeIrq, AcknowledgedIrq, SetPsr, WritePsr, irqmpVars
<1>4. CASE DeviceIrq \/ Configure \/ RaisePending \/ ForceAll
  BY <1>a, <1>4 DEF DeviceIrq, Configure, RaisePending, ForceAll, Op, IncommingIrq,
       WriteBroadcast, WriteMask, WritePending, WriteIrForce, PendingWrite
<1>5. CASE ClearIrqs \/ ForceOne
  BY <1>a, <1>b, <1>5 DEF ClearIrqs, ForceOne, Op, WriteClear, WriteForce
<1>6. CASE StartCpus \/ SetPriorities \/ OverwritePending \/ SetExtirId
  BY <1>a, <1>6 DEF StartCpus, SetPriorities, OverwritePending, SetExtirId, Op,
       MpstatWrite, WriteLevel, WritePending, WriteExtirId, PendingWrite, irqmpVars
<1>7. CASE UNCHANGED vars
  BY <1>a, <1>7 DEF vars, irqmpVars
<1> QED BY <1>1, <1>2, <1>3, <1>4, <1>5, <1>6, <1>7 DEF Next, Processors, Environment

LEMMA InitPortHolds == Init \/ InitBooted => PortHolds
BY DEF Init, InitBooted, IrqmpInit, PortHolds

\* Every step keeps shown requests justified: launch_irq selects among wanted
\* lines, and a handler that changes what is wanted notifies e_signal.
LEMMA JustifiedStep ==
    TypeOK /\ PortHolds /\ RequestJustified /\ [Next]_vars => RequestJustified'
<1> SUFFICES ASSUME TypeOK, PortHolds, RequestJustified, [Next]_vars
             PROVE  RequestJustified'
  OBVIOUS
<1>0. IrqmpTypeOK
  BY DEF TypeOK
<1>a. ASSUME UNCHANGED <<pending, irForce, mask, force, irqSignal, eSignal>>
      PROVE  RequestJustified'
  BY <1>a DEF RequestJustified, Wanted
<1>b. ASSUME eSignal' = TRUE PROVE RequestJustified'
  BY <1>b DEF RequestJustified
<1>1. ASSUME Launch, NEW c \in CPUs, irqSignal'[c] \notin {NoIrq, EIRQ}
      PROVE  irqSignal'[c] \in Wanted(c)'
  <2>1. irqSignal'[c] = High(c) /\ High(c) # 0
    BY <1>0, <1>1, LaunchOutcome DEF Launch
  <2>2. High(c) \in AllIrqs(c) \cap DeliveredLines
    BY <1>1, <2>1, HighestIsGiven DEF High, DeliveredLines
  <2> QED BY <1>1, <2>1, <2>2, WantedIsSeen, LaunchKeepsWanted DEF Launch
<1>2. CASE Launch
  BY <1>1, <1>2 DEF RequestJustified
<1>3. ASSUME NEW c \in CPUs, ResetOp(c) PROVE RequestJustified'
  BY <1>0, <1>3 DEF ResetOp, RequestJustified, Wanted, IrqmpTypeOK, regs
<1>4. ASSUME NEW c \in CPUs, TakeIrq(c) \/ SetPsr(c) PROVE RequestJustified'
  BY <1>a, <1>b, <1>4 DEF TakeIrq, AcknowledgedIrq, SetPsr, WritePsr,
                          irqmpVars, regs, ports
<1>5. CASE DeviceIrq \/ Configure \/ RaisePending \/ ForceAll
  BY <1>a, <1>b, <1>5 DEF DeviceIrq, Configure, RaisePending, ForceAll, Op,
       IncommingIrq, WriteBroadcast, WriteMask, WritePending, WriteIrForce,
       PendingWrite, ports
<1>6. CASE ClearIrqs \/ ForceOne \/ OverwritePending
  BY <1>b, <1>6 DEF ClearIrqs, ForceOne, OverwritePending, Op, WriteClear,
       WriteForce, WritePending, PendingWrite
<1>7. CASE StartCpus \/ SetPriorities \/ SetExtirId
  BY <1>a, <1>7 DEF StartCpus, SetPriorities, SetExtirId, Op, MpstatWrite,
       WriteLevel, WriteExtirId, irqmpVars, regs, ports
<1>8. CASE UNCHANGED vars
  BY <1>a, <1>8 DEF vars, irqmpVars, regs, ports
<1> QED BY <1>2, <1>3, <1>4, <1>5, <1>6, <1>7, <1>8 DEF Next, Processors, Environment

LEMMA InitJustified == Init \/ InitBooted => RequestJustified
BY DEF Init, InitBooted, IrqmpInit, RequestJustified

\* Once launch_irq has run, no processor is shown a line that is not pending and
\* unmasked, or forced, for it.
THEOREM RequestsAreJustified == Spec => []RequestJustified
<1>1. Spec => []PortHolds
  BY InitPortHolds, PortHoldsStep, TypeCorrect, PTL DEF Spec
<1> QED BY <1>1, InitJustified, JustifiedStep, TypeCorrect, PTL DEF Spec

-----------------------------------------------------------------------------
(* Forced lines                                                            *)

\* A step that takes a line out of a processor's force register is the
\* acknowledge of that processor or a write that clears it there.
LEMMA ForcedStep ==
    ASSUME TypeOK, ShadowAgrees, [Next]_vars, NEW c \in CPUs,
           NEW n \in (force[c] \ force'[c]) \cap Regular
    PROVE  \/ et[c] /\ ~et'[c] /\ irqSignal[c] = n
           \/ \E w, v \in Words : n \in v /\ WriteForce(c, w, v)
<1>0. IrqmpTypeOK /\ et \in [CPUs -> BOOLEAN]
  BY DEF TypeOK
<1>1. ASSUME NEW lines, IncommingIrq(lines) PROVE FALSE
  BY <1>0, <1>1 DEF IncommingIrq, IrqmpTypeOK
<1>2. CASE \E d \in CPUs : TakeIrq(d)
  <2>1. PICK d \in CPUs : TakeIrq(d)
    BY <1>2
  <2>2. d = c /\ irqSignal[c] = n
    BY <1>0, <2>1 DEF TakeIrq, AcknowledgedIrq, IrqmpTypeOK
  <2>3. et[c] /\ ~et'[c]
    BY <1>0, <2>1, <2>2 DEF TakeIrq, CanTake
  <2> QED BY <2>2, <2>3
<1>3. CASE ForceOne
  <2>1. PICK d \in CPUs, w \in Words, v \in Words : WriteForce(d, w, v)
    BY <1>3 DEF ForceOne, Op
  <2>2. n \in forcereg[c]
    BY DEF ShadowAgrees
  <2>3. d = c /\ n \in v
    BY <2>1, <2>2 DEF WriteForce
  <2> QED BY <2>1, <2>3
<1>4. CASE force' # force
  <2>1. \/ DeviceIrq
        \/ ForceOne
        \/ \E d \in CPUs : TakeIrq(d)
    BY <1>4 DEF Next, Processors, Environment, Launch, LaunchIrq, ResetOp, SetPsr,
         WritePsr, Configure, ClearIrqs, RaisePending, ForceAll, StartCpus,
         SetPriorities, OverwritePending, SetExtirId, Op, WriteBroadcast, WriteMask,
         WriteClear, WritePending, WriteIrForce, MpstatWrite, WriteLevel,
         WriteExtirId, vars, irqmpVars, regs
  <2>2. ~ DeviceIrq
    BY <1>1 DEF DeviceIrq, Op
  <2> QED BY <1>2, <1>3, <2>1, <2>2
<1> QED BY <1>4

\* A forced line stays forced on a processor until that processor serves it or
\* software clears it in that processor's register.
THEOREM ForcedLinesStay == Spec => ForcedUntilServed
<1>1. TypeOK /\ ShadowAgrees /\ [Next]_vars =>
        [\A c \in CPUs : \A n \in (force[c] \ force'[c]) \cap Regular :
            \/ et[c] /\ ~et'[c] /\ irqSignal[c] = n
            \/ \E w, v \in Words : n \in v /\ WriteForce(c, w, v)]_vars
  BY ForcedStep
<1> QED BY <1>1, TypeCorrect, ShadowCorrect, PTL DEF Spec, ForcedUntilServed

-----------------------------------------------------------------------------
(* The booted system                                                       *)

\* With all processors running none is reset any more, and the ports and the
\* channels tell the same; no extended line is ever recorded.
BootedPorts ==
    \A c \in CPUs : /\ run[c] = "running"
                    /\ irqSignal[c] = Received(irqReq[c])
                    /\ extirId[c] = 0

LEMMA BootedStep ==
    TypeOK /\ PortHolds /\ BootedPorts /\ [NextBooted]_vars => BootedPorts'
<1> SUFFICES ASSUME TypeOK, PortHolds, BootedPorts, [NextBooted]_vars
             PROVE  BootedPorts'
  OBVIOUS
<1>0. IrqmpTypeOK
  BY DEF TypeOK
<1>a. ASSUME UNCHANGED <<run, extirId, ports>> PROVE BootedPorts'
  BY <1>a DEF BootedPorts, ports
<1>b. ASSUME NEW irq, LowerAll(irq), run' = run, \A c \in CPUs : extirId'[c] = 0
      PROVE  BootedPorts'
  BY <1>b DEF BootedPorts, LowerAll
<1>1. CASE Launch
  BY <1>0, <1>1, LaunchOutcome DEF Launch, LaunchIrq, BootedPorts, cpuVars
<1>2. ASSUME NEW c \in CPUs, ResetOp(c) PROVE FALSE
  BY <1>2 DEF ResetOp, BootedPorts
<1>3. ASSUME NEW c \in CPUs, TakeIrq(c) PROVE BootedPorts'
  <2>1. \A d \in CPUs : extirId'[d] = 0
    BY <1>0, <1>3 DEF TakeIrq, AcknowledgedIrq, BootedPorts, IrqmpTypeOK
  <2> QED BY <1>b, <1>3, <2>1 DEF TakeIrq, AcknowledgedIrq
<1>4. ASSUME NEW c \in CPUs, SetPsr(c) PROVE BootedPorts'
  BY <1>a, <1>4 DEF SetPsr, WritePsr, irqmpVars, regs
<1>5. CASE DeviceIrq \/ Configure \/ RaisePending \/ ForceAll \/ SetPriorities
  BY <1>a, <1>5 DEF DeviceIrq, Configure, RaisePending, ForceAll, SetPriorities, Op,
       IncommingIrq, WriteBroadcast, WriteMask, WritePending, WriteIrForce,
       WriteLevel, PendingWrite, cpuVars
<1>6. CASE ClearIrqs
  <2>1. PICK w \in Words : WriteClear(w) /\ UNCHANGED cpuVars
    BY <1>6 DEF ClearIrqs, Op
  <2>2. \A c \in CPUs : extirId'[c] = 0
    BY <2>1 DEF WriteClear, BootedPorts
  <2>3. UNCHANGED ports \/ \E irq : LowerAll(irq)
    BY <2>1 DEF WriteClear
  <2> QED BY <1>b, <2>1, <2>2, <2>3 DEF BootedPorts, ports, cpuVars
<1>7. CASE ForceOne
  <2>1. PICK c \in CPUs, w \in Words, v \in Words :
            WriteForce(c, w, v) /\ UNCHANGED cpuVars
    BY <1>7 DEF ForceOne, Op
  <2>2. UNCHANGED ports \/ \E irq : LowerAll(irq)
    BY <2>1 DEF WriteForce
  <2>3. UNCHANGED extirId
    BY <2>1 DEF WriteForce
  <2> QED BY <1>b, <2>1, <2>2, <2>3 DEF BootedPorts, ports, cpuVars
<1>8. CASE UNCHANGED vars
  BY <1>a, <1>8 DEF vars, irqmpVars, regs, cpuVars
<1> QED BY <1>1, <1>2, <1>3, <1>4, <1>5, <1>6, <1>7, <1>8
        DEF NextBooted, Processors, Environment

LEMMA InitBootedPorts == InitBooted => BootedPorts
BY DEF InitBooted, IrqmpInit, BootedPorts, Received

\* What holds in every state of the booted system.
LEMMA BootedInvariant == SpecBooted => [](TypeOK /\ ShadowAgrees /\ PortHolds /\ BootedPorts)
BY InitShadow, InitPortHolds, InitBootedPorts, ShadowStep, PortHoldsStep, BootedStep,
   BootedIsNext, TypeCorrectBooted, PTL DEF SpecBooted

\* launch_irq shows something to every processor that has something to serve,
\* and what else lowers a port notifies e_signal.
LEMMA NotLostStep ==
    ASSUME TypeOK, PortHolds, BootedPorts, NoRequestLost, [NextBooted]_vars
    PROVE  NoRequestLost'
<1>0. IrqmpTypeOK
  BY DEF TypeOK
<1>a. ASSUME UNCHANGED <<pending, irForce, mask, force, irqSignal, eSignal>>
      PROVE  NoRequestLost'
  BY <1>a DEF NoRequestLost, Wanted, BootedPorts
<1>b. ASSUME eSignal' = TRUE PROVE NoRequestLost'
  BY <1>b DEF NoRequestLost
<1>1. ASSUME Launch, NEW c \in CPUs, Wanted(c)' # {} PROVE irqSignal'[c] # NoIrq
  <2>1. AllIrqs(c) \cap Regular # {}
    BY <1>1, LaunchKeepsWanted, WantedIsSeen DEF Launch, DeliveredLines
  <2>2. High(c) # 0 /\ High(c) \in Regular
    BY <2>1, HighestIsGiven DEF High
  <2>3. irqSignal'[c] = High(c)
    BY <1>0, <1>1, <2>2, LaunchOutcome DEF Launch, BootedPorts
  <2> QED BY <2>2, <2>3 DEF Regular, NoIrq
<1>2. CASE Launch
  BY <1>1, <1>2 DEF NoRequestLost
<1>3. ASSUME NEW c \in CPUs, ResetOp(c) PROVE FALSE
  BY <1>3 DEF ResetOp, BootedPorts
<1>4. ASSUME NEW c \in CPUs, TakeIrq(c) \/ SetPsr(c) PROVE NoRequestLost'
  BY <1>a, <1>b, <1>4 DEF TakeIrq, AcknowledgedIrq, SetPsr, WritePsr,
                          irqmpVars, regs, ports
<1>5. CASE Environment \/ SetPriorities
  BY <1>a, <1>b, <1>5 DEF Environment, DeviceIrq, Configure, RaisePending, ForceAll,
       ClearIrqs, ForceOne, SetPriorities, Op, IncommingIrq, WriteBroadcast,
       WriteMask, WritePending, WriteIrForce, WriteClear, WriteForce, WriteLevel,
       PendingWrite, ports
<1>6. CASE UNCHANGED vars
  BY <1>a, <1>6 DEF vars, irqmpVars, regs, ports
<1> QED BY <1>2, <1>3, <1>4, <1>5, <1>6 DEF NextBooted, Processors

LEMMA InitNotLost == InitBooted => NoRequestLost
BY DEF InitBooted, IrqmpInit, NoRequestLost, Wanted, DeliveredLines

\* Once launch_irq has run, a running processor with something to serve is shown
\* a request.
THEOREM RequestsAreNotLost == SpecBooted => []NoRequestLost
<1>1. TypeOK /\ PortHolds /\ BootedPorts /\ NoRequestLost /\ [NextBooted]_vars
        => NoRequestLost'
  BY NotLostStep
<1> QED BY <1>1, InitNotLost, BootedInvariant, PTL DEF SpecBooted

-----------------------------------------------------------------------------
(* The delivery contract                                                   *)

\* A line shown to a processor is outstanding, also before launch_irq has run.
Outstanding ==
    \A c \in CPUs : irqSignal[c] \notin {NoIrq, EIRQ} =>
        /\ irqSignal[c] \in DeliveredLines
        /\ irqSignal[c] \in pending \cup irForce \cup force[c]

LEMMA OutstandingStep ==
    ASSUME TypeOK, ShadowAgrees, PortHolds, BootedPorts, Outstanding, [NextBooted]_vars
    PROVE  Outstanding'
<1>0. IrqmpTypeOK
  BY DEF TypeOK
<1>a. ASSUME irqSignal' = irqSignal, pending \cap DeliveredLines \subseteq pending',
             irForce \cap DeliveredLines \subseteq irForce',
             \A c \in CPUs : force[c] \subseteq force'[c]
      PROVE  Outstanding'
  BY <1>a DEF Outstanding
<1>b. ASSUME NEW irq, LowerAll(irq) PROVE Outstanding'
  BY <1>b DEF LowerAll, Received, Outstanding
<1>1. ASSUME Launch, NEW c \in CPUs, irqSignal'[c] \notin {NoIrq, EIRQ}
      PROVE  /\ irqSignal'[c] \in DeliveredLines
             /\ irqSignal'[c] \in pending' \cup irForce' \cup force'[c]
  <2>1. irqSignal'[c] = High(c) /\ High(c) # 0
    BY <1>0, <1>1, LaunchOutcome DEF Launch
  <2>2. High(c) \in Wanted(c)
    BY <1>1, <2>1, HighestIsGiven, WantedIsSeen DEF High, DeliveredLines
  <2>3. High(c) \in Wanted(c)'
    BY <1>1, <2>2, LaunchKeepsWanted DEF Launch
  <2> QED BY <2>1, <2>3 DEF Wanted
<1>2. CASE Launch
  BY <1>1, <1>2 DEF Outstanding
<1>3. ASSUME NEW c \in CPUs, ResetOp(c) PROVE FALSE
  BY <1>3 DEF ResetOp, BootedPorts
<1>4. ASSUME NEW c \in CPUs, TakeIrq(c) \/ SetPsr(c) PROVE Outstanding'
  BY <1>a, <1>b, <1>4 DEF TakeIrq, AcknowledgedIrq, SetPsr, WritePsr,
                          irqmpVars, regs, ports
<1>5. CASE DeviceIrq
  <2>1. PICK l \in Devices : IncommingIrq({l})
    BY <1>5 DEF DeviceIrq, Op
  <2>2. \A c \in CPUs : force[c] \subseteq force'[c]
    BY <2>1 DEF IncommingIrq
  <2> QED BY <1>a, <2>1, <2>2 DEF IncommingIrq, ports
<1>6. CASE Configure \/ RaisePending \/ ForceAll \/ SetPriorities
  BY <1>0, <1>a, <1>6 DEF Configure, RaisePending, ForceAll, SetPriorities, Op,
       WriteBroadcast, WriteMask, WritePending, WriteIrForce, WriteLevel,
       PendingWrite, ports, DeliveredLines, Maskable, IrqmpTypeOK
<1>7. RecordedEirs = {}
  BY DEF RecordedEirs, BootedPorts
<1>8. CASE ClearIrqs
  <2>1. PICK w \in Words : WriteClear(w)
    BY <1>8 DEF ClearIrqs, Op
  <2>2. CASE w \cap Maskable = {}
    BY <1>7, <1>a, <2>1, <2>2 DEF WriteClear, ports
  <2>3. CASE w \cap Maskable # {}
    BY <1>b, <2>1, <2>3 DEF WriteClear, Maskable
  <2> QED BY <2>2, <2>3
<1>9. CASE ForceOne
  <2>1. PICK c \in CPUs, w \in Words, v \in Words : WriteForce(c, w, v)
    BY <1>9 DEF ForceOne, Op
  <2>2. CASE v \cap Regular = {}
    <3>1. UNCHANGED <<irqSignal, pending, irForce>>
      BY <1>7, <2>1, <2>2 DEF WriteForce, ports
    <3>2. \A d \in CPUs : force[d] \cap Regular \subseteq force'[d]
      BY <2>1, <2>2 DEF WriteForce, ShadowAgrees
    <3> QED BY <3>1, <3>2 DEF Outstanding, DeliveredLines
  <2>3. CASE v \cap Regular # {}
    BY <1>b, <2>1, <2>3 DEF WriteForce
  <2> QED BY <2>2, <2>3
<1>10. CASE UNCHANGED vars
  BY <1>a, <1>10 DEF vars, irqmpVars, regs, ports
<1> QED BY <1>2, <1>3, <1>4, <1>5, <1>6, <1>8, <1>9, <1>10
        DEF NextBooted, Processors, Environment

\* Every step of the booted system is a step of the contract or leaves what the
\* contract speaks of as it is.
LEMMA DeliveryStep ==
    ASSUME TypeOK, ShadowAgrees, BootedPorts, Outstanding, [NextBooted]_vars
    PROVE  [Delivery!Next]_(Delivery!vars)
<1> DEFINE owed == (pending \cup irForce) \cap DeliveredLines
           owedTo == [c \in CPUs |-> force[c] \cap DeliveredLines]
<1>0. IrqmpTypeOK /\ et \in [CPUs -> BOOLEAN] /\ tt \in [CPUs -> 0..15]
  BY DEF TypeOK
<1> USE DEF Delivery!Next, Delivery!vars
<1>a. ASSUME owed' = owed, owedTo' = owedTo, UNCHANGED <<et, tt>>
      PROVE  [Delivery!Next]_(Delivery!vars)
  BY <1>a
<1>b. ASSUME owed \subseteq owed', owedTo' = owedTo, UNCHANGED <<et, tt>>
      PROVE  [Delivery!Next]_(Delivery!vars)
  BY <1>b DEF Delivery!Assert
<1>1. CASE Launch
  <2>1. owed' = owed
    BY <1>1 DEF Launch, LaunchIrq, WithBit, DeliveredLines
  <2> QED BY <1>a, <1>1, <2>1 DEF Launch, LaunchIrq, cpuVars
<1>2. ASSUME NEW c \in CPUs, ResetOp(c) PROVE FALSE
  BY <1>2 DEF ResetOp, BootedPorts
<1>3. ASSUME NEW c \in CPUs, TakeIrq(c) PROVE [Delivery!Next]_(Delivery!vars)
  <2> DEFINE n == irqSignal[c]
  <2>1. /\ et[c] /\ et' = [et EXCEPT ![c] = FALSE]
        /\ tt' = [tt EXCEPT ![c] = n]
        /\ n # NoIrq
        /\ AcknowledgedIrq(n, c)
    BY <1>3 DEF TakeIrq, CanTake
  <2>2. pending' = pending \ {n} /\ irForce' = irForce \ {n}
    BY <2>1 DEF AcknowledgedIrq, BootedPorts
  <2>3. force' = [force EXCEPT ![c] = @ \ {n}]
    BY <2>1 DEF AcknowledgedIrq
  <2>4. CASE n = EIRQ
    <3>1. owed' = owed
      BY <2>2, <2>4 DEF DeliveredLines
    <3>2. owedTo' = owedTo
      BY <1>0, <2>3, <2>4 DEF DeliveredLines, IrqmpTypeOK
    <3>3. Delivery!ServeCascade(c)
      BY <2>1, <2>4, <3>1, <3>2 DEF Delivery!ServeCascade
    <3> QED BY <3>3
  <2>5. CASE n # EIRQ
    <3>1. n \in DeliveredLines /\ n \in pending \cup irForce \cup force[c]
      BY <2>1, <2>5 DEF Outstanding
    <3>2. n \in owed \cup owedTo[c]
      BY <3>1
    <3>3. owed' = owed \ {n}
      BY <2>2
    <3>4. owedTo' = [owedTo EXCEPT ![c] = @ \ {n}]
      BY <1>0, <2>3 DEF IrqmpTypeOK
    <3>5. Delivery!Serve(c, n)
      BY <2>1, <3>2, <3>3, <3>4 DEF Delivery!Serve
    <3>6. \E d \in CPUs, m \in DeliveredLines : Delivery!Serve(d, m)
      BY <3>1, <3>5 DEF Delivery!Serve
    <3> QED BY <3>6
  <2> QED BY <2>4, <2>5
<1>4. ASSUME NEW c \in CPUs, SetPsr(c) PROVE [Delivery!Next]_(Delivery!vars)
  <2>1. PICK e \in BOOLEAN : et' = [et EXCEPT ![c] = e]
    BY <1>4 DEF SetPsr, WritePsr
  <2>2. owed' = owed /\ owedTo' = owedTo /\ tt' = tt
    BY <1>4 DEF SetPsr, WritePsr, irqmpVars, regs
  <2>3. Delivery!Accept(c)
    BY <2>1, <2>2 DEF Delivery!Accept
  <2> QED BY <2>3
<1>5. CASE DeviceIrq
  <2>1. PICK l \in Devices : IncommingIrq({l}) /\ UNCHANGED cpuVars
    BY <1>5 DEF DeviceIrq, Op
  <2>2. CASE Broadcasts(l) /\ l < 16 /\ l \in DeliveredLines
    <3>1. owed' = owed
      BY <2>1, <2>2 DEF IncommingIrq
    <3>2. owedTo' = [c \in CPUs |-> owedTo[c] \cup {l}]
      BY <2>1, <2>2 DEF IncommingIrq
    <3>3. Delivery!AssertForAll(l)
      BY <2>1, <2>2, <3>1, <3>2 DEF Delivery!AssertForAll, cpuVars
    <3> QED BY <2>2, <3>3
  <2>3. CASE ~(Broadcasts(l) /\ l < 16 /\ l \in DeliveredLines)
    <3>1. owed \subseteq owed'
      BY <2>1 DEF IncommingIrq
    <3>2. owedTo' = owedTo
      BY <2>1, <2>3 DEF IncommingIrq
    <3> QED BY <1>b, <2>1, <3>1, <3>2 DEF cpuVars
  <2> QED BY <2>2, <2>3
<1>6. CASE Configure \/ SetPriorities
  BY <1>a, <1>6 DEF Configure, SetPriorities, Op, WriteBroadcast, WriteMask,
                    WriteLevel, cpuVars
<1>7. CASE ClearIrqs
  <2>1. PICK w \in Words : WriteClear(w) /\ UNCHANGED cpuVars
    BY <1>7 DEF ClearIrqs, Op
  <2>2. owed' \in SUBSET owed
    BY <2>1 DEF WriteClear
  <2>3. owedTo' = owedTo
    BY <2>1 DEF WriteClear
  <2>4. Delivery!Withdraw
    BY <2>1, <2>2, <2>3 DEF Delivery!Withdraw, cpuVars
  <2> QED BY <2>4
<1>8. CASE ForceOne
  <2>1. PICK c \in CPUs, w \in Words, v \in Words :
            WriteForce(c, w, v) /\ UNCHANGED cpuVars
    BY <1>8 DEF ForceOne, Op
  <2>2. owed' = owed
    BY <2>1 DEF WriteForce, RecordedEirs, BootedPorts
  <2>3. \A d \in CPUs \ {c} : force'[d] \cap DeliveredLines = force[d] \cap DeliveredLines
    BY <2>1 DEF WriteForce, ShadowAgrees, DeliveredLines
  <2>4. owedTo' = [owedTo EXCEPT ![c] = force'[c] \cap DeliveredLines]
    BY <2>3
  <2>5. Delivery!Arrange(c)
    BY <2>1, <2>2, <2>4 DEF Delivery!Arrange, cpuVars
  <2> QED BY <2>5
<1>9. CASE RaisePending \/ ForceAll
  <2>1. owed \subseteq owed'
    BY <1>0, <1>9 DEF RaisePending, ForceAll, Op, WritePending, WriteIrForce,
                      DeliveredLines, Maskable, IrqmpTypeOK
  <2>2. owedTo' = owedTo /\ UNCHANGED cpuVars
    BY <1>9 DEF RaisePending, ForceAll, Op, WritePending, WriteIrForce
  <2> QED BY <1>b, <2>1, <2>2 DEF cpuVars
<1>10. CASE UNCHANGED vars
  BY <1>a, <1>10 DEF vars, irqmpVars, regs, cpuVars
<1> QED BY <1>1, <1>2, <1>3, <1>4, <1>5, <1>6, <1>7, <1>8, <1>9, <1>10
        DEF NextBooted, Processors, Environment

LEMMA InitDelivery == InitBooted => Outstanding /\ Delivery!Init
BY DEF InitBooted, IrqmpInit, Outstanding, Delivery!Init

\* The controller and its processors implement the delivery contract: a line is
\* served only while it is outstanding, one serve settles it, and for no other
\* line and no other processor's own copy.
THEOREM DeliveryImplemented == SpecBooted => ImplementsDelivery
<1>1. SpecBooted => []Outstanding
  <2>1. TypeOK /\ ShadowAgrees /\ PortHolds /\ BootedPorts /\ Outstanding
          /\ [NextBooted]_vars => Outstanding'
    BY OutstandingStep
  <2> QED BY <2>1, InitDelivery, BootedInvariant, PTL DEF SpecBooted
<1>2. TypeOK /\ ShadowAgrees /\ BootedPorts /\ Outstanding /\ [NextBooted]_vars
        => [Delivery!Next]_(Delivery!vars)
  BY DeliveryStep
<1> QED BY <1>1, <1>2, InitDelivery, BootedInvariant, PTL
        DEF SpecBooted, ImplementsDelivery, Delivery!Spec
=============================================================================
