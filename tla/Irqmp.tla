------------------------------- MODULE Irqmp -------------------------------
(***************************************************************************)
(* The multiprocessor interrupt controller (gaisler/irqmp): its register   *)
(* file, the handlers of the irq_in and irq_ack signals, the callbacks of  *)
(* the register bank, and the launch_irq thread that recomputes what each  *)
(* processor is asked to serve.                                            *)
(*                                                                         *)
(* A 32-bit register is the set of its set bits, cut down to Lines, the    *)
(* interrupt lines the platform uses.  irqSignal is the far end of the     *)
(* irq_req channels: signal_out::write calls the processor's port handler  *)
(* before it returns, so each write of irq_req updates both in one step.   *)
(*                                                                         *)
(* e_signal is the one event launch_irq waits for.  Its delay of one or    *)
(* two clock cycles is abstracted to "some time later": a notification     *)
(* stays pending, and a second one is absorbed, until launch_irq runs.     *)
(***************************************************************************)
EXTENDS Integers, FiniteSets, FiniteSetsExt

CONSTANTS
    NCPU,    \* g_ncpu, the number of processors
    Lines,   \* the interrupt lines in use
    EIRQ     \* g_eirq, the line that cascades the extended ones, 0 for none

ASSUME IrqmpAssumption ==
    /\ NCPU \in 1..16
    /\ Lines \subseteq 0..31
    /\ EIRQ \in 0..15
    /\ EIRQ # 0 => EIRQ \in Lines

CPUs     == 0..(NCPU - 1)
Regular  == Lines \cap (1..15)    \* IR_PENDING_IP, IR_FORCE_IF, IR_LEVEL_IL
Extended == Lines \cap (16..31)   \* IR_PENDING_EIP
Maskable == Regular \cup Extended \* IR_CLEAR_IC, PROC_MASK, pending mask
NoIrq    == -1                    \* what irqSignal holds with nothing raised

VARIABLES
    level,      \* r[IR_LEVEL]
    pending,    \* r[IR_PENDING]
    irForce,    \* r[IR_FORCE], the register at 0x08
    broadcast,  \* r[BROADCAST]
    mask,       \* r[PROC_IR_MASK(cpu)]
    force,      \* r[PROC_IR_FORCE(cpu)], its IF half
    forcereg,   \* the member forcereg[cpu]
    extirId,    \* r[PROC_EXTIR_ID(cpu)]
    irqReq,     \* the pair last written to channel cpu of irq_req
    irqSignal,  \* what the processor made of it: Leon3's IRQ
    eSignal     \* a notification of e_signal is pending

regs  == <<level, pending, irForce, broadcast, mask, force, forcereg, extirId>>
ports == <<irqReq, irqSignal>>
irqmpVars == <<regs, ports, eSignal>>

Request == [irq : 0..15, on : BOOLEAN]

IrqmpTypeOK ==
    /\ level \subseteq Regular
    /\ pending \subseteq Lines
    /\ irForce \subseteq Regular
    /\ broadcast \subseteq Regular
    /\ mask \in [CPUs -> SUBSET Maskable]
    /\ force \in [CPUs -> SUBSET Lines]
    /\ forcereg \in [CPUs -> SUBSET Lines]
    /\ extirId \in [CPUs -> 0..31]
    /\ irqReq \in [CPUs -> Request]
    /\ irqSignal \in [CPUs -> 0..15 \cup {NoIrq}]
    /\ eSignal \in BOOLEAN

\* dorst, as the platform's reset at start_of_simulation leaves the unit
IrqmpInit ==
    /\ level = {} /\ pending = {} /\ irForce = {} /\ broadcast = {}
    /\ mask = [c \in CPUs |-> Maskable]
    /\ force = [c \in CPUs |-> {}]
    /\ forcereg = [c \in CPUs |-> {}]
    /\ extirId = [c \in CPUs |-> 0]
    /\ irqReq = [c \in CPUs |-> [irq |-> 0, on |-> FALSE]]
    /\ irqSignal = [c \in CPUs |-> NoIrq]
    /\ eSignal = FALSE

-----------------------------------------------------------------------------
(* The irq_req channels                                                    *)

\* IntrTLMPort_32::callbackMethod: a lowered request lowers whatever is raised
Received(req) == IF req.on THEN req.irq ELSE NoIrq

\* LowerAll with a channel mask of 1 instead of ~0
LowerFirstOnly(irq) ==
    LET req == [irq |-> irq, on |-> FALSE]
    IN  /\ irqReq' = [irqReq EXCEPT ![0] = req]
        /\ irqSignal' = [irqSignal EXCEPT ![0] = Received(req)]

\* irq_req.write(~0, (irq, false))
LowerAll(irq) ==
    LET req == [irq |-> irq, on |-> FALSE]
    IN  /\ irqReq' = [c \in CPUs |-> req]
        /\ irqSignal' = [c \in CPUs |-> Received(req)]

\* r[reg].bit(n, b)
WithBit(reg, n, b) == IF b THEN reg \cup {n} ELSE reg \ {n}

\* the EIR numbers recorded for some processor
RecordedEirs == IF EIRQ = 0 THEN {} ELSE {extirId[c] : c \in CPUs} \ {0}

-----------------------------------------------------------------------------
(* launch_irq                                                              *)

\* an EIR is pending that processor c does not mask
EirqEn(c) == EIRQ # 0 /\ (pending \cup irForce) \cap mask[c] \cap Extended # {}

\* The loop runs from the last processor down and rewrites bit EIRQ of the
\* pending register on each round, so c sees the outcome of round c + 1.
SeenPending(c) ==
    IF EIRQ = 0 \/ c = NCPU - 1 THEN pending
                                ELSE WithBit(pending, EIRQ, EirqEn(c + 1))

\* the variable "all" of round c
AllIrqs(c) ==
    ((SeenPending(c) \cup irForce) \cap mask[c])
        \cup (IF EirqEn(c) THEN {EIRQ} ELSE {})
        \cup (force[c] \cap Regular)

\* a level 1 line before any level 0 line, the highest line first, 0 for none
Highest(irqs) ==
    LET level1 == irqs \cap level \cap Regular
        level0 == (irqs \ level) \cap Regular
    IN  IF level1 # {} THEN Max(level1)
        ELSE IF level0 # {} THEN Max(level0) ELSE 0

High(c) == Highest(AllIrqs(c))

\* LaunchedReq that compares the line only, not the pair
LaunchedReqByLine(c) ==
    IF High(c) # 0 /\ irqReq[c].irq # High(c) THEN [irq |-> High(c), on |-> TRUE]
    ELSE IF High(c) = 0 /\ irqReq[c].irq # 0 THEN [irq |-> 0, on |-> FALSE]
    ELSE irqReq[c]

\* the pair on channel c after its round: (0, false) replaces any other when
\* nothing is to be served, and a request that stands is not written again
LaunchedReq(c) ==
    IF High(c) # 0 THEN [irq |-> High(c), on |-> TRUE]
    ELSE IF irqReq[c].irq # 0 THEN [irq |-> 0, on |-> FALSE]
    ELSE irqReq[c]

LaunchIrq ==
    /\ eSignal
    /\ eSignal' = FALSE
    /\ pending' = IF EIRQ = 0 THEN pending ELSE WithBit(pending, EIRQ, EirqEn(0))
    /\ irqReq' = [c \in CPUs |-> LaunchedReq(c)]
    /\ irqSignal' = [c \in CPUs |-> IF LaunchedReq(c) # irqReq[c]
                                    THEN Received(LaunchedReq(c))
                                    ELSE irqSignal[c]]
    /\ UNCHANGED <<level, irForce, broadcast, mask, force, forcereg, extirId>>

-----------------------------------------------------------------------------
(* Signals                                                                 *)

\* the broadcast test looks at the bit above the line's own
Broadcasts(line) == line + 1 \in broadcast

\* IncommingIrq that sets the bit above the line's
IncommingIrqShifted(lines) ==
    /\ pending' = pending \cup {l + 1 : l \in lines}
    /\ eSignal' = TRUE
    /\ UNCHANGED <<level, irForce, broadcast, mask, force, forcereg, extirId, ports>>

\* incomming_irq: the lines of one write are true on irq_in; a write of false
\* returns early and is no step at all
IncommingIrq(lines) ==
    LET toAll == {l \in lines : Broadcasts(l) /\ l < 16}
    IN  /\ pending' = pending \cup {l \in lines : ~Broadcasts(l)}
        /\ force' = [c \in CPUs |-> force[c] \cup toAll]
        /\ forcereg' = [c \in CPUs |-> forcereg[c] \cup toAll]
        /\ eSignal' = TRUE
        /\ UNCHANGED <<level, irForce, broadcast, mask, extirId, ports>>

\* AcknowledgedIrq that leaves the shadow register alone
AcknowledgedIrqKeepsShadow(irq, cpu) ==
    /\ pending' = pending \ {irq}
    /\ irForce' = irForce \ {irq}
    /\ force' = [force EXCEPT ![cpu] = @ \ {irq}]
    /\ extirId' = [extirId EXCEPT ![cpu] = 0]
    /\ LowerAll(irq)
    /\ eSignal' = TRUE
    /\ UNCHANGED <<level, broadcast, mask, forcereg>>

\* AcknowledgedIrq that clears the line in every force register
AcknowledgedIrqForAll(irq, cpu) ==
    /\ pending' = pending \ {irq}
    /\ irForce' = irForce \ {irq}
    /\ force' = [c \in CPUs |-> force[c] \ {irq}]
    /\ forcereg' = [c \in CPUs |-> forcereg[c] \ {irq}]
    /\ extirId' = [extirId EXCEPT ![cpu] = 0]
    /\ LowerAll(irq)
    /\ eSignal' = TRUE
    /\ UNCHANGED <<level, broadcast, mask>>

\* AcknowledgedIrq that does not start launch_irq
AcknowledgedIrqSilent(irq, cpu) ==
    /\ pending' = pending \ {irq}
    /\ irForce' = irForce \ {irq}
    /\ force' = [force EXCEPT ![cpu] = @ \ {irq}]
    /\ forcereg' = [forcereg EXCEPT ![cpu] = @ \ {irq}]
    /\ extirId' = [extirId EXCEPT ![cpu] = 0]
    /\ LowerAll(irq)
    /\ UNCHANGED <<level, broadcast, mask, eSignal>>

\* acknowledged_irq: processor cpu has started to serve irq
AcknowledgedIrq(irq, cpu) ==
    LET eir == IF EIRQ # 0 /\ extirId[cpu] # 0 THEN {extirId[cpu]} ELSE {}
    IN  /\ pending' = pending \ (eir \cup {irq})
        /\ irForce' = irForce \ {irq}
        /\ force' = [force EXCEPT ![cpu] = @ \ {irq}]
        /\ forcereg' = [forcereg EXCEPT ![cpu] = (@ \ {irq}) \cap Regular]
        /\ extirId' = [extirId EXCEPT ![cpu] = 0]
        /\ LowerAll(irq)
        /\ eSignal' = TRUE
        /\ UNCHANGED <<level, broadcast, mask>>

-----------------------------------------------------------------------------
(* Bus writes: register, write mask, then the register's callback          *)

\* the level and broadcast registers have no callback
WriteLevel(bits) ==
    /\ level' = bits \cap Regular
    /\ UNCHANGED <<pending, irForce, broadcast, mask, force, forcereg, extirId,
                   ports, eSignal>>

WriteBroadcast(bits) ==
    /\ broadcast' = bits \cap Regular
    /\ UNCHANGED <<level, pending, irForce, mask, force, forcereg, extirId,
                   ports, eSignal>>

\* PendingWrite without its notification
PendingWriteSilent == UNCHANGED <<eSignal, ports>>

\* pending_write is the callback of the next three
PendingWrite == eSignal' = TRUE /\ UNCHANGED ports

WritePending(bits) ==
    /\ pending' = bits \cap Maskable
    /\ PendingWrite
    /\ UNCHANGED <<level, irForce, broadcast, mask, force, forcereg, extirId>>

WriteIrForce(bits) ==
    /\ irForce' = bits \cap Regular
    /\ PendingWrite
    /\ UNCHANGED <<level, pending, broadcast, mask, force, forcereg, extirId>>

WriteMask(cpu, bits) ==
    /\ mask' = [mask EXCEPT ![cpu] = bits \cap Maskable]
    /\ PendingWrite
    /\ UNCHANGED <<level, pending, irForce, broadcast, force, forcereg, extirId>>

\* clear_write; the clear register reads zero again when it returns
WriteClear(bits) ==
    LET ic    == bits \cap Maskable
        extirq == RecordedEirs # {} \/ ic \cap Extended # {}
    IN  /\ pending' = (pending \ RecordedEirs) \ ic
        /\ irForce' = irForce \ ic
        /\ extirId' = [c \in CPUs |-> IF EIRQ # 0 THEN 0 ELSE extirId[c]]
        /\ IF ic \cap Regular # {} THEN LowerAll(Min(ic \cap Regular))
           ELSE IF extirq THEN LowerAll(EIRQ)
           ELSE UNCHANGED ports
        /\ eSignal' = TRUE
        /\ UNCHANGED <<level, broadcast, mask, force, forcereg>>

\* force_write: IF bits set, IFC bits clear.  The callback walks all the
\* processors; the one written is the only one whose register and shadow
\* differ when it starts, the others are cut down to IF.
WriteForce(cpu, ifBits, ifcBits) ==
    LET ifc == ifcBits \cap Regular
        new(c) == IF c = cpu
                  THEN ((forcereg[c] \cup ifBits) \ ifc) \cap Regular
                  ELSE (forcereg[c] \cup force[c]) \cap Regular
    IN  /\ forcereg' = [c \in CPUs |-> new(c)]
        /\ force' = [c \in CPUs |-> new(c)]
        /\ pending' = pending \ RecordedEirs
        /\ IF ifc # {} THEN LowerAll(Min(ifc)) ELSE UNCHANGED ports
        /\ eSignal' = TRUE
        /\ UNCHANGED <<level, irForce, broadcast, mask, extirId>>

\* the id register has a write mask and no callback: software may write it
WriteExtirId(cpu, id) ==
    /\ extirId' = [extirId EXCEPT ![cpu] = id]
    /\ UNCHANGED <<level, pending, irForce, broadcast, mask, force, forcereg,
                   ports, eSignal>>
=============================================================================
