----------------------------- MODULE IrqSystem -----------------------------
(***************************************************************************)
(* The interrupt controller with the LEON3 processors and the devices of   *)
(* the leon3mp platform around it.  A processor is what its main loop      *)
(* shows the controller: halted, started but not yet through resetOp, or   *)
(* executing, with the ET and PIL fields of its PSR.                       *)
(*                                                                         *)
(* SystemC processes are cooperative: a handler runs to its end before any *)
(* other process does, and processes interleave only at their waits.  Each *)
(* action below is the code between two waits.                             *)
(***************************************************************************)
EXTENDS Irqmp

CONSTANTS
    Devices,     \* the lines some device of the platform drives
    Words,       \* the values software writes to the registers
    MaxOps       \* bound on device interrupts and bus writes in a behaviour

ASSUME SystemAssumption ==
    /\ Devices \subseteq Lines
    /\ Words \subseteq SUBSET Lines
    /\ MaxOps \in Nat

VARIABLES
    run,   \* "halted", "starting" (run received, resetOp to come), "running"
    et,    \* PSR.ET: traps enabled
    pil,   \* PSR.PIL: the processor interrupt level
    tt,    \* TBR.TT: the line whose trap was taken last, 0 for none yet
    ops    \* device interrupts and bus writes so far

cpuVars == <<run, et, pil, tt>>
vars == <<irqmpVars, cpuVars, ops>>

RunStates == {"halted", "starting", "running"}

TypeOK ==
    /\ IrqmpTypeOK
    /\ run \in [CPUs -> RunStates]
    /\ et \in [CPUs -> BOOLEAN]
    /\ pil \in [CPUs -> 0..15]
    /\ tt \in [CPUs -> 0..15]
    /\ ops \in 0..MaxOps

\* The controller's reset starts processor 0 before its main loop looks at the
\* run input, so it passes the halted loop by; all have been through resetOp
\* once, at end_of_elaboration.
Init ==
    /\ IrqmpInit
    /\ run = [c \in CPUs |-> IF c = 0 THEN "running" ELSE "halted"]
    /\ et = [c \in CPUs |-> FALSE]
    /\ pil = [c \in CPUs |-> 0]
    /\ tt = [c \in CPUs |-> 0]
    /\ ops = 0

\* Software has started all the processors before it uses an interrupt.
InitBooted ==
    /\ IrqmpInit
    /\ run = [c \in CPUs |-> "running"]
    /\ et = [c \in CPUs |-> FALSE]
    /\ pil = [c \in CPUs |-> 0]
    /\ tt = [c \in CPUs |-> 0]
    /\ ops = 0

-----------------------------------------------------------------------------
(* The processors                                                          *)

\* mpstat_write: a halted processor whose bit is written is started; on_run
\* raises its status at once
MpstatWrite(bits) ==
    /\ run' = [c \in CPUs |-> IF c \in bits /\ run[c] = "halted"
                              THEN "starting" ELSE run[c]]
    /\ UNCHANGED <<irqmpVars, et, pil, tt>>

\* mainLoop leaves its halted loop at the next poll and calls resetOp
ResetOp(c) ==
    /\ run[c] = "starting"
    /\ run' = [run EXCEPT ![c] = "running"]
    /\ irqSignal' = [irqSignal EXCEPT ![c] = NoIrq]
    /\ et' = [et EXCEPT ![c] = FALSE]
    /\ pil' = [pil EXCEPT ![c] = 0]
    /\ tt' = [tt EXCEPT ![c] = 0]
    /\ UNCHANGED <<regs, irqReq, eSignal, ops>>

CanTake(c) ==
    /\ run[c] = "running"
    /\ irqSignal[c] # NoIrq
    /\ et[c]
    /\ irqSignal[c] = 15 \/ irqSignal[c] > pil[c]

\* mainLoop, IRQ_IRQ_Instruction::behavior, RaiseException, send_pin_req: the
\* acknowledge reaches the controller within the call
TakeIrq(c) ==
    /\ CanTake(c)
    /\ et' = [et EXCEPT ![c] = FALSE]
    /\ tt' = [tt EXCEPT ![c] = irqSignal[c]]
    /\ AcknowledgedIrq(irqSignal[c], c)
    /\ UNCHANGED <<run, pil, ops>>

\* RETT and WRPSR: software sets ET and PIL
WritePsr(c, e, p) ==
    /\ run[c] = "running"
    /\ et' = [et EXCEPT ![c] = e]
    /\ pil' = [pil EXCEPT ![c] = p]
    /\ <<et[c], pil[c]>> # <<e, p>>
    /\ UNCHANGED <<irqmpVars, run, tt, ops>>

-----------------------------------------------------------------------------
\* A device interrupt or a bus write, counted against MaxOps.
Op(A) ==
    /\ ops < MaxOps
    /\ ops' = ops + 1
    /\ A

Launch == LaunchIrq /\ UNCHANGED <<cpuVars, ops>>

DeviceIrq ==
    \E l \in Devices : Op(IncommingIrq({l}) /\ UNCHANGED cpuVars)

StartCpus == \E bits \in SUBSET CPUs : Op(MpstatWrite(bits))

SetPriorities == \E w \in Words : Op(WriteLevel(w) /\ UNCHANGED cpuVars)

OverwritePending == \E w \in Words : Op(WritePending(w) /\ UNCHANGED cpuVars)

\* software that raises lines through the pending register and keeps the rest
RaisePending ==
    \E w \in Words : Op(WritePending(pending \cup w) /\ UNCHANGED cpuVars)

ForceAll == \E w \in Words : Op(WriteIrForce(irForce \cup w) /\ UNCHANGED cpuVars)

Configure ==
    \E w \in Words :
        \/ Op(WriteBroadcast(w) /\ UNCHANGED cpuVars)
        \/ \E c \in CPUs : Op(WriteMask(c, w) /\ UNCHANGED cpuVars)

ClearIrqs == \E w \in Words : Op(WriteClear(w) /\ UNCHANGED cpuVars)

ForceOne ==
    \E c \in CPUs, w, v \in Words : Op(WriteForce(c, w, v) /\ UNCHANGED cpuVars)

SetExtirId ==
    \E c \in CPUs, id \in Extended \cup {0} :
        Op(WriteExtirId(c, id) /\ UNCHANGED cpuVars)

SetPsr(c) == \E e \in BOOLEAN, p \in {0} \cup Regular : WritePsr(c, e, p)

\* a trap handler that ends: RETT sets ET
Rett(c) == ~et[c] /\ WritePsr(c, TRUE, pil[c])

\* what software and devices do in every configuration
Environment ==
    \/ DeviceIrq
    \/ Configure
    \/ ClearIrqs
    \/ ForceOne
    \/ RaisePending
    \/ ForceAll

Processors == \E c \in CPUs : ResetOp(c) \/ TakeIrq(c) \/ SetPsr(c)

\* Everything the code lets happen.
Next ==
    \/ Launch
    \/ Processors
    \/ Environment
    \/ StartCpus
    \/ SetPriorities
    \/ OverwritePending
    \/ SetExtirId

Spec == Init /\ [][Next]_vars

\* A booted system whose software drops pending interrupts through the clear
\* register only.
NextBooted ==
    \/ Launch
    \/ Processors
    \/ Environment
    \/ SetPriorities

SpecBooted == InitBooted /\ [][NextBooted]_vars

\* A booted system whose software uses one priority level, leaves PIL at 0 and
\* returns from its trap handlers.  SystemC runs launch_irq at the time e_signal
\* was notified for, and each processor's main loop for ever.
NextLive ==
    \/ Launch
    \/ \E c \in CPUs : TakeIrq(c) \/ Rett(c)
    \/ Environment

SpecLive ==
    /\ InitBooted
    /\ [][NextLive]_vars
    /\ WF_vars(Launch)
    /\ \A c \in CPUs : WF_vars(TakeIrq(c)) /\ WF_vars(Rett(c))

-----------------------------------------------------------------------------
(* Properties                                                              *)

DeliveredLines == Regular \ {EIRQ}

\* The lines that entitle processor c to a request, whatever the other rounds
\* of launch_irq leave in the cascade bit.
Wanted(c) ==
    (((pending \cup irForce) \cap mask[c]) \cup force[c]) \cap DeliveredLines

\* The private copy forcereg[cpu] and the register software reads hold the
\* same forced lines: incomming_irq, force_write and acknowledged_irq each
\* update the two by different expressions.
ShadowAgrees ==
    \A c \in CPUs : forcereg[c] \cap Regular = force[c] \cap Regular

\* Once launch_irq has run, a processor is shown a line other than the cascade
\* only if that line is pending and unmasked, or forced, for it: every handler
\* that takes a line away lowers the request or notifies e_signal.
RequestJustified ==
    \A c \in CPUs :
        ~eSignal /\ irqSignal[c] \notin {NoIrq, EIRQ} => irqSignal[c] \in Wanted(c)

\* Once launch_irq has run, a processor with something to serve is shown a
\* request: an acknowledge or a clear lowers the requests of all processors,
\* for whatever line, and the launch it schedules must restore the others.
NoRequestLost ==
    \A c \in CPUs :
        ~eSignal /\ run[c] = "running" /\ Wanted(c) # {} => irqSignal[c] # NoIrq

\* "The IRQ is sent to all cores and also has to be acknowledged by all of
\* them" (irqmp.md 1.3): a line forced on a processor stays forced until that
\* processor serves it or software clears it in that processor's register.
ForcedUntilServed ==
    [][\A c \in CPUs : \A n \in (force[c] \ force'[c]) \cap Regular :
          \/ et[c] /\ ~et'[c] /\ irqSignal[c] = n
          \/ \E w, v \in Words : n \in v /\ WriteForce(c, w, v)]_vars

\* The controller and the processors implement the delivery contract: a line
\* shown to two processors is served by one of them, because the acknowledge of
\* the first withdraws it from the second before that one can look; a broadcast
\* line is settled for each processor by itself; nothing is served that is not
\* outstanding at that moment.
Delivery == INSTANCE InterruptDelivery WITH
    Served  <- DeliveredLines,
    Cascade <- EIRQ,
    owed    <- (pending \cup irForce) \cap DeliveredLines,
    owedTo  <- [c \in CPUs |-> force[c] \cap DeliveredLines],
    enabled <- et,
    handler <- tt

ImplementsDelivery == Delivery!Spec

\* Every line a processor does not mask is served or cleared in the end: it is
\* not wanted by some processor from some moment on for ever.
AllServed ==
    \A n \in DeliveredLines : []<>(\A c \in CPUs : n \notin Wanted(c))

-----------------------------------------------------------------------------
(* What the documentation says and the code does not do                    *)

\* "If the broadcast bit of an interrupt line is set, the IRQ is sent to all
\* cores" (irqmp.md 1.3): incomming_irq tests the bit of the line above.
BroadcastReachesAll ==
    [][\A l \in Devices \cap broadcast :
          IncommingIrq({l}) => \A c \in CPUs : l \in force'[c]]_vars
=============================================================================
