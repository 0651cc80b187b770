------------------------------ MODULE GpTimer ------------------------------
(***************************************************************************)
(* The general purpose timer of the LEON3 platforms (src/gaisler/gptimer): *)
(* counters 0 .. NTimers - 1, each with a control register and a thread    *)
(* that sleeps until the counter underflows, signals the underflow for one *)
(* clock and goes back to sleep.  The last counter is the watchdog when    *)
(* the generic wdog is not zero.                                           *)
(*                                                                         *)
(* Nothing ticks in this model of a timer: a counter computes how long its *)
(* thread has to sleep when it is started and whenever a register that     *)
(* matters is written, and cancels the alarm it had set before.  What can  *)
(* go wrong is the interplay of the registers, the flag stopped, the alarm *)
(* and the thread.  The length of the sleep is abstracted: nextzero() +    *)
(* cycle * value + (nr + 1) clocks is at least 3 + nr clocks long whatever *)
(* the prescaler and the value registers hold, and any length from there   *)
(* up to MaxDelay is possible here.                                        *)
(***************************************************************************)
EXTENDS Naturals

CONSTANTS
    NTimers,    \* g_ntimers
    Watchdog,   \* g_wdog_length is not zero
    MaxDelay,   \* bound: the longest sleep, in clocks
    MaxWrites   \* bound: register writes and resets

ASSUME GpTimerAssumption ==
    /\ NTimers \in 1..7
    /\ Watchdog \in BOOLEAN
    /\ MaxDelay \in Nat /\ MaxDelay >= 3 + NTimers
    /\ MaxWrites \in Nat

Counters == 0..(NTimers - 1)
Last     == NTimers - 1
None     == MaxDelay + 1        \* no alarm is set

Control == [en : BOOLEAN, rs : BOOLEAN, ch : BOOLEAN, ie : BOOLEAN]

VARIABLES
    ctrl,       \* CTRL(nr): enable, restart, chain, interrupt enable
    stopped,    \* stopped
    chainRun,   \* chain_run
    alarm,      \* clocks until e_wait is notified, None if it is not going to be
    asleep,     \* the thread is in wait(e_wait), not in wait(clock_cycle)
    window,     \* clocks left of that wait(clock_cycle)
    pirq,       \* m_pirq, the interrupt pending bit of CTRL(nr)
    irq,        \* the level the thread last wrote to its interrupt line
    wdog,       \* the watchdog output
    writes,     \* writes and resets so far
    fresh       \* history: reset, not written to and no underflow of the last counter since

vars == <<ctrl, stopped, chainRun, alarm, asleep, window, pirq, irq, wdog, writes, fresh>>

(***************************************************************************)
(* GPCounter's functions, on the record of the parts of its state they     *)
(* change.                                                                 *)
(***************************************************************************)
Counter(c) == [ctrl |-> ctrl[c], stopped |-> stopped[c], chainRun |-> chainRun[c],
               alarm |-> alarm[c]]

\* Delays without the clocks nextzero() and calculate() add
DelaysShort(c) == 0..MaxDelay

\* nextzero() + cycle * value + (nr + 1) clocks
Delays(c) == (3 + c)..MaxDelay

\* Calculated only if the counter runs already, which start() sets afterwards
CalculatedIfRunning(k, delay) ==
    [k EXCEPT !.alarm = IF k.ctrl.en /\ ~k.stopped THEN delay ELSE None]

\* calculate(): cancels the alarm and sets another one if the counter is enabled
Calculated(k, delay) == [k EXCEPT !.alarm = IF k.ctrl.en THEN delay ELSE None]

\* start()
Startable(k) == k.stopped /\ k.ctrl.en /\ (k.ctrl.ch => k.chainRun)
Started(k, delay) ==
    IF Startable(k) THEN [Calculated(k, delay) EXCEPT !.stopped = FALSE] ELSE k

\* stop()
Stopped(k) == IF k.stopped THEN k ELSE [k EXCEPT !.alarm = None, !.stopped = TRUE]

\* chaining()
Chained(k, delay) == Started([k EXCEPT !.chainRun = TRUE], delay)

\* Unchained that does not reset chain_run
UnchainedStopOnly(k) == IF k.ctrl.ch THEN Stopped(k) ELSE k

\* ctrl_write(): the load bit makes value_write() calculate if the counter runs
Unchained(k) == IF k.ctrl.ch THEN Stopped([k EXCEPT !.chainRun = FALSE]) ELSE k
Loaded(k, ld, delay) == IF ld /\ ~k.stopped THEN Calculated(k, delay) ELSE k
Switched(k, delay) ==
    IF k.ctrl.en THEN Started(k, delay) ELSE Stopped(k)
Controlled(k, ld, delay) ==
    Switched(Loaded(Unchained(k), ld, delay), delay)

\* do_reset(): the alarm is left as it is
Cleared(k) ==
    [k EXCEPT !.ctrl = [en |-> FALSE, rs |-> FALSE, ch |-> FALSE, ie |-> FALSE],
              !.stopped = TRUE, !.chainRun = FALSE]

\* GPTimer::dorst(): every counter calculates and is reset, then the watchdog is started
Bitten == [en |-> TRUE, rs |-> FALSE, ch |-> FALSE, ie |-> TRUE]
ResetOf(c, delay) ==
    LET k == Cleared(Calculated(Counter(c), delay))
    IN  IF Watchdog /\ c = Last
        THEN Controlled([k EXCEPT !.ctrl = Bitten], TRUE, delay)
        ELSE k

\* Reloaded without a calculation for the next period
ReloadedOnly(k, delay) ==
    LET enabled == [k EXCEPT !.ctrl.en = k.ctrl.rs]
    IN  IF k.ctrl.rs THEN enabled ELSE Stopped(enabled)

\* the end of the turn of ticking(), back to its calculate()
Reloaded(k, delay) ==
    LET enabled == [k EXCEPT !.ctrl.en = k.ctrl.rs]
    IN  Calculated(IF k.ctrl.rs THEN enabled ELSE Stopped(enabled), delay)

(***************************************************************************)
(* The actions: software and resets on one side, threads and time on the   *)
(* other.                                                                  *)
(***************************************************************************)
Store(f) ==     \* f[c] is the new state of counter c
    /\ ctrl' = [c \in Counters |-> f[c].ctrl]
    /\ stopped' = [c \in Counters |-> f[c].stopped]
    /\ chainRun' = [c \in Counters |-> f[c].chainRun]
    /\ alarm' = [c \in Counters |-> f[c].alarm]

Now == [c \in Counters |-> Counter(c)]

Write ==
    /\ writes < MaxWrites /\ writes' = writes + 1
    /\ UNCHANGED <<asleep, window, irq>>

\* A counter 0 in chain mode would look at a counter that does not exist.
CtrlWrite(c) ==
    /\ Write
    /\ \E value \in Control, ld \in BOOLEAN, delay \in Delays(c) :
          /\ value.ch => c # 0
          /\ Store([Now EXCEPT ![c] = Controlled([@ EXCEPT !.ctrl = value], ld, delay)])
    /\ \E ip \in BOOLEAN : pirq' = [pirq EXCEPT ![c] = ip]
    /\ fresh' = FALSE
    /\ UNCHANGED wdog

ValueWrite(c) ==
    /\ Write
    /\ \E delay \in Delays(c) : Store([Now EXCEPT ![c] = Loaded(@, TRUE, delay)])
    /\ fresh' = FALSE
    /\ UNCHANGED <<pirq, wdog>>

\* scaler_write() and screload_write() let every counter calculate
DelaysOfAll == {d \in [Counters -> 3..MaxDelay] : \A c \in Counters : d[c] \in Delays(c)}

ScalerWrite ==
    /\ Write
    /\ \E d \in DelaysOfAll : Store([c \in Counters |-> Calculated(Now[c], d[c])])
    /\ fresh' = FALSE
    /\ UNCHANGED <<pirq, wdog>>

Reset ==
    /\ Write
    /\ \E d \in DelaysOfAll : Store([c \in Counters |-> ResetOf(c, d[c])])
    /\ pirq' = [c \in Counters |-> pirq[c] /\ ~(Watchdog /\ c = Last)]
    /\ wdog' = FALSE
    /\ fresh' = TRUE

\* Underflow signalled for two clocks
UnderflowTwoClocks(c) ==
    /\ asleep[c] /\ alarm[c] = 0
    /\ alarm' = [alarm EXCEPT ![c] = None]
    /\ asleep' = [asleep EXCEPT ![c] = FALSE]
    /\ window' = [window EXCEPT ![c] = 2]
    /\ pirq' = [pirq EXCEPT ![c] = @ \/ ctrl[c].ie]
    /\ irq' = [irq EXCEPT ![c] = @ \/ ctrl[c].ie]
    /\ wdog' = (wdog \/ (Watchdog /\ c = Last))
    /\ fresh' = (fresh /\ c # Last)
    /\ UNCHANGED <<ctrl, stopped, chainRun, writes>>

\* ticking() wakes up: the underflow is signalled
Underflow(c) ==
    /\ asleep[c] /\ alarm[c] = 0
    /\ alarm' = [alarm EXCEPT ![c] = None]
    /\ asleep' = [asleep EXCEPT ![c] = FALSE]
    /\ window' = [window EXCEPT ![c] = 1]
    /\ pirq' = [pirq EXCEPT ![c] = @ \/ ctrl[c].ie]
    /\ irq' = [irq EXCEPT ![c] = @ \/ ctrl[c].ie]
    /\ wdog' = (wdog \/ (Watchdog /\ c = Last))
    /\ fresh' = (fresh /\ c # Last)
    /\ UNCHANGED <<ctrl, stopped, chainRun, writes>>

\* one clock later: the next counter is chained, enable becomes restart, back to sleep
Succ(c) == IF c = Last THEN 0 ELSE c + 1

Turn(c, delay, next) ==
    LET chained == IF ctrl[Succ(c)].ch
                   THEN [Now EXCEPT ![Succ(c)] = Chained(@, next)] ELSE Now
    IN  Store([chained EXCEPT ![c] = Reloaded(@, delay)])

BackToSleep(c) ==
    /\ ~asleep[c] /\ window[c] = 0
    /\ \E delay \in Delays(c), next \in Delays(Succ(c)) : Turn(c, delay, next)
    /\ asleep' = [asleep EXCEPT ![c] = TRUE]
    /\ irq' = [irq EXCEPT ![c] = @ /\ ~pirq[c]]
    /\ wdog' = (wdog /\ ~(Watchdog /\ c = Last))
    /\ UNCHANGED <<window, pirq, writes, fresh>>

\* A clock passes when nothing is left to do at this instant.
Due(c) == IF asleep[c] THEN alarm[c] = 0 ELSE window[c] = 0

Clock ==
    /\ \A c \in Counters : ~Due(c)
    /\ alarm' = [c \in Counters |-> IF alarm[c] \in {None, 0} THEN None ELSE alarm[c] - 1]
    /\ window' = [c \in Counters |-> IF asleep[c] THEN 0 ELSE window[c] - 1]
    /\ UNCHANGED <<ctrl, stopped, chainRun, asleep, pirq, irq, wdog, writes, fresh>>

Init ==
    /\ ctrl = [c \in Counters |-> [en |-> FALSE, rs |-> FALSE, ch |-> FALSE, ie |-> FALSE]]
    /\ stopped = [c \in Counters |-> TRUE]
    /\ chainRun = [c \in Counters |-> FALSE]
    /\ alarm = [c \in Counters |-> None]
    /\ asleep = [c \in Counters |-> TRUE]
    /\ window = [c \in Counters |-> 0]
    /\ pirq \in [Counters -> BOOLEAN]       \* not initialised
    /\ irq = [c \in Counters |-> FALSE]
    /\ wdog = FALSE
    /\ writes = 0
    /\ fresh = FALSE

Software == (\E c \in Counters : CtrlWrite(c) \/ ValueWrite(c)) \/ ScalerWrite \/ Reset
Threads  == \E c \in Counters : Underflow(c) \/ BackToSleep(c)

Next == Software \/ Threads \/ Clock

Spec == Init /\ [][Next]_vars

\* The kernel runs the threads that are due and lets the time pass.
FairSpec == Spec /\ WF_vars(Threads) /\ WF_vars(Clock)

-----------------------------------------------------------------------------
\* The types: sleeps within their bounds, and an underflow signalled for one clock
\* (ticking(), gpcounter.cpp:118-176).
TypeOK ==
    /\ ctrl \in [Counters -> Control]
    /\ stopped \in [Counters -> BOOLEAN]
    /\ chainRun \in [Counters -> BOOLEAN]
    /\ alarm \in [Counters -> 0..None]
    /\ asleep \in [Counters -> BOOLEAN]
    /\ window \in [Counters -> 0..1]
    /\ pirq \in [Counters -> BOOLEAN]
    /\ irq \in [Counters -> BOOLEAN]
    /\ wdog \in BOOLEAN
    /\ writes \in 0..MaxWrites
    /\ fresh \in BOOLEAN

\* A counter that runs has an alarm whenever its thread sleeps (calculate(),
\* start(), stop() and ticking(), gpcounter.cpp:118-176, 232-292): no order of writes,
\* chaining, resets and underflows leaves it counting for ever without one.
Armed ==
    \A c \in Counters : ~stopped[c] /\ asleep[c] => alarm[c] # None

\* A notification of e_wait finds the thread in wait(e_wait) (gpcounter.cpp:125):
\* an alarm set while the underflow is signalled outlives the one clock that takes.
NoAlarmLost ==
    \A c \in Counters : alarm[c] = 0 => asleep[c]

\* A counter in chain mode is started by its predecessor's turn after an underflow
\* and by nothing else: not by the write that enables it, whatever it did before
\* (gpcounter.cpp:56-59, 112-116, 268-278).
StartedByPredecessor ==
    [][\A c \in Counters :
          stopped[c] /\ ~stopped'[c] /\ ctrl'[c].ch =>
              \E p \in Counters : p + 1 = c /\ ~asleep[p] /\ asleep'[p]]_vars

\* Once software leaves the timer alone, a counter that runs underflows.
Underflows ==
    \A c \in Counters : ~stopped[c] ~> (stopped[c] \/ ~asleep[c])

\* The documentation (gptimer.md:57): the watchdog counter is started on timer
\* reset and asserts wdog on underflow.  Until then, with nothing written, it runs.
WatchdogRuns == Watchdog /\ fresh => ~stopped[Last]
=============================================================================
