------------------------------ MODULE ApbUart ------------------------------
(***************************************************************************)
(* The APBUART with its driver.  The thread uart_ticks takes a character   *)
(* from the backend and lets go of one to send at each tick; send_irq      *)
(* turns a notification of e_irq into a pulse of one clock on the          *)
(* interrupt line, which the interrupt controller latches.  A notification *)
(* that comes while send_irq waits for the end of its pulse is lost.       *)
(*                                                                         *)
(* The driver is external: it enables the receiver once and for all, and   *)
(* reads and writes characters in its interrupt handler.  The handler does *)
(* not start before the pulse is over: the interrupt controller alone      *)
(* takes two clocks.                                                       *)
(*                                                                         *)
(* Left out: the scaler, which only sets the time between ticks, the       *)
(* status bits the driver does not look at, the character on its way out.  *)
(***************************************************************************)
EXTENDS Naturals, Sequences

CONSTANTS
    FifoSize,    \* fifosize
    Chars,       \* what the backend receives
    Received,    \* bound: how many characters it receives
    ToSend,      \* bound: how many the driver sends
    Controls,    \* the settings of the transmitter the driver uses: sets of bits
    Noise        \* what a place of the ring holds that nobody has written to

Half == FifoSize \div 2

ASSUME ApbUartAssumption ==
    /\ FifoSize \in Nat \ {0} /\ Received \in Nat /\ ToSend \in Nat
    /\ Controls # {} /\ Controls \subseteq SUBSET {"TE", "TI", "TF"}
    /\ Noise \notin Chars

VARIABLES
    control,     \* CONTROL: the bits of the transmitter that are set
    ring, ringEnd, level,   \* recv_buffer, recv_buffer_end, recv_buffer_level
    sending,     \* send_buffer
    levelInt,    \* level_int
    eIrq,        \* e_irq is to come, 100 clocks after data_read
    pulse,       \* send_irq waits for the end of its clock
    line,        \* the interrupt line
    backend,     \* characters the backend has received
    arriving,    \* how many are still to come
    latched,     \* the pending bit of the interrupt controller
    handler,     \* "off", or what the driver's handler does: "read", then "send"
    output,      \* how many characters the driver still has to send
    data, owed   \* history: the last character read, those taken and not yet read

receiver == <<ring, ringEnd, level>>
driver == <<latched, handler, output>>
vars == <<control, receiver, sending, levelInt, eIrq, pulse, line, backend, arriving,
          driver, data, owed>>

TypeOK ==
    /\ control \in Controls
    /\ ring \in [0..FifoSize -> Chars \cup {Noise}] /\ ringEnd \in 0..FifoSize
    /\ level \in 0..FifoSize /\ sending \in 0..FifoSize
    /\ levelInt \in BOOLEAN /\ eIrq \in BOOLEAN /\ pulse \in BOOLEAN /\ line \in BOOLEAN
    /\ Len(backend) + arriving + level <= Received
    /\ latched \in BOOLEAN /\ handler \in {"off", "read", "send"}
    /\ output \in 0..ToSend
    /\ data \in Chars \cup {Noise} /\ Len(owed) = level

Init ==
    /\ control \in Controls
    \* the constructor leaves the ring as it is
    /\ ring = [i \in 0..FifoSize |-> Noise] /\ ringEnd = 0 /\ level = 0
    /\ sending = 0 /\ levelInt = FALSE
    /\ eIrq = FALSE /\ pulse = FALSE /\ line = FALSE
    /\ backend = <<>> /\ arriving = Received
    /\ latched = FALSE /\ handler = "off" /\ output = ToSend
    /\ data = Noise /\ owed = <<>>

-----------------------------------------------------------------------------
(* Interrupts                                                              *)

\* The line has value l; then, if notify holds, e_irq.notify() makes send_irq raise
\* it, unless that is still in a pulse.  It cancels the notification to come.
Drive(l, asserted, notify) ==
    /\ line' = (l \/ (notify /\ ~pulse))
    /\ latched' = (latched \/ asserted \/ (notify /\ ~pulse))
    /\ pulse' = (pulse \/ notify)

\* update_level_int with n characters to send: with TF the line follows the level
LevelInt(n) == "TF" \in control /\ n < Half
Level(n, notify) ==
    /\ levelInt' = LevelInt(n)
    /\ Drive(IF "TF" \in control THEN LevelInt(n) ELSE line, LevelInt(n), notify)

\* the notification of data_read comes
Late ==
    /\ eIrq
    /\ eIrq' = FALSE
    /\ Drive(line, FALSE, TRUE)
    /\ UNCHANGED <<control, receiver, sending, levelInt, backend, arriving, handler,
                   output, data, owed>>

\* Lower that forgets the level interrupt
LowerAlways ==
    /\ pulse
    /\ pulse' = FALSE
    /\ line' = FALSE
    /\ UNCHANGED <<control, receiver, sending, levelInt, eIrq, backend, arriving,
                   driver, data, owed>>

\* a clock after it was raised the line goes down, but for the level interrupt
Lower ==
    /\ pulse
    /\ pulse' = FALSE
    /\ line' = (line /\ levelInt)
    /\ UNCHANGED <<control, receiver, sending, levelInt, eIrq, backend, arriving,
                   driver, data, owed>>

-----------------------------------------------------------------------------
(* The ticks                                                               *)

\* inc_fifo_level: the index runs to FifoSize inclusive
Inc(i) == IF i < FifoSize THEN i + 1 ELSE 0

Arrive(c) ==
    /\ arriving > 0
    /\ backend' = Append(backend, c)
    /\ arriving' = arriving - 1
    /\ UNCHANGED <<control, receiver, sending, levelInt, eIrq, pulse, line, driver, data, owed>>

\* Room off by one
RoomAndOne == level <= FifoSize
Room == level < FifoSize

\* the character goes to the place data_read takes the next one from
Take ==
    IF backend # <<>> /\ Room
    THEN /\ level' = level + 1
         /\ ring' = [ring EXCEPT ![ringEnd] = Head(backend)]
         /\ ringEnd' = Inc(ringEnd)
         /\ backend' = Tail(backend)
         /\ owed' = Append(owed, Head(backend))
    ELSE UNCHANGED <<receiver, backend, owed>>

\* LastSent one character early
LastSentEarly == "TI" \in control /\ sending = 2
LastSent == "TI" \in control /\ sending = 1
FirstReceived == backend # <<>> /\ level = 0

Tick ==
    /\ Take
    /\ LET notify == LastSent \/ FirstReceived
       IN  /\ eIrq' = (eIrq /\ ~notify)
           /\ IF sending > 0 THEN sending' = sending - 1 /\ Level(sending - 1, notify)
              ELSE Drive(line, FALSE, notify) /\ UNCHANGED <<sending, levelInt>>
    /\ UNCHANGED <<control, arriving, handler, output, data>>

-----------------------------------------------------------------------------
(* The registers and the driver                                            *)

\* DataRead that leaves the other characters to the next interrupt
DataReadSilent ==
    /\ level > 0
    /\ level' = level - 1
    /\ data' = ring[ringEnd] /\ owed' = Tail(owed)
    /\ ringEnd' = Inc(ringEnd)
    /\ UNCHANGED <<ring, eIrq>>

\* data_read: if there is more, an interrupt follows
DataRead ==
    /\ level > 0
    /\ level' = level - 1
    /\ data' = ring[ringEnd] /\ owed' = Tail(owed)
    /\ ringEnd' = Inc(ringEnd)
    /\ eIrq' = (eIrq \/ level > 1)
    /\ UNCHANGED ring

\* data_write; the driver never writes to a full fifo.  A transmitter that is off
\* passes the character on at once.
DataWrite ==
    IF "TE" \in control THEN sending' = sending + 1 /\ Level(sending + 1, FALSE)
    ELSE UNCHANGED <<sending, levelInt, pulse, line, latched>>

\* the driver writes its first character outside the handler
Start ==
    /\ handler = "off" /\ output = ToSend /\ output > 0
    /\ output' = output - 1
    /\ DataWrite
    /\ UNCHANGED <<control, receiver, eIrq, backend, arriving, handler, data, owed>>

\* the interrupt is taken two clocks after it was latched, or later
Interrupt ==
    /\ latched /\ ~pulse /\ handler = "off"
    /\ latched' = FALSE
    /\ handler' = "read"
    /\ UNCHANGED <<control, receiver, sending, levelInt, eIrq, pulse, line, backend,
                   arriving, output, data, owed>>

\* the handler reads one character, or some, or until there is none
Read ==
    /\ handler = "read"
    /\ DataRead
    /\ handler' \in {"read", "send"}
    /\ UNCHANGED <<control, sending, levelInt, pulse, line, backend, arriving, latched, output>>

NoMore ==
    /\ handler = "read" /\ level = 0
    /\ handler' = "send"
    /\ UNCHANGED <<control, receiver, sending, levelInt, eIrq, pulse, line, backend,
                   arriving, latched, output, data, owed>>

\* then it writes one if the transmitter has got empty, or half empty with TF
MaySend == output > 0 /\ output < ToSend /\ (sending = 0 \/ ("TF" \in control /\ sending < Half))
Send ==
    /\ handler = "send"
    /\ handler' = "off"
    /\ IF MaySend THEN DataWrite /\ output' = output - 1
       ELSE UNCHANGED <<sending, levelInt, pulse, line, latched, output>>
    /\ UNCHANGED <<control, receiver, eIrq, backend, arriving, data, owed>>

Handler == Interrupt \/ Read \/ NoMore \/ Send

Next == (\E c \in Chars : Arrive(c)) \/ Tick \/ Late \/ Lower \/ Start \/ Handler

Spec == Init /\ [][Next]_vars

\* time passes, and the handler is run and goes on
FairSpec == Spec /\ WF_vars(Tick) /\ WF_vars(Late) /\ WF_vars(Lower) /\ WF_vars(Handler)

-----------------------------------------------------------------------------
(* Properties                                                              *)

\* While characters wait to be read, the driver reads, or its interrupt is latched
\* or to come, although notifications of e_irq get lost and cancelled.
Announced == level > 0 => latched \/ eIrq \/ handler = "read"

\* The line is high for the pulse of one clock, or for the level of the transmitter.
LineExplained == (line => pulse \/ levelInt) /\ (levelInt => line)

\* Both buffers drain: what waits in the backend or the ring is taken out in the end,
\* although interrupts get lost, and the driver that has begun to send gets an interrupt
\* for every character still to be sent.  Which character a read returns is not
\* Progress's question but InOrder's (data_read, uart_ticks, apbuart.cpp:103-116, 184-218).
Progress ==
    /\ (backend # <<>> \/ level > 0) ~> (backend = <<>> /\ level = 0)
    /\ (output < ToSend) ~> (output = 0)

\* What is read is the oldest character received and not yet read.
InOrder == [][level' < level => data' = Head(owed)]_vars
=============================================================================
