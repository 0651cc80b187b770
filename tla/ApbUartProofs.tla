--------------------------- MODULE ApbUartProofs ---------------------------
(***************************************************************************)
(* Proofs about ApbUart for any size of the buffers, any characters and    *)
(* any settings of the transmitter.                                        *)
(***************************************************************************)
EXTENDS ApbUart, SequenceTheorems, TLAPS

\* what TypeOK leaves open about the queues
Queues ==
    /\ backend \in Seq(Chars) /\ owed \in Seq(Chars)
    /\ arriving \in Nat

\* nothing is sent before the driver has begun
Unbegun == output = ToSend => sending = 0

\* send_irq waits for the end of a pulse that the interrupt controller has seen: the
\* driver does not come in between
PulseLatched == pulse => latched

\* without TF the level asks for nothing
LevelOfTF == levelInt => "TF" \in control

IInv ==
    /\ TypeOK /\ Queues /\ Unbegun
    /\ PulseLatched /\ LevelOfTF
    /\ LineExplained /\ Announced

-----------------------------------------------------------------------------
(* Lemmas                                                                  *)

LEMMA SizeFacts == FifoSize \in Nat \ {0} /\ Half \in Nat /\ Half <= FifoSize
BY ApbUartAssumption DEF Half

LEMMA QueueFacts ==
    ASSUME NEW S, NEW s \in Seq(S)
    PROVE  /\ Len(s) \in Nat
           /\ \A c \in S : Append(s, c) \in Seq(S) /\ Len(Append(s, c)) = Len(s) + 1
           /\ s # <<>> => /\ Head(s) \in S /\ Tail(s) \in Seq(S)
                          /\ Len(s) > 0 /\ Len(Tail(s)) = Len(s) - 1
           /\ Len(s) > 0 => s # <<>>
<1>1. Len(s) > 0 => s # <<>>
  OBVIOUS
<1>2. s # <<>> => Head(s) \in S /\ Tail(s) \in Seq(S) /\ Len(Tail(s)) = Len(s) - 1 /\ Len(s) > 0
  BY HeadTailProperties, EmptySeq
<1>3. \A c \in S : Append(s, c) \in Seq(S) /\ Len(Append(s, c)) = Len(s) + 1
  BY AppendProperties
<1> QED
  BY <1>1, <1>2, <1>3, LenProperties

\* the index stays within the ring
LEMMA IncInRing == \A i \in 0..FifoSize : Inc(i) \in 0..FifoSize
BY SizeFacts DEF Inc

\* A notification is seen: either it raises the line or the pulse it is lost in was.
LEMMA DriveKeeps ==
    ASSUME NEW l \in BOOLEAN, NEW asserted \in BOOLEAN, NEW notify \in BOOLEAN,
           Drive(l, asserted, notify),
           line \in BOOLEAN, pulse \in BOOLEAN, latched \in BOOLEAN, PulseLatched
    PROVE  /\ line' \in BOOLEAN /\ pulse' \in BOOLEAN /\ latched' \in BOOLEAN
           /\ PulseLatched'
           /\ (notify \/ latched) => latched'
           /\ pulse => pulse'
           /\ line' => l \/ pulse'
           /\ l => line'
BY DEF Drive, PulseLatched

LEMMA LevelKeeps ==
    ASSUME NEW n \in Nat, NEW notify \in BOOLEAN, Level(n, notify), control' = control,
           line \in BOOLEAN, pulse \in BOOLEAN, latched \in BOOLEAN, levelInt \in BOOLEAN,
           PulseLatched, LevelOfTF, LineExplained
    PROVE  /\ line' \in BOOLEAN /\ pulse' \in BOOLEAN /\ latched' \in BOOLEAN
           /\ levelInt' \in BOOLEAN
           /\ PulseLatched' /\ LevelOfTF' /\ LineExplained'
           /\ (notify \/ latched) => latched'
<1> DEFINE l == IF "TF" \in control THEN LevelInt(n) ELSE line
<1>1. l \in BOOLEAN /\ LevelInt(n) \in BOOLEAN
  BY DEF LevelInt
<1>2. levelInt' = LevelInt(n) /\ Drive(l, LevelInt(n), notify)
  BY DEF Level
<1>3. (levelInt' => l) /\ (l => levelInt' \/ pulse)
  BY <1>2 DEF LevelInt, LevelOfTF, LineExplained
<1> HIDE DEF l
<1>4. /\ line' \in BOOLEAN /\ pulse' \in BOOLEAN /\ latched' \in BOOLEAN
      /\ PulseLatched'
      /\ (notify \/ latched) => latched'
      /\ pulse => pulse'
      /\ line' => l \/ pulse'
      /\ l => line'
  BY <1>1, <1>2, DriveKeeps
<1> QED
  BY <1>1, <1>2, <1>3, <1>4 DEF LevelOfTF, LineExplained, LevelInt

-----------------------------------------------------------------------------
(* The actions                                                             *)

\* What a write to the data register leaves, when there is room.
LEMMA DataWriteKeeps ==
    ASSUME IInv, DataWrite, sending < FifoSize, control' = control
    PROVE  /\ sending' \in 0..FifoSize
           /\ line' \in BOOLEAN /\ pulse' \in BOOLEAN /\ latched' \in BOOLEAN
           /\ levelInt' \in BOOLEAN
           /\ PulseLatched' /\ LevelOfTF' /\ LineExplained'
           /\ latched => latched'
<1>1. sending \in 0..FifoSize /\ sending + 1 \in 0..FifoSize /\ sending + 1 \in Nat
  BY SizeFacts DEF IInv, TypeOK
<1>2. CASE "TE" \in control
  <2>1. sending' = sending + 1 /\ Level(sending + 1, FALSE)
    BY <1>2 DEF DataWrite
  <2> QED
    BY <1>1, <2>1, LevelKeeps DEF IInv, TypeOK
<1>3. CASE "TE" \notin control
  <2>1. UNCHANGED <<sending, levelInt, pulse, line, latched>>
    BY <1>3 DEF DataWrite
  <2> QED
    BY <2>1 DEF IInv, TypeOK, PulseLatched, LevelOfTF, LineExplained
<1> QED
  BY <1>2, <1>3

LEMMA StartSound == IInv /\ Start => IInv'
<1> SUFFICES ASSUME IInv, Start PROVE IInv'
  OBVIOUS
<1>1. sending < FifoSize /\ output - 1 \in 0..ToSend /\ output - 1 # ToSend
  BY SizeFacts, ApbUartAssumption DEF Start, IInv, TypeOK, Unbegun
<1>2. /\ sending' \in 0..FifoSize
      /\ line' \in BOOLEAN /\ pulse' \in BOOLEAN /\ latched' \in BOOLEAN
      /\ levelInt' \in BOOLEAN
      /\ PulseLatched' /\ LevelOfTF' /\ LineExplained'
      /\ latched => latched'
  BY <1>1, DataWriteKeeps DEF Start
<1>3. TypeOK' /\ Queues' /\ Unbegun'
  BY <1>1, <1>2 DEF Start, receiver, IInv, TypeOK, Queues, Unbegun
<1>4. Announced'
  BY <1>2 DEF Start, receiver, IInv, Announced
<1> QED
  BY <1>2, <1>3, <1>4 DEF IInv

LEMMA SendSound == IInv /\ Send => IInv'
<1> SUFFICES ASSUME IInv, Send PROVE IInv'
  OBVIOUS
<1>1. CASE MaySend
  <2>1. sending < FifoSize /\ output - 1 \in 0..ToSend /\ output - 1 # ToSend
    BY <1>1, SizeFacts, ApbUartAssumption DEF MaySend, IInv, TypeOK
  <2>2. DataWrite /\ output' = output - 1
    BY <1>1 DEF Send
  <2>3. /\ sending' \in 0..FifoSize
        /\ line' \in BOOLEAN /\ pulse' \in BOOLEAN /\ latched' \in BOOLEAN
        /\ levelInt' \in BOOLEAN
        /\ PulseLatched' /\ LevelOfTF' /\ LineExplained'
        /\ latched => latched'
    BY <2>1, <2>2, DataWriteKeeps DEF Send
  <2>4. TypeOK' /\ Queues' /\ Unbegun'
    BY <2>1, <2>2, <2>3 DEF Send, receiver, IInv, TypeOK, Queues, Unbegun
  <2>5. Announced'
    BY <2>3 DEF Send, receiver, IInv, Announced
  <2> QED
    BY <2>3, <2>4, <2>5 DEF IInv
<1>2. CASE ~MaySend
  BY <1>2 DEF Send, receiver, IInv, TypeOK, Queues, Unbegun, PulseLatched, LevelOfTF,
              LineExplained, Announced
<1> QED
  BY <1>1, <1>2

LEMMA ReadSound == IInv /\ Read => IInv'
<1> SUFFICES ASSUME IInv, Read PROVE IInv'
  OBVIOUS
<1>1. /\ level > 0 /\ level' = level - 1 /\ data' = ring[ringEnd] /\ owed' = Tail(owed)
      /\ ringEnd' = Inc(ringEnd) /\ eIrq' = (eIrq \/ level > 1) /\ ring' = ring
  BY DEF Read, DataRead
<1>2. level \in 0..FifoSize /\ owed \in Seq(Chars) /\ Len(owed) = level
  BY DEF IInv, TypeOK, Queues
<1>3. owed' \in Seq(Chars) /\ Len(owed') = level'
  BY <1>1, <1>2, QueueFacts
<1>4. level' \in 0..FifoSize /\ level' < level
  BY <1>1, <1>2, SizeFacts
<1>5. ringEnd' \in 0..FifoSize /\ data' \in Chars \cup {Noise}
  BY <1>1, IncInRing DEF IInv, TypeOK
<1>6. Len(backend) + arriving + level' <= Received
  BY <1>4, <1>2, QueueFacts, ApbUartAssumption DEF IInv, TypeOK, Queues
<1>7. TypeOK'
  BY <1>1, <1>3, <1>4, <1>5, <1>6 DEF Read, IInv, TypeOK
<1>8. Queues' /\ Unbegun' /\ PulseLatched' /\ LevelOfTF' /\ LineExplained'
  BY <1>3 DEF Read, IInv, Queues, Unbegun, PulseLatched, LevelOfTF, LineExplained
<1>9. Announced'
  <2>1. level' > 0 => level > 1
    BY <1>1, <1>2, SizeFacts
  <2>2. level > 1 => eIrq'
    BY <1>1
  <2> QED
    BY <2>1, <2>2 DEF Announced
<1> QED
  BY <1>7, <1>8, <1>9 DEF IInv

LEMMA TickSound == IInv /\ Tick => IInv'
<1> SUFFICES ASSUME IInv, Tick PROVE IInv'
  OBVIOUS
<1> DEFINE notify == LastSent \/ FirstReceived
<1>1. notify \in BOOLEAN
  BY DEF LastSent, FirstReceived
<1>2. /\ level' \in 0..FifoSize /\ ring' \in [0..FifoSize -> Chars \cup {Noise}]
      /\ ringEnd' \in 0..FifoSize
      /\ backend' \in Seq(Chars) /\ owed' \in Seq(Chars) /\ Len(owed') = level'
      /\ Len(backend') + arriving + level' <= Received
      /\ level' > 0 => level > 0 \/ FirstReceived
  <2>1. Take
    BY DEF Tick
  <2>2. CASE backend # <<>> /\ Room
    <3>1. /\ level' = level + 1 /\ ring' = [ring EXCEPT ![ringEnd] = Head(backend)]
          /\ ringEnd' = Inc(ringEnd) /\ backend' = Tail(backend)
          /\ owed' = Append(owed, Head(backend))
      BY <2>1, <2>2 DEF Take
    <3>2. Head(backend) \in Chars /\ Tail(backend) \in Seq(Chars)
          /\ Len(backend) \in Nat /\ Len(Tail(backend)) = Len(backend) - 1
      BY <2>2, QueueFacts DEF IInv, Queues
    <3>3. owed' \in Seq(Chars) /\ Len(owed') = Len(owed) + 1
      BY <3>1, <3>2, QueueFacts DEF IInv, Queues
    <3>4. level' \in 0..FifoSize
      BY <2>2, <3>1, SizeFacts DEF Room, IInv, TypeOK
    <3>5. level' > 0 => level > 0 \/ FirstReceived
      BY <2>2 DEF FirstReceived, IInv, TypeOK
    <3>6. Len(backend') + arriving + level' <= Received
      BY <3>1, <3>2, ApbUartAssumption, SizeFacts DEF IInv, TypeOK, Queues
    <3> QED
      BY <3>1, <3>2, <3>3, <3>4, <3>5, <3>6, IncInRing DEF IInv, TypeOK
  <2>3. CASE ~(backend # <<>> /\ Room)
    BY <2>1, <2>3 DEF Take, receiver, IInv, TypeOK, Queues
  <2> QED
    BY <2>2, <2>3
<1> HIDE DEF notify
<1>3. /\ eIrq' = (eIrq /\ ~notify)
      /\ IF sending > 0 THEN sending' = sending - 1 /\ Level(sending - 1, notify)
         ELSE Drive(line, FALSE, notify) /\ UNCHANGED <<sending, levelInt>>
      /\ UNCHANGED <<control, arriving, handler, output, data>>
  BY DEF Tick, notify
<1>4. /\ sending' \in 0..FifoSize /\ (sending = 0 => sending' = 0)
      /\ line' \in BOOLEAN /\ pulse' \in BOOLEAN /\ latched' \in BOOLEAN
      /\ levelInt' \in BOOLEAN
      /\ PulseLatched' /\ LevelOfTF' /\ LineExplained'
      /\ (notify \/ latched) => latched'
  <2>1. CASE sending > 0
    <3>1. sending - 1 \in Nat /\ sending - 1 \in 0..FifoSize
      BY <2>1, SizeFacts DEF IInv, TypeOK
    <3> QED
      BY <1>1, <1>3, <2>1, <3>1, LevelKeeps DEF IInv, TypeOK
  <2>2. CASE ~(sending > 0)
    <3>1. Drive(line, FALSE, notify) /\ sending' = sending /\ levelInt' = levelInt
      BY <1>3, <2>2
    <3>2. /\ line' \in BOOLEAN /\ pulse' \in BOOLEAN /\ latched' \in BOOLEAN
          /\ PulseLatched'
          /\ (notify \/ latched) => latched'
          /\ pulse => pulse'
          /\ line' => line \/ pulse'
          /\ line => line'
      BY <1>1, <3>1, DriveKeeps DEF IInv, TypeOK
    <3> QED
      BY <1>3, <3>1, <3>2 DEF IInv, TypeOK, LevelOfTF, LineExplained
  <2> QED
    BY <2>1, <2>2
<1>5. TypeOK'
  <2>1. eIrq' \in BOOLEAN
    BY <1>3
  <2> QED
    BY <1>2, <1>3, <1>4, <2>1 DEF IInv, TypeOK
<1>6. Queues' /\ Unbegun'
  BY <1>2, <1>3, <1>4 DEF IInv, Queues, Unbegun
<1>7. Announced'
  BY <1>2, <1>3, <1>4 DEF IInv, Announced, notify
<1> QED
  BY <1>4, <1>5, <1>6, <1>7 DEF IInv

LEMMA ArriveSound == ASSUME NEW c \in Chars PROVE IInv /\ Arrive(c) => IInv'
<1> SUFFICES ASSUME IInv, Arrive(c) PROVE IInv'
  OBVIOUS
<1>1. backend' \in Seq(Chars) /\ Len(backend') = Len(backend) + 1 /\ Len(backend) \in Nat
  BY QueueFacts DEF Arrive, IInv, Queues
<1>2. arriving' \in Nat /\ arriving' = arriving - 1
  BY DEF Arrive, IInv, Queues
<1>3. Len(backend') + arriving' + level <= Received
  BY <1>1, <1>2, ApbUartAssumption, SizeFacts DEF IInv, TypeOK, Queues
<1> QED
  BY <1>1, <1>2, <1>3 DEF Arrive, receiver, driver, IInv, TypeOK, Queues, Unbegun, PulseLatched,
        LevelOfTF, LineExplained, Announced

LEMMA LateSound == IInv /\ Late => IInv'
<1> SUFFICES ASSUME IInv, Late PROVE IInv'
  OBVIOUS
<1>1. /\ line' \in BOOLEAN /\ pulse' \in BOOLEAN /\ latched' \in BOOLEAN
      /\ PulseLatched' /\ latched' /\ (pulse => pulse') /\ (line' => line \/ pulse')
      /\ (line => line')
  <2>1. Drive(line, FALSE, TRUE)
    BY DEF Late
  <2> QED
    BY <2>1, DriveKeeps DEF IInv, TypeOK
<1> QED
  BY <1>1 DEF Late, receiver, IInv, TypeOK, Queues, Unbegun, LevelOfTF, LineExplained, Announced

LEMMA LowerSound == IInv /\ Lower => IInv'
<1> SUFFICES ASSUME IInv, Lower PROVE IInv'
  OBVIOUS
<1>1. pulse' \in BOOLEAN /\ line' \in BOOLEAN
  BY DEF Lower
<1>2. LineExplained' /\ PulseLatched'
  BY DEF Lower, driver, IInv, LineExplained, PulseLatched
<1>3. TypeOK'
  BY <1>1 DEF Lower, receiver, driver, IInv, TypeOK
<1> QED
  BY <1>2, <1>3 DEF Lower, receiver, driver, IInv, Queues, Unbegun, LevelOfTF, Announced

LEMMA InterruptSound == IInv /\ Interrupt => IInv'
<1> SUFFICES ASSUME IInv, Interrupt PROVE IInv'
  OBVIOUS
<1>1. TypeOK'
  BY DEF Interrupt, receiver, IInv, TypeOK
<1>2. PulseLatched' /\ Announced' /\ LineExplained'
  BY DEF Interrupt, PulseLatched, Announced, LineExplained, IInv
<1> QED
  BY <1>1, <1>2 DEF Interrupt, receiver, IInv, Queues, Unbegun, LevelOfTF

LEMMA NoMoreSound == IInv /\ NoMore => IInv'
BY DEF NoMore, receiver, IInv, TypeOK, Queues, Unbegun, PulseLatched, LevelOfTF,
       LineExplained, Announced

-----------------------------------------------------------------------------
(* The theorems                                                            *)

LEMMA InitSound == Init => IInv
<1> SUFFICES ASSUME Init PROVE IInv
  OBVIOUS
<1>1. <<>> \in Seq(Chars) /\ Len(<<>>) = 0
  BY EmptySeq
<1>2. 0 \in 0..FifoSize /\ Received \in Nat /\ ToSend \in 0..ToSend
  BY SizeFacts, ApbUartAssumption
<1>3. ring \in [0..FifoSize -> Chars \cup {Noise}]
  BY DEF Init
<1>4. Len(backend) + arriving + level <= Received
  BY <1>1, <1>2 DEF Init
<1>5. TypeOK
  BY <1>1, <1>2, <1>3, <1>4 DEF Init, TypeOK
<1> QED
  BY <1>1, <1>2, <1>5 DEF Init, IInv, Queues, Unbegun, PulseLatched, LevelOfTF,
        LineExplained, Announced

LEMMA NextSound == IInv /\ [Next]_vars => IInv'
<1> SUFFICES ASSUME IInv, [Next]_vars PROVE IInv'
  OBVIOUS
<1>1. ASSUME NEW c \in Chars, Arrive(c) PROVE IInv'
  BY <1>1, ArriveSound
<1>2. CASE UNCHANGED vars
  BY <1>2 DEF vars, receiver, driver, IInv, TypeOK, Queues, Unbegun, PulseLatched, LevelOfTF,
        LineExplained, Announced
<1> QED
  BY <1>1, <1>2, TickSound, LateSound, LowerSound, StartSound, InterruptSound, ReadSound,
     NoMoreSound, SendSound DEF Next, Handler

\* The buffers keep their bounds and the index its ring, for any size and any
\* arrivals (apbuart.cpp:184-241).
THEOREM UartTypes == Spec => []TypeOK
<1>1. IInv => TypeOK
  BY DEF IInv
<1> QED
  BY <1>1, InitSound, NextSound, PTL DEF Spec

\* No character waits unannounced, although notifications of e_irq are lost and
\* cancelled (apbuart.cpp:111-113, 172-182, 202-214).
THEOREM WaitingIsAnnounced == Spec => []Announced
<1>1. IInv => Announced
  BY DEF IInv
<1> QED
  BY <1>1, InitSound, NextSound, PTL DEF Spec

\* The line is high for a pulse or for the level, and for the level it is high
\* (apbuart.cpp:178, 220-232).
THEOREM LineIsExplained == Spec => []LineExplained
<1>1. IInv => LineExplained
  BY DEF IInv
<1> QED
  BY <1>1, InitSound, NextSound, PTL DEF Spec
=============================================================================
