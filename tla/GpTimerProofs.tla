--------------------------- MODULE GpTimerProofs ---------------------------
(***************************************************************************)
(* Proofs about GpTimer for any number of counters, with and without the   *)
(* watchdog, and for sleeps of any length.                                 *)
(*                                                                         *)
(* Each function of GPCounter is first shown to keep a counter sound; the  *)
(* actions then apply them to one counter or to all.                       *)
(***************************************************************************)
EXTENDS GpTimer, TLAPS

K == [ctrl : Control, stopped : BOOLEAN, chainRun : BOOLEAN, alarm : 0..None]

\* a counter runs only while it is enabled
Enabled(k) == ~k.stopped => k.ctrl.en

\* a counter that runs has an alarm
Set(k) == ~k.stopped => k.alarm # None

\* What holds of a counter whose thread is asleep or not, w clocks before it goes
\* back to sleep: an alarm set meanwhile comes later than that.
Sound(k, sleeps, w) ==
    /\ k \in K
    /\ Enabled(k)
    /\ sleeps => Set(k)
    /\ ~sleeps => k.alarm > w

FirstUnchained == ~ctrl[0].ch

IInv ==
    /\ TypeOK
    /\ \A c \in Counters : Sound(Counter(c), asleep[c], window[c])
    /\ FirstUnchained

-----------------------------------------------------------------------------
(* The functions of GPCounter                                              *)

\* What every function leaves in order, whether the counter runs or not.
Keeps(k, l) ==
    /\ l \in K
    /\ Set(k) => Set(l)
    /\ \A w \in 0..1 : k.alarm > w => l.alarm > w

LEMMA DelaysLate == \A c \in Counters : Delays(c) \subseteq 3..MaxDelay
BY GpTimerAssumption DEF Delays, Counters

LEMMA CalculatedKeeps ==
    ASSUME NEW k \in K, NEW delay \in 3..MaxDelay, Enabled(k)
    PROVE  /\ Keeps(k, Calculated(k, delay))
           /\ Calculated(k, delay).stopped = k.stopped
           /\ Calculated(k, delay).ctrl = k.ctrl
           /\ Calculated(k, delay).chainRun = k.chainRun
           /\ Set(Calculated(k, delay))
BY GpTimerAssumption DEF K, Keeps, Calculated, None, Enabled, Set

\* the same of a counter that has just been disabled
LEMMA CalculatedLate ==
    ASSUME NEW k \in K, NEW delay \in 3..MaxDelay
    PROVE  /\ Calculated(k, delay) \in K
           /\ Calculated(k, delay).stopped = k.stopped
           /\ Calculated(k, delay).ctrl = k.ctrl
           /\ Calculated(k, delay).chainRun = k.chainRun
           /\ k.ctrl.en => Calculated(k, delay).alarm # None
           /\ \A w \in 0..1 : Calculated(k, delay).alarm > w
BY GpTimerAssumption DEF K, Calculated, None

LEMMA StartedKeeps ==
    ASSUME NEW k \in K, NEW delay \in 3..MaxDelay
    PROVE  /\ Keeps(k, Started(k, delay))
           /\ k.ctrl.en => Enabled(Started(k, delay))
           /\ Enabled(k) => Enabled(Started(k, delay))
           /\ Started(k, delay).ctrl = k.ctrl
           /\ ~Startable(k) => Started(k, delay) = k
<1>1. CASE Startable(k)
  <2> DEFINE l == Calculated(k, delay)
  <2>1. Started(k, delay) = [l EXCEPT !.stopped = FALSE]
    BY <1>1 DEF Started
  <2>2. l \in K /\ l.ctrl = k.ctrl
    BY CalculatedLate
  <2>3. k.ctrl.en => l.alarm # None
    BY CalculatedLate
  <2>4. \A w \in 0..1 : l.alarm > w
    BY CalculatedLate
  <2> HIDE DEF l
  <2> QED BY <1>1, <2>1, <2>2, <2>3, <2>4 DEF K, Keeps, Startable, Enabled, Set
<1>2. CASE ~Startable(k)
  <2>1. Started(k, delay) = k
    BY <1>2 DEF Started
  <2> QED BY <1>2, <2>1 DEF K, Keeps, Startable, Enabled, Set
<1> QED BY <1>1, <1>2

LEMMA StoppedKeeps ==
    ASSUME NEW k \in K
    PROVE  /\ Keeps(k, Stopped(k))
           /\ Stopped(k).stopped
           /\ Stopped(k).ctrl = k.ctrl
           /\ Stopped(k).chainRun = k.chainRun
           /\ k.stopped => Stopped(k) = k
<1>1. None \in 0..None /\ \A w \in 0..1 : None > w
  BY GpTimerAssumption DEF None
<1> DEFINE s == [k EXCEPT !.alarm = None, !.stopped = TRUE]
<1>2. /\ s \in K /\ s.alarm = None /\ s.stopped /\ s.ctrl = k.ctrl
      /\ s.chainRun = k.chainRun
  BY <1>1 DEF K
<1>3. CASE k.stopped
  BY <1>3 DEF Stopped, Keeps
<1>4. CASE ~k.stopped
  <2>1. Stopped(k) = s
    BY <1>4 DEF Stopped
  <2> QED
    BY <1>1, <1>2, <1>4, <2>1 DEF Keeps, Set
<1> QED
  BY <1>3, <1>4

LEMMA ChainedKeeps ==
    ASSUME NEW k \in K, NEW delay \in 3..MaxDelay, Enabled(k)
    PROVE  /\ Keeps(k, Chained(k, delay))
           /\ Enabled(Chained(k, delay))
           /\ Chained(k, delay).ctrl = k.ctrl
<1> DEFINE l == [k EXCEPT !.chainRun = TRUE]
<1>1. l \in K /\ Enabled(l) /\ l.ctrl = k.ctrl /\ l.alarm = k.alarm /\ l.stopped = k.stopped
  BY DEF K, Enabled
<1>2. Keeps(l, Started(l, delay)) /\ Enabled(Started(l, delay)) /\ Started(l, delay).ctrl = l.ctrl
  BY <1>1, StartedKeeps
<1> QED
  BY <1>1, <1>2 DEF Chained, Keeps, Set

LEMMA LoadedKeeps ==
    ASSUME NEW k \in K, NEW delay \in 3..MaxDelay, NEW ld \in BOOLEAN
    PROVE  /\ Loaded(k, ld, delay) \in K
           /\ Loaded(k, ld, delay).stopped = k.stopped
           /\ Loaded(k, ld, delay).ctrl = k.ctrl
           /\ Loaded(k, ld, delay).chainRun = k.chainRun
           /\ Enabled(k) => Keeps(k, Loaded(k, ld, delay))
           /\ k.ctrl.en /\ Set(k) => Set(Loaded(k, ld, delay))
           /\ \A w \in 0..1 : k.alarm > w => Loaded(k, ld, delay).alarm > w
BY CalculatedKeeps, CalculatedLate DEF Loaded, Keeps, Set

\* A register write leaves a sound counter, and does not start one in chain mode.
LEMMA ControlledSound ==
    ASSUME NEW k \in K, NEW delay \in 3..MaxDelay, NEW ld \in BOOLEAN
    PROVE  /\ Keeps(k, Controlled(k, ld, delay))
           /\ Enabled(Controlled(k, ld, delay))
           /\ Controlled(k, ld, delay).ctrl = k.ctrl
           /\ k.ctrl.ch => Controlled(k, ld, delay).stopped
<1> DEFINE u == Unchained(k)
           l == Loaded(u, ld, delay)
           s == Switched(l, delay)
<1>1. /\ u \in K /\ u.ctrl = k.ctrl
      /\ Set(k) => Set(u)
      /\ \A w \in 0..1 : k.alarm > w => u.alarm > w
      /\ k.ctrl.ch => u.stopped /\ ~u.chainRun
  <2> DEFINE v == [k EXCEPT !.chainRun = FALSE]
  <2>1. v \in K /\ v.ctrl = k.ctrl /\ v.alarm = k.alarm /\ v.stopped = k.stopped /\ ~v.chainRun
    BY DEF K
  <2>2. /\ Keeps(v, Stopped(v)) /\ Stopped(v).stopped /\ Stopped(v).ctrl = v.ctrl
        /\ Stopped(v).chainRun = v.chainRun
    BY <2>1, StoppedKeeps
  <2> QED
    BY <2>1, <2>2 DEF Unchained, Keeps, Set
<1>2. /\ l \in K /\ l.ctrl = u.ctrl /\ l.stopped = u.stopped /\ l.chainRun = u.chainRun
      /\ u.ctrl.en /\ Set(u) => Set(l)
      /\ \A w \in 0..1 : u.alarm > w => l.alarm > w
  BY <1>1, LoadedKeeps
<1>3. CASE l.ctrl.en
  <2>1. s = Started(l, delay)
    BY <1>3 DEF Switched
  <2>2. /\ Keeps(l, s) /\ Enabled(s) /\ s.ctrl = l.ctrl
        /\ ~Startable(l) => s = l
    BY <1>2, <1>3, <2>1, StartedKeeps
  <2>3. k.ctrl.ch => s.stopped
    BY <1>1, <1>2, <2>2 DEF Startable
  <2> HIDE DEF u, l, s
  <2>4. Keeps(k, s)
    BY <1>1, <1>2, <1>3, <2>2 DEF Keeps
  <2> QED
    BY <1>1, <1>2, <2>2, <2>3, <2>4 DEF Controlled, u, l, s
<1>4. CASE ~l.ctrl.en
  <2>1. s = Stopped(l)
    BY <1>4 DEF Switched
  <2>2. Keeps(l, s) /\ s.stopped /\ s.ctrl = l.ctrl
    BY <1>2, <2>1, StoppedKeeps
  <2> HIDE DEF u, l, s
  <2>3. Keeps(k, s) /\ Enabled(s)
    BY <1>1, <1>2, <2>2 DEF Keeps, Enabled, Set
  <2> QED
    BY <1>1, <1>2, <2>2, <2>3 DEF Controlled, u, l, s
<1> QED
  BY <1>3, <1>4

LEMMA ReloadedSound ==
    ASSUME NEW k \in K, NEW delay \in 3..MaxDelay
    PROVE  /\ Reloaded(k, delay) \in K
           /\ Enabled(Reloaded(k, delay))
           /\ Set(Reloaded(k, delay))
           /\ k.stopped => Reloaded(k, delay).stopped
           /\ Reloaded(k, delay).ctrl.ch = k.ctrl.ch
<1> DEFINE e == [k EXCEPT !.ctrl.en = k.ctrl.rs]
           s == IF k.ctrl.rs THEN e ELSE Stopped(e)
<1>1. /\ e \in K /\ e.ctrl.en = k.ctrl.rs /\ e.ctrl.ch = k.ctrl.ch /\ e.stopped = k.stopped
  BY DEF K, Control
<1>2. /\ s \in K /\ Enabled(s) /\ s.ctrl = e.ctrl
      /\ k.stopped => s.stopped
  BY <1>1, StoppedKeeps DEF Keeps, Enabled
<1> HIDE DEF s
<1>3. /\ Calculated(s, delay) \in K /\ Set(Calculated(s, delay))
      /\ Calculated(s, delay).stopped = s.stopped /\ Calculated(s, delay).ctrl = s.ctrl
  BY <1>2, CalculatedKeeps DEF Keeps
<1>4. Reloaded(k, delay) = Calculated(s, delay)
  BY DEF Reloaded, s
<1> QED
  BY <1>1, <1>2, <1>3, <1>4 DEF Enabled

-----------------------------------------------------------------------------
(* The actions                                                             *)

LEMMA StoredCounters ==
    ASSUME NEW f \in [Counters -> K], Store(f)
    PROVE  /\ \A c \in Counters : Counter(c)' = f[c]
           /\ ctrl' \in [Counters -> Control] /\ stopped' \in [Counters -> BOOLEAN]
           /\ chainRun' \in [Counters -> BOOLEAN] /\ alarm' \in [Counters -> 0..None]
           /\ \A c \in Counters :
                 /\ ctrl'[c] = f[c].ctrl /\ stopped'[c] = f[c].stopped
                 /\ chainRun'[c] = f[c].chainRun /\ alarm'[c] = f[c].alarm
BY DEF Store, K, Counter

LEMMA NowCounters ==
    ASSUME TypeOK
    PROVE  /\ Now \in [Counters -> K]
           /\ \A c \in Counters :
                 /\ Now[c] = Counter(c)
                 /\ Now[c].ctrl = ctrl[c] /\ Now[c].stopped = stopped[c]
                 /\ Now[c].chainRun = chainRun[c] /\ Now[c].alarm = alarm[c]
BY DEF TypeOK, Now, Counter, K

LEMMA ZeroIsCounter == 0 \in Counters /\ Last \in Counters
BY GpTimerAssumption DEF Counters, Last

\* A write stores a new state of every counter and leaves the threads alone.
LEMMA WriteSound ==
    ASSUME IInv, Write, pirq' \in [Counters -> BOOLEAN], wdog' \in BOOLEAN,
           fresh' \in BOOLEAN,
           NEW f \in [Counters -> K], Store(f),
           \A c \in Counters : Keeps(Now[c], f[c]) /\ Enabled(f[c]),
           ~f[0].ctrl.ch
    PROVE  IInv'
<1>1. TypeOK'
  <2>1. writes' \in 0..MaxWrites
    BY GpTimerAssumption DEF IInv, TypeOK, Write
  <2> QED
    BY <2>1, StoredCounters DEF IInv, TypeOK, Write
<1>2. ASSUME NEW c \in Counters
      PROVE  Sound(Counter(c), asleep[c], window[c])'
  <2>1. Counter(c)' = f[c] /\ Counter(c) = Now[c]
    BY StoredCounters, NowCounters DEF IInv
  <2>2. asleep'[c] = asleep[c] /\ window'[c] = window[c] /\ window[c] \in 0..1
    BY DEF Write, IInv, TypeOK
  <2>3. Sound(Now[c], asleep[c], window[c]) /\ Keeps(Now[c], f[c]) /\ Enabled(f[c])
    BY <2>1 DEF IInv
  <2>4. Sound(f[c], asleep[c], window[c])
    BY <2>2, <2>3 DEF Sound, Keeps
  <2> QED
    BY <2>1, <2>2, <2>4 DEF Sound, Enabled, Set
<1>3. FirstUnchained'
  BY StoredCounters, ZeroIsCounter DEF FirstUnchained
<1> QED
  BY <1>1, <1>2, <1>3 DEF IInv

LEMMA KeepsItself == \A k \in K : Keeps(k, k)
BY DEF Keeps

LEMMA NowEnabled ==
    ASSUME IInv
    PROVE  /\ TypeOK
           /\ Now \in [Counters -> K]
           /\ \A c \in Counters : Enabled(Now[c]) /\ Now[c].ctrl = ctrl[c]
           /\ ~Now[0].ctrl.ch
BY NowCounters, ZeroIsCounter DEF IInv, Sound, FirstUnchained

LEMMA CtrlWriteSound ==
    ASSUME IInv, NEW c \in Counters, CtrlWrite(c)
    PROVE  IInv'
<1>1. PICK value \in Control, ld \in BOOLEAN, delay \in Delays(c) :
         /\ value.ch => c # 0
         /\ Store([Now EXCEPT ![c] = Controlled([@ EXCEPT !.ctrl = value], ld, delay)])
  BY DEF CtrlWrite
<1> DEFINE k == [Now[c] EXCEPT !.ctrl = value]
           l == Controlled(k, ld, delay)
           f == [Now EXCEPT ![c] = l]
<1>2. /\ k \in K /\ k.ctrl = value /\ k.stopped = Now[c].stopped /\ k.alarm = Now[c].alarm
  BY NowEnabled DEF K
<1>3. Keeps(k, l) /\ Enabled(l) /\ l.ctrl = value
  BY <1>2, DelaysLate, ControlledSound
<1> HIDE DEF k, l
<1>4. Keeps(Now[c], l)
  BY <1>2, <1>3 DEF Keeps, Set
<1>5. /\ f \in [Counters -> K]
      /\ \A d \in Counters : Keeps(Now[d], f[d]) /\ Enabled(f[d])
  BY <1>3, <1>4, NowEnabled, KeepsItself DEF Keeps
<1>6. ~f[0].ctrl.ch
  BY <1>1, <1>3, NowEnabled, ZeroIsCounter
<1>7. Store(f)
  BY <1>1, NowEnabled DEF k, l
<1> HIDE DEF f
<1> QED
  BY <1>5, <1>6, <1>7, WriteSound DEF CtrlWrite, IInv, TypeOK

LEMMA ValueWriteSound ==
    ASSUME IInv, NEW c \in Counters, ValueWrite(c)
    PROVE  IInv'
<1>1. PICK delay \in Delays(c) : Store([Now EXCEPT ![c] = Loaded(@, TRUE, delay)])
  BY DEF ValueWrite
<1> DEFINE l == Loaded(Now[c], TRUE, delay)
           f == [Now EXCEPT ![c] = l]
<1>2. /\ Keeps(Now[c], l) /\ l.ctrl = Now[c].ctrl /\ l.stopped = Now[c].stopped
  BY DelaysLate, NowEnabled, LoadedKeeps
<1>3. Store(f)
  BY <1>1, NowEnabled
<1> HIDE DEF l
<1>4. /\ f \in [Counters -> K]
      /\ \A d \in Counters : Keeps(Now[d], f[d]) /\ Enabled(f[d])
      /\ ~f[0].ctrl.ch
  BY <1>2, NowEnabled, KeepsItself, ZeroIsCounter DEF Keeps, Enabled
<1> HIDE DEF f
<1> QED
  BY <1>3, <1>4, WriteSound DEF ValueWrite, IInv, TypeOK

LEMMA ScalerWriteSound ==
    ASSUME IInv, ScalerWrite
    PROVE  IInv'
<1>1. PICK d \in DelaysOfAll : Store([c \in Counters |-> Calculated(Now[c], d[c])])
  BY DEF ScalerWrite
<1> DEFINE f == [c \in Counters |-> Calculated(Now[c], d[c])]
<1>2. \A c \in Counters : d[c] \in 3..MaxDelay
  BY DEF DelaysOfAll
<1>3. \A c \in Counters :
        /\ Keeps(Now[c], Calculated(Now[c], d[c]))
        /\ Calculated(Now[c], d[c]).ctrl = Now[c].ctrl
        /\ Calculated(Now[c], d[c]).stopped = Now[c].stopped
  BY <1>2, NowEnabled, CalculatedKeeps
<1>4. /\ f \in [Counters -> K]
      /\ \A c \in Counters : Keeps(Now[c], f[c]) /\ Enabled(f[c])
      /\ ~f[0].ctrl.ch
  BY <1>3, NowEnabled, ZeroIsCounter DEF Keeps, Enabled
<1>5. Store(f)
  BY <1>1
<1> HIDE DEF f
<1> QED
  BY <1>4, <1>5, WriteSound DEF ScalerWrite, IInv, TypeOK

\* A reset stops every counter, and leaves it or starts the watchdog without chaining.
LEMMA ResetOfSound ==
    ASSUME IInv, NEW c \in Counters, NEW delay \in 3..MaxDelay
    PROVE  /\ Keeps(Now[c], ResetOf(c, delay))
           /\ Enabled(ResetOf(c, delay))
           /\ ~ResetOf(c, delay).ctrl.ch
<1> DEFINE k == Calculated(Counter(c), delay)
           off == [en |-> FALSE, rs |-> FALSE, ch |-> FALSE, ie |-> FALSE]
           l == Cleared(k)
           b == [l EXCEPT !.ctrl = Bitten]
<1>1. Counter(c) = Now[c] /\ Now[c] \in K /\ Enabled(Now[c])
  BY NowCounters, NowEnabled
<1>2. Keeps(Now[c], k)
  BY <1>1, CalculatedKeeps
<1> HIDE DEF k
<1>3. off \in Control /\ ~off.ch /\ Bitten \in Control /\ ~Bitten.ch
  BY DEF Control, Bitten
<1>4. l \in K /\ l.ctrl = off /\ l.stopped /\ l.alarm = k.alarm
  BY <1>2, <1>3 DEF Cleared, K, Keeps
<1> HIDE DEF l
<1>5. b \in K /\ b.ctrl = Bitten /\ b.stopped /\ b.alarm = k.alarm
  BY <1>3, <1>4 DEF K
<1> HIDE DEF b
<1>6. Keeps(Now[c], l) /\ Enabled(l) /\ Keeps(Now[c], b)
  BY <1>2, <1>4, <1>5 DEF Keeps, Enabled, Set
<1>7. /\ Keeps(b, Controlled(b, TRUE, delay)) /\ Enabled(Controlled(b, TRUE, delay))
      /\ Controlled(b, TRUE, delay).ctrl = Bitten
  BY <1>5, ControlledSound
<1>8. Keeps(Now[c], Controlled(b, TRUE, delay))
  BY <1>6, <1>7 DEF Keeps
<1>9. CASE Watchdog /\ c = Last
  <2>1. ResetOf(c, delay) = Controlled(b, TRUE, delay)
    BY <1>9 DEF ResetOf, b, l, k
  <2> QED
    BY <1>3, <1>7, <1>8, <2>1
<1>10. CASE ~(Watchdog /\ c = Last)
  <2>1. ResetOf(c, delay) = l
    BY <1>10 DEF ResetOf, l, k
  <2> QED
    BY <1>3, <1>4, <1>6, <2>1
<1> QED
  BY <1>9, <1>10

LEMMA ResetSound ==
    ASSUME IInv, Reset
    PROVE  IInv'
<1>1. PICK d \in DelaysOfAll : Store([c \in Counters |-> ResetOf(c, d[c])])
  BY DEF Reset
<1> DEFINE f == [c \in Counters |-> ResetOf(c, d[c])]
<1>2. \A c \in Counters : d[c] \in 3..MaxDelay
  BY DEF DelaysOfAll
<1>3. \A c \in Counters :
        Keeps(Now[c], f[c]) /\ Enabled(f[c]) /\ ~f[c].ctrl.ch
  BY <1>2, ResetOfSound
<1>4. f \in [Counters -> K] /\ ~f[0].ctrl.ch
  BY <1>3, ZeroIsCounter DEF Keeps
<1>5. Store(f)
  BY <1>1
<1> HIDE DEF f
<1>6. pirq' \in [Counters -> BOOLEAN]
  BY DEF Reset, IInv, TypeOK
<1> QED
  BY <1>3, <1>4, <1>5, <1>6, WriteSound DEF Reset

LEMMA UnderflowSound ==
    ASSUME IInv, NEW c \in Counters, Underflow(c)
    PROVE  IInv'
<1>1. None \in 0..None /\ None > 1
  BY GpTimerAssumption DEF None
<1>2. TypeOK'
  BY <1>1 DEF IInv, TypeOK, Underflow
<1>3. ASSUME NEW d \in Counters
      PROVE  Sound(Counter(d), asleep[d], window[d])'
  <2>1. CASE d = c
    <3>1. Counter(c)' = [Counter(c) EXCEPT !.alarm = None] /\ ~asleep'[c] /\ window'[c] = 1
      BY DEF IInv, TypeOK, Underflow, Counter
    <3>2. /\ Counter(c) \in K /\ Enabled(Counter(c))
      BY DEF IInv, Sound
    <3> QED
      BY <1>1, <2>1, <3>1, <3>2 DEF Sound, K, Enabled, Set
  <2>2. CASE d # c
    <3>1. Counter(d)' = Counter(d) /\ asleep'[d] = asleep[d] /\ window'[d] = window[d]
      BY <2>2 DEF IInv, TypeOK, Underflow, Counter
    <3> QED
      BY <3>1 DEF IInv, Sound, Enabled, Set
  <2> QED
    BY <2>1, <2>2
<1> QED
  BY <1>2, <1>3 DEF IInv, FirstUnchained, Underflow

\* The turn of a counter changes its successor, if that is chained, and then itself.
LEMMA TurnSound ==
    ASSUME IInv, NEW c \in Counters,
           NEW delay \in Delays(c), NEW next \in Delays(Succ(c)), Turn(c, delay, next)
    PROVE  \E f \in [Counters -> K] :
             /\ Store(f)
             /\ Enabled(f[c]) /\ Set(f[c])
             /\ f[c].ctrl.ch = ctrl[c].ch
             /\ stopped[c] => f[c].stopped
             /\ \A d \in Counters \ {c} :
                   /\ Keeps(Now[d], f[d]) /\ Enabled(f[d])
                   /\ f[d].ctrl = ctrl[d]
                   /\ ~(ctrl[d].ch /\ d = c + 1) => f[d].stopped = stopped[d]
<1> DEFINE s == Succ(c)
           l == Chained(Now[s], next)
           g == IF ctrl[s].ch THEN [Now EXCEPT ![s] = l] ELSE Now
           r == Reloaded(g[c], delay)
           f == [g EXCEPT ![c] = r]
<1>1. /\ s \in Counters
      /\ s = c + 1 \/ s = 0
  BY GpTimerAssumption DEF Succ, Counters, Last
<1>2. delay \in 3..MaxDelay /\ next \in 3..MaxDelay
  BY <1>1, DelaysLate
<1>3. Keeps(Now[s], l) /\ Enabled(l) /\ l.ctrl = Now[s].ctrl
  BY <1>1, <1>2, NowEnabled, ChainedKeeps
<1>4. Store(f)
  BY NowEnabled, <1>1 DEF Turn
<1>5. ctrl[s].ch => s # 0 /\ s = c + 1 /\ s # c
  BY <1>1 DEF IInv, FirstUnchained, Counters
<1> HIDE DEF l, s
<1>6. /\ g \in [Counters -> K]
      /\ g[c] = Now[c]
      /\ \A d \in Counters \ {c} :
           /\ Keeps(Now[d], g[d]) /\ Enabled(g[d]) /\ g[d].ctrl = ctrl[d]
           /\ ~(ctrl[d].ch /\ d = c + 1) => g[d] = Now[d]
  BY <1>1, <1>3, <1>5, NowEnabled, KeepsItself DEF Keeps
<1> HIDE DEF g
<1>7. /\ r \in K /\ Enabled(r) /\ Set(r) /\ (g[c].stopped => r.stopped)
      /\ r.ctrl.ch = g[c].ctrl.ch
  BY <1>2, <1>6, ReloadedSound
<1> HIDE DEF r
<1>8. f \in [Counters -> K]
  BY <1>6, <1>7
<1>9. /\ Enabled(f[c]) /\ Set(f[c]) /\ f[c].ctrl.ch = ctrl[c].ch
      /\ stopped[c] => f[c].stopped
  BY <1>6, <1>7, NowCounters DEF IInv
<1>10. \A d \in Counters \ {c} :
        /\ Keeps(Now[d], f[d]) /\ Enabled(f[d]) /\ f[d].ctrl = ctrl[d]
        /\ ~(ctrl[d].ch /\ d = c + 1) => f[d].stopped = stopped[d]
  BY <1>6, NowCounters DEF IInv
<1> HIDE DEF f
<1> QED
  BY <1>4, <1>8, <1>9, <1>10

LEMMA BackToSleepSound ==
    ASSUME IInv, NEW c \in Counters, BackToSleep(c)
    PROVE  IInv'
<1>1. PICK f \in [Counters -> K] :
        /\ Store(f)
        /\ Enabled(f[c]) /\ Set(f[c])
        /\ f[c].ctrl.ch = ctrl[c].ch
        /\ \A d \in Counters \ {c} :
              Keeps(Now[d], f[d]) /\ Enabled(f[d]) /\ f[d].ctrl = ctrl[d]
  BY TurnSound DEF BackToSleep
<1>2. TypeOK'
  BY <1>1, StoredCounters DEF IInv, TypeOK, BackToSleep
<1>3. ASSUME NEW d \in Counters
      PROVE  Sound(Counter(d), asleep[d], window[d])'
  <2>1. Counter(d)' = f[d] /\ Counter(d) = Now[d]
    BY <1>1, StoredCounters, NowCounters DEF IInv
  <2>2. asleep'[d] = (asleep[d] \/ d = c) /\ window'[d] = window[d] /\ window[d] \in 0..1
    BY DEF BackToSleep, IInv, TypeOK
  <2>3. Sound(Now[d], asleep[d], window[d])
    BY <2>1 DEF IInv
  <2>4. CASE d = c
    BY <1>1, <2>1, <2>2, <2>4 DEF Sound, Enabled, Set
  <2>5. CASE d # c
    <3>1. Sound(f[d], asleep[d], window[d])
      BY <1>1, <2>2, <2>3, <2>5 DEF Sound, Keeps
    <3> QED
      BY <2>1, <2>2, <2>5, <3>1 DEF Sound, Enabled, Set
  <2> QED
    BY <2>4, <2>5
<1>4. FirstUnchained'
  BY <1>1, StoredCounters, ZeroIsCounter DEF IInv, FirstUnchained
<1> QED
  BY <1>2, <1>3, <1>4 DEF IInv

LEMMA AlarmAfterWindow ==
    ASSUME IInv
    PROVE  \A c \in Counters : ~asleep[c] => alarm[c] > window[c]
<1> SUFFICES ASSUME NEW c \in Counters, ~asleep[c] PROVE alarm[c] > window[c]
  OBVIOUS
<1>1. Counter(c).alarm > window[c]
  BY DEF IInv, Sound
<1> QED
  BY <1>1 DEF Counter

LEMMA ClockSound ==
    ASSUME IInv, Clock
    PROVE  IInv'
<1>1. ASSUME NEW c \in Counters
      PROVE  /\ alarm[c] \in 0..None /\ window[c] \in 0..1
             /\ alarm'[c] = IF alarm[c] \in {None, 0} THEN None ELSE alarm[c] - 1
             /\ window'[c] = IF asleep[c] THEN 0 ELSE window[c] - 1
             /\ IF asleep[c] THEN alarm[c] # 0 ELSE window[c] = 1 /\ alarm[c] > 1
  <2>1. alarm[c] \in 0..None /\ window[c] \in 0..1
    BY DEF IInv, TypeOK
  <2>2. ~asleep[c] => alarm[c] > window[c]
    BY AlarmAfterWindow DEF IInv
  <2>3. IF asleep[c] THEN alarm[c] # 0 ELSE window[c] # 0
    BY DEF Clock, Due
  <2>4. /\ alarm'[c] = IF alarm[c] \in {None, 0} THEN None ELSE alarm[c] - 1
        /\ window'[c] = IF asleep[c] THEN 0 ELSE window[c] - 1
    BY DEF Clock
  <2> QED
    BY <2>1, <2>2, <2>3, <2>4
<1>2. None \in Nat /\ None > 1
  BY GpTimerAssumption DEF None
<1>3. ASSUME NEW c \in Counters
      PROVE  /\ alarm'[c] \in 0..None /\ window'[c] \in 0..1
             /\ ~asleep[c] => alarm'[c] > window'[c]
             /\ asleep[c] /\ alarm[c] # None => alarm'[c] # None
  BY <1>1, <1>2
<1>4. TypeOK'
  BY <1>3 DEF Clock, IInv, TypeOK
<1>5. ASSUME NEW c \in Counters
      PROVE  Sound(Counter(c), asleep[c], window[c])'
  <2>1. /\ ctrl'[c] = ctrl[c] /\ stopped'[c] = stopped[c] /\ asleep'[c] = asleep[c]
    BY DEF Clock
  <2>2. Counter(c)' \in K
    BY <1>4 DEF TypeOK, Counter, K
  <2> QED
    BY <1>3, <2>1, <2>2 DEF IInv, Sound, Enabled, Set, Counter
<1> QED
  BY <1>4, <1>5 DEF IInv, FirstUnchained, Clock

-----------------------------------------------------------------------------
(* The theorems                                                            *)

LEMMA InitSound == Init => IInv
<1> SUFFICES ASSUME Init PROVE IInv
  OBVIOUS
<1>1. None \in 0..None /\ 0 \in 0..MaxWrites
  BY GpTimerAssumption DEF None
<1>2. TypeOK
  <2>1. [en |-> FALSE, rs |-> FALSE, ch |-> FALSE, ie |-> FALSE] \in Control
    BY DEF Control
  <2>2. ctrl \in [Counters -> Control]
    BY <2>1 DEF Init
  <2>3. alarm \in [Counters -> 0..None] /\ window \in [Counters -> 0..1]
    BY <1>1 DEF Init
  <2>4. /\ stopped \in [Counters -> BOOLEAN] /\ chainRun \in [Counters -> BOOLEAN]
        /\ asleep \in [Counters -> BOOLEAN] /\ irq \in [Counters -> BOOLEAN]
    BY DEF Init
  <2> QED
    BY <1>1, <2>2, <2>3, <2>4 DEF Init, TypeOK
<1>3. \A c \in Counters : Sound(Counter(c), asleep[c], window[c])
  BY <1>1, <1>2 DEF Init, TypeOK, Counter, Sound, K, Enabled, Set
<1> QED
  BY <1>2, <1>3, ZeroIsCounter DEF IInv, FirstUnchained, Init

LEMMA NextSound == IInv /\ [Next]_vars => IInv'
<1> SUFFICES ASSUME IInv, [Next]_vars PROVE IInv'
  OBVIOUS
<1>1. ASSUME NEW c \in Counters, CtrlWrite(c) PROVE IInv'
  BY <1>1, CtrlWriteSound
<1>2. ASSUME NEW c \in Counters, ValueWrite(c) PROVE IInv'
  BY <1>2, ValueWriteSound
<1>3. CASE ScalerWrite
  BY <1>3, ScalerWriteSound
<1>4. CASE Reset
  BY <1>4, ResetSound
<1>5. ASSUME NEW c \in Counters, Underflow(c) PROVE IInv'
  BY <1>5, UnderflowSound
<1>6. ASSUME NEW c \in Counters, BackToSleep(c) PROVE IInv'
  BY <1>6, BackToSleepSound
<1>7. CASE Clock
  BY <1>7, ClockSound
<1>8. CASE UNCHANGED vars
  BY <1>8 DEF vars, IInv, TypeOK, Sound, Counter, Enabled, Set, FirstUnchained
<1> QED
  BY <1>1, <1>2, <1>3, <1>4, <1>5, <1>6, <1>7, <1>8 DEF Next, Software, Threads

\* The state of every counter stays in type, for any number of counters and any
\* length of the sleeps (ticking(), gpcounter.cpp:118-176).
THEOREM TimerTypes == Spec => []TypeOK
<1>1. IInv => TypeOK
  BY DEF IInv
<1> QED
  BY <1>1, InitSound, NextSound, PTL DEF Spec

\* A counter that runs has an alarm whenever its thread sleeps: after whatever
\* writes, chaining, resets and underflows (gpcounter.cpp:118-176, 232-292).
THEOREM RunningIsArmed == Spec => []Armed
<1>1. IInv => Armed
  BY DEF IInv, Sound, Set, Counter, Armed
<1> QED
  BY <1>1, InitSound, NextSound, PTL DEF Spec

\* No notification of e_wait comes while the thread is not in wait(e_wait)
\* (gpcounter.cpp:125).
THEOREM AlarmsAreHeard == Spec => []NoAlarmLost
<1>1. IInv => NoAlarmLost
  BY AlarmAfterWindow DEF IInv, TypeOK, NoAlarmLost
<1> QED
  BY <1>1, InitSound, NextSound, PTL DEF Spec

\* A step that stores f starts no counter in chain mode that f leaves alone.
LEMMA NotStarted ==
    ASSUME TypeOK, NEW f \in [Counters -> K], Store(f), NEW c \in Counters,
           stopped[c] => f[c].stopped \/ ~f[c].ctrl.ch
    PROVE  ~(stopped[c] /\ ~stopped'[c] /\ ctrl'[c].ch)
BY StoredCounters

\* The step of StartedByPredecessor, for one counter.
Chains(c) ==
    stopped[c] /\ ~stopped'[c] /\ ctrl'[c].ch =>
        \E p \in Counters : p + 1 = c /\ ~asleep[p] /\ asleep'[p]

LEMMA StartsInTurn == IInv /\ [Next]_vars => \A c \in Counters : Chains(c)
<1> SUFFICES ASSUME IInv, [Next]_vars, NEW c \in Counters PROVE Chains(c)
  OBVIOUS
<1> USE NowEnabled
<1>1. ASSUME NEW d \in Counters, CtrlWrite(d) PROVE Chains(c)
  <2>1. PICK value \in Control, ld \in BOOLEAN, delay \in Delays(d) :
          Store([Now EXCEPT ![d] = Controlled([@ EXCEPT !.ctrl = value], ld, delay)])
    BY <1>1 DEF CtrlWrite
  <2> DEFINE k == [Now[d] EXCEPT !.ctrl = value]
             l == Controlled(k, ld, delay)
             f == [Now EXCEPT ![d] = l]
  <2>2. k \in K /\ k.ctrl = value
    BY DEF K
  <2>3. l \in K /\ (l.ctrl.ch => l.stopped)
    BY <2>2, DelaysLate, ControlledSound DEF Keeps
  <2>4. Store(f)
    BY <2>1 DEF k, l
  <2> HIDE DEF k, l
  <2>5. f \in [Counters -> K] /\ (stopped[c] => f[c].stopped \/ ~f[c].ctrl.ch)
    BY <2>3, NowCounters
  <2> HIDE DEF f
  <2> QED
    BY <2>4, <2>5, NotStarted DEF Chains
<1>2. ASSUME NEW d \in Counters, ValueWrite(d) PROVE Chains(c)
  <2>1. PICK delay \in Delays(d) : Store([Now EXCEPT ![d] = Loaded(@, TRUE, delay)])
    BY <1>2 DEF ValueWrite
  <2> DEFINE l == Loaded(Now[d], TRUE, delay)
             f == [Now EXCEPT ![d] = l]
  <2>2. l \in K /\ l.stopped = Now[d].stopped
    BY DelaysLate, LoadedKeeps
  <2>3. Store(f)
    BY <2>1
  <2> HIDE DEF l
  <2>4. f \in [Counters -> K] /\ (stopped[c] => f[c].stopped)
    BY <2>2, NowCounters
  <2> HIDE DEF f
  <2> QED
    BY <2>3, <2>4, NotStarted DEF Chains
<1>3. CASE ScalerWrite
  <2>1. PICK e \in DelaysOfAll : Store([d \in Counters |-> Calculated(Now[d], e[d])])
    BY <1>3 DEF ScalerWrite
  <2> DEFINE f == [d \in Counters |-> Calculated(Now[d], e[d])]
  <2>2. \A d \in Counters : e[d] \in 3..MaxDelay
    BY DEF DelaysOfAll
  <2>3. \A d \in Counters : f[d] \in K /\ f[d].stopped = stopped[d]
    BY <2>2, CalculatedLate, NowCounters
  <2>4. Store(f) /\ f \in [Counters -> K]
    BY <2>1, <2>3
  <2> HIDE DEF f
  <2> QED
    BY <2>3, <2>4, NotStarted DEF Chains
<1>4. CASE Reset
  <2>1. PICK e \in DelaysOfAll : Store([d \in Counters |-> ResetOf(d, e[d])])
    BY <1>4 DEF Reset
  <2> DEFINE f == [d \in Counters |-> ResetOf(d, e[d])]
  <2>2. \A d \in Counters : e[d] \in 3..MaxDelay
    BY DEF DelaysOfAll
  <2>3. \A d \in Counters : f[d] \in K /\ ~f[d].ctrl.ch
    BY <2>2, ResetOfSound DEF Keeps
  <2>4. Store(f) /\ f \in [Counters -> K]
    BY <2>1, <2>3
  <2> HIDE DEF f
  <2> QED
    BY <2>3, <2>4, NotStarted DEF Chains
<1>5. ASSUME NEW d \in Counters, Underflow(d) PROVE Chains(c)
  BY <1>5 DEF Underflow, Chains
<1>6. ASSUME NEW p \in Counters, BackToSleep(p) PROVE Chains(c)
  <2>1. PICK f \in [Counters -> K] :
          /\ Store(f)
          /\ stopped[p] => f[p].stopped
          /\ \A d \in Counters \ {p} :
                /\ f[d].ctrl = ctrl[d]
                /\ ~(ctrl[d].ch /\ d = p + 1) => f[d].stopped = stopped[d]
    BY <1>6, TurnSound DEF BackToSleep
  <2>2. CASE c = p + 1
    <3>1. ~asleep[p] /\ asleep'[p]
      BY <1>6 DEF BackToSleep, IInv, TypeOK
    <3> QED
      BY <2>2, <3>1 DEF Chains
  <2>3. CASE c # p + 1
    <3>1. stopped[c] => f[c].stopped
      BY <2>1, <2>3
    <3> QED
      BY <2>1, <3>1, NotStarted DEF Chains
  <2> QED
    BY <2>2, <2>3
<1>7. CASE Clock
  BY <1>7 DEF Clock, Chains
<1>8. CASE UNCHANGED vars
  BY <1>8 DEF vars, Chains
<1> QED
  BY <1>1, <1>2, <1>3, <1>4, <1>5, <1>6, <1>7, <1>8 DEF Next, Software, Threads

\* A counter in chain mode is started by its predecessor's underflow only, however
\* its registers were written before (gpcounter.cpp:56-59, 112-116, 268-278).
THEOREM ChainsInTurn == Spec => StartedByPredecessor
<1>1. IInv /\ [Next]_vars =>
        [\A c \in Counters :
            stopped[c] /\ ~stopped'[c] /\ ctrl'[c].ch =>
                \E p \in Counters : p + 1 = c /\ ~asleep[p] /\ asleep'[p]]_vars
  BY StartsInTurn DEF Chains
<1> QED
  BY <1>1, InitSound, NextSound, PTL DEF Spec, StartedByPredecessor
=============================================================================
