---------------------------- MODULE AhbBusProofs ----------------------------
(***************************************************************************)
(* Proofs about the approximately timed AHB, for any number of masters,    *)
(* lines and values, any length of a line, any wait states and both ways   *)
(* to arbitrate: the phases of overlapping transfers come in the right     *)
(* order, so that the caches are coherent, a frame can be read when its    *)
(* interrupt comes, and transfers take effect and end as granted.          *)
(***************************************************************************)
EXTENDS AhbBus, FiniteSetTheorems, SequenceTheorems, WellFoundedInduction, TLAPS

-----------------------------------------------------------------------------
(* The course of a transfer                                                *)

At(e, k) == [event |-> e, clocks |-> k]

Clocks == 1..(LineWords + WaitStates)

\* END_REQ, and BEGIN_RESP up to END_RESP
AddressThreads == {"slaveRequest", "request", "endRequest"}
AnswerThreads == {"slaveResponse", "response", "masterResponse"}

\* of the events of t for these threads there is one: for n in this delta cycle, for
\* s in the next, or for l in k clocks, where the others are "none"; or there is none
Sole(ths, t, n, s, l, k) ==
    \A th \in ths :
        /\ Event(th, t) \in now <=> th = n
        /\ Event(th, t) \in soon <=> th = s
        /\ \A j \in Clocks : At(Event(th, t), j) \in later <=> th = l /\ j = k

\* the threads that come first: the plug and play area has no slave
Opening(t) == IF t.line = Pnp THEN "request" ELSE "slaveRequest"
Answering(t) == IF t.line = Pnp THEN "response" ELSE "slaveResponse"

Past(t) == Sole(AddressThreads, t, "none", "none", "none", 0)

\* END_REQ in k clocks
AddressAt(t, k) ==
    \/ k > 0 /\ Sole(AddressThreads, t, "none", "none", Opening(t), k)
    \/ /\ k = 0
       /\ \/ t.line # Pnp /\ Sole(AddressThreads, t, "slaveRequest", "none", "none", 0)
          \/ t.line # Pnp /\ Sole(AddressThreads, t, "none", "request", "none", 0)
          \/ Sole(AddressThreads, t, "request", "none", "none", 0)
          \/ Sole(AddressThreads, t, "none", "endRequest", "none", 0)
          \/ Sole(AddressThreads, t, "endRequest", "none", "none", 0)
          \/ Past(t)

\* END_RESP in k clocks
AnswerAt(t, k) ==
    \/ k > t.words /\ Sole(AnswerThreads, t, "none", "none", Answering(t), k - t.words)
    \/ /\ k = t.words
       /\ \/ t.line # Pnp /\ Sole(AnswerThreads, t, "slaveResponse", "none", "none", 0)
          \/ t.line # Pnp /\ Sole(AnswerThreads, t, "none", "response", "none", 0)
          \/ Sole(AnswerThreads, t, "response", "none", "none", 0)
    \/ k \in 1..t.words /\ Sole(AnswerThreads, t, "none", "none", "masterResponse", k)

\* both threads of a slave wake in one delta cycle if they wake at one clock edge
Abreast(t) ==
    /\ Event("slaveResponse", t) \in now \/ Event("response", t) \in soon =>
           Event("slaveRequest", t) \in now \/ Event("request", t) \in soon
    /\ Event("response", t) \in now =>
           Event("request", t) \in now \/ Event("endRequest", t) \in soon

Ending(t) == Past(t) /\ Sole(AnswerThreads, t, "masterResponse", "none", "none", 0)

\* END_RESP comes one clock after END_REQ
Running(t) ==
    \E k \in Clocks \cup {0} :
        AddressAt(t, k) /\ AnswerAt(t, k + 1) /\ (k = 0 => Abreast(t))

Course(t) == Running(t) \/ Ending(t)

Quiet(t) == Past(t) /\ Sole(AnswerThreads, t, "none", "none", "none", 0)

Flying == {flight[i] : i \in DOMAIN flight}

Courses == \A t \in Trans : IF t \in Flying THEN Course(t) ELSE Quiet(t)

\* no other delta cycle has come since the grant
Fresh(t) ==
    /\ Event("endRequest", t) \notin now
    /\ ~Past(t)
    /\ t.line # Pnp => Event("request", t) \notin now /\ Event("endRequest", t) \notin soon

\* two transfers overlap only in the delta cycle the first one ends in
Overlap ==
    Len(flight) = 2 =>
        /\ flight[1] # flight[2]
        /\ Ending(flight[1]) /\ Fresh(flight[2])

\* the address bus has an owner until RequestThread has run
Owned ==
    owner = None => \A t \in Flying :
        Past(t) \/ Event("endRequest", t) \in now \cup soon

-----------------------------------------------------------------------------
(* The masters                                                             *)

\* what a master has on its way to END_REQ
Open(m) == IF m = In THEN frame.state = "writing"
           ELSE active[m] # NoTrans /\ phase[m] = "request"
Current(m) == IF m = In THEN FrameTrans(frame) ELSE active[m]

Carried(m) == \E t \in Flying : t.master = m /\ ~Past(t)

Asks ==
    \A t \in Trans : Event("accept", t) \in now \cup soon =>
        /\ Open(t.master) /\ t = Current(t.master)
        /\ request[t.master] = NoTrans /\ ~Carried(t.master)
        /\ ~(Event("accept", t) \in now /\ Event("accept", t) \in soon)

Requests ==
    \A m \in Masters : request[m] # NoTrans =>
        /\ Open(m) /\ request[m] = Current(m) /\ Decoded(request[m]) /\ ~Carried(m)

\* the last word of the AHBIn, while the next one may be on its way
LastWord(t) ==
    \/ frame.state = "writing" /\ frame.word > 1 /\ t.line = FrameLines[frame.word - 1]
    \/ frame.state = "pulse"
    \/ Event("masterResponse", t) \in now

Flights ==
    \A t \in Flying :
        /\ t \in Trans /\ Decoded(t)
        /\ ~Past(t) => Open(t.master) /\ t = Current(t.master)
        /\ Past(t) /\ t.master \in CPUs => phase[t.master] = "response" /\ t = active[t.master]
        /\ Past(t) /\ t.master = In => LastWord(t)

Accesses ==
    \A t \in Trans : Event("access", t) \in now \cup soon =>
        /\ t.master \in CPUs /\ active[t.master] = NoTrans /\ fifo[t.master] = <<t>>
        /\ ~(Event("access", t) \in now /\ Event("access", t) \in soon)

Delayed == {"slaveRequest", "request"} \cup AnswerThreads

Places ==
    /\ now \cup soon \subseteq {Event(th, t) : th \in Threads, t \in Trans}
    /\ later \subseteq {At(Event(th, t), k) : th \in Delayed, t \in Trans, k \in Clocks}

HasValue(t) == t.cmd = "write" => t.val \in Values

Kinds ==
    /\ TypeOK /\ Places
    /\ fifo \in [CPUs -> Seq(Trans)] /\ flight \in Seq(Trans)
    /\ \A c \in CPUs : \A i \in DOMAIN fifo[c] : fifo[c][i].master = c /\ HasValue(fifo[c][i])
    /\ \A c \in CPUs : active[c] # NoTrans => active[c].master = c /\ HasValue(active[c])
    /\ frame.state = "writing" => frame.val \in Values

IInv == Kinds /\ Courses /\ Overlap /\ Owned /\ Asks /\ Requests /\ Flights /\ Accesses

-----------------------------------------------------------------------------
(* Events and their places                                                 *)

\* An event is its thread and its transfer, and nothing else.
LEMMA EventEq == \A a, b, t, u : Event(a, t) = Event(b, u) <=> a = b /\ t = u
BY DEF Event

\* An event has its thread and its transfer.
LEMMA EventFields == \A a, t : Event(a, t).thread = a /\ Event(a, t).trans = t
BY DEF Event

\* A delayed event is its event and its clocks, and nothing else.
LEMMA AtEq == \A e, f, j, k : At(e, j) = At(f, k) <=> e = f /\ j = k
BY DEF At

\* A delayed event has its event and its clocks.
LEMMA AtFields == \A e, k : At(e, k).event = e /\ At(e, k).clocks = k
BY DEF At

\* the step leaves the events of t for these threads where they are
Same(ths, t) ==
    \A th \in ths :
        /\ Event(th, t) \in now' <=> Event(th, t) \in now
        /\ Event(th, t) \in soon' <=> Event(th, t) \in soon
        /\ \A j \in Clocks : At(Event(th, t), j) \in later' <=> At(Event(th, t), j) \in later

\* A transfer whose events stay where they are stays where it is.
LEMMA SoleSame ==
    ASSUME NEW ths, NEW t, Same(ths, t)
    PROVE  \A n, s, l, k : Sole(ths, t, n, s, l, k)' <=> Sole(ths, t, n, s, l, k)
BY DEF Same, Sole

\* So does its address phase.
LEMMA AddressSame ==
    ASSUME NEW t, Same(AddressThreads, t)
    PROVE  /\ Past(t)' <=> Past(t)
           /\ \A k : AddressAt(t, k)' <=> AddressAt(t, k)
BY SoleSame DEF Past, AddressAt

\* So does its data phase.
LEMMA AnswerSame ==
    ASSUME NEW t, Same(AnswerThreads, t)
    PROVE  /\ \A k : AnswerAt(t, k)' <=> AnswerAt(t, k)
           /\ Sole(AnswerThreads, t, "none", "none", "none", 0)' <=>
              Sole(AnswerThreads, t, "none", "none", "none", 0)
           /\ Sole(AnswerThreads, t, "masterResponse", "none", "none", 0)' <=>
              Sole(AnswerThreads, t, "masterResponse", "none", "none", 0)
BY SoleSame DEF AnswerAt

LEMMA AbreastSame ==
    ASSUME NEW t, Same(AddressThreads, t), Same(AnswerThreads, t)
    PROVE  Abreast(t)' <=> Abreast(t)
BY DEF Same, Abreast, AddressThreads, AnswerThreads

\* And so does its whole course.
LEMMA CourseSame ==
    ASSUME NEW t, Same(AddressThreads, t), Same(AnswerThreads, t)
    PROVE  /\ Course(t)' <=> Course(t)
           /\ Quiet(t)' <=> Quiet(t)
           /\ Ending(t)' <=> Ending(t)
           /\ Fresh(t)' <=> Fresh(t)
<1>1. Running(t)' <=> Running(t)
  BY AddressSame, AnswerSame, AbreastSame DEF Running
<1>2. Ending(t)' <=> Ending(t)
  BY AddressSame, AnswerSame DEF Ending
<1>3. Quiet(t)' <=> Quiet(t)
  BY AddressSame, AnswerSame DEF Quiet
<1>4. Fresh(t)' <=> Fresh(t)
  BY AddressSame DEF Fresh, Same, AddressThreads
<1> QED BY <1>1, <1>2, <1>3, <1>4 DEF Course

\* A thread that wakes another one for the same transfer moves that transfer only.
LEMMA MoveOn ==
    ASSUME NEW th, NEW next, NEW t, th # next, th # "none", next # "none",
           now' = now \ {Event(th, t)}, soon' = soon \cup {Event(next, t)}, later' = later
    PROVE  /\ \A u, ths : u # t => Same(ths, u)
           /\ \A ths : th \notin ths /\ next \notin ths => Same(ths, t)
           /\ \A ths : "none" \notin ths /\ Sole(ths, t, th, "none", "none", 0) =>
                          Sole(ths, t, "none", next, "none", 0)'
<1>1. \A u, ths : u # t => Same(ths, u)
  BY EventEq DEF Same
<1>2. \A ths : th \notin ths /\ next \notin ths => Same(ths, t)
  BY EventEq DEF Same
<1>3. ASSUME NEW ths, "none" \notin ths, Sole(ths, t, th, "none", "none", 0)
      PROVE  Sole(ths, t, "none", next, "none", 0)'
  BY <1>3, EventEq DEF Sole
<1> QED BY <1>1, <1>2, <1>3

\* The requestThread of a slave runs in the address phase of its transfer.
LEMMA SlaveRequestMoves ==
    ASSUME Courses, NEW t \in Trans, Event("slaveRequest", t) \in now,
           now' = now \ {Event("slaveRequest", t)}, SlaveRequestThread(t)
    PROVE  /\ t \in Flying /\ t.line # Pnp
           /\ Course(t)' /\ ~Past(t) /\ ~Past(t)'
           /\ \A u : u # t => Same(AddressThreads, u) /\ Same(AnswerThreads, u)
           /\ Same(AnswerThreads, t)
           /\ Sole(AddressThreads, t, "none", "request", "none", 0)'
<1>1. soon' = soon \cup {Event("request", t)} /\ later' = later
  BY DEF SlaveRequestThread, Notify
<1> DEFINE S(n, s) == Sole(AddressThreads, t, n, s, "none", 0)
<1>2. /\ \A u : u # t => Same(AddressThreads, u) /\ Same(AnswerThreads, u)
      /\ Same(AnswerThreads, t)
  BY <1>1, MoveOn DEF AnswerThreads
<1>3. ~Past(t) /\ ~Ending(t) /\ ~Quiet(t)
  BY DEF Past, Ending, Quiet, Sole, AddressThreads
<1>4. t \in Flying /\ Running(t)
  BY <1>3 DEF Courses, Course
<1>5. PICK k \in Clocks \cup {0} : AddressAt(t, k) /\ AnswerAt(t, k + 1) /\ (k = 0 => Abreast(t))
  BY <1>4 DEF Running
<1>6. k = 0 /\ t.line # Pnp /\ S("slaveRequest", "none")
  BY <1>3, <1>5 DEF AddressAt, Sole, AddressThreads
<1>7. Sole(AddressThreads, t, "none", "request", "none", 0)'
  BY <1>1, <1>6, MoveOn DEF AddressThreads
<1>8. AddressAt(t, 0)' /\ ~Past(t)'
  BY <1>6, <1>7 DEF AddressAt, Sole, Past, AddressThreads
<1>9. AnswerAt(t, 1)'
  BY <1>2, <1>5, <1>6, AnswerSame
<1>10. Abreast(t)'
  BY <1>1, <1>2, <1>5, <1>6 DEF Abreast, Sole, AddressThreads, AnswerThreads, Same
<1> QED BY <1>2, <1>3, <1>4, <1>6, <1>7, <1>8, <1>9, <1>10 DEF Running, Course

\* The responseThread of a slave runs in the data phase of its transfer.
LEMMA SlaveResponseMoves ==
    ASSUME Courses, NEW t \in Trans, Event("slaveResponse", t) \in now,
           now' = now \ {Event("slaveResponse", t)}, SlaveResponseThread(t)
    PROVE  /\ t \in Flying /\ Course(t)'
           /\ \A u : u # t => Same(AddressThreads, u) /\ Same(AnswerThreads, u)
           /\ Same(AddressThreads, t) /\ ~Ending(t)
<1>1. soon' = soon \cup {Event("response", t)} /\ later' = later
  BY DEF SlaveResponseThread, Notify
<1> DEFINE S(n, s) == Sole(AnswerThreads, t, n, s, "none", 0)
<1>2. /\ \A u : u # t => Same(AddressThreads, u) /\ Same(AnswerThreads, u)
      /\ Same(AddressThreads, t)
  BY <1>1, MoveOn DEF AddressThreads
<1>3. ~Ending(t) /\ ~Quiet(t)
  BY DEF Ending, Quiet, Sole, AnswerThreads
<1>4. t \in Flying /\ Running(t)
  BY <1>3 DEF Courses, Course
<1>5. PICK k \in Clocks \cup {0} : AddressAt(t, k) /\ AnswerAt(t, k + 1) /\ (k = 0 => Abreast(t))
  BY <1>4 DEF Running
<1>6. k + 1 = t.words /\ t.line # Pnp /\ S("slaveResponse", "none")
  BY <1>5 DEF AnswerAt, Sole, AnswerThreads
<1>7. Sole(AnswerThreads, t, "none", "response", "none", 0)'
  BY <1>1, <1>6, MoveOn DEF AnswerThreads
<1>8. AddressAt(t, k)'
  BY <1>2, <1>5, AddressSame
<1>9. AnswerAt(t, k + 1)'
  BY <1>6, <1>7 DEF AnswerAt
<1>10. Abreast(t) => Abreast(t)'
  BY <1>1, <1>2, <1>6, <1>7 DEF Abreast, Sole, AddressThreads, AnswerThreads, Same
<1> QED BY <1>2, <1>3, <1>4, <1>5, <1>8, <1>9, <1>10 DEF Running, Course

\* The ResponseThread of the bus runs in the data phase, and leaves the clocks of it.
LEMMA ResponseMoves ==
    ASSUME Courses, NEW t \in Trans, Event("response", t) \in now,
           now' = now \ {Event("response", t)}, ResponseThread(t)
    PROVE  /\ t \in Flying /\ Course(t)'
           /\ \A u : u # t => Same(AddressThreads, u) /\ Same(AnswerThreads, u)
           /\ Same(AddressThreads, t) /\ ~Ending(t)
<1>1. soon' = soon /\ later' = later \cup {At(Event("masterResponse", t), t.words)}
  BY DEF ResponseThread, At
<1>2. /\ \A u : u # t => Same(AddressThreads, u) /\ Same(AnswerThreads, u)
      /\ Same(AddressThreads, t)
  BY <1>1, EventEq, AtEq DEF Same, AddressThreads
<1>3. ~Ending(t) /\ ~Quiet(t)
  BY DEF Ending, Quiet, Sole, AnswerThreads
<1>4. t \in Flying /\ Running(t)
  BY <1>3 DEF Courses, Course
<1>5. PICK k \in Clocks \cup {0} : AddressAt(t, k) /\ AnswerAt(t, k + 1) /\ (k = 0 => Abreast(t))
  BY <1>4 DEF Running
<1>6. k + 1 = t.words /\ Sole(AnswerThreads, t, "response", "none", "none", 0)
  BY <1>5 DEF AnswerAt, Sole, AnswerThreads
<1>7. Sole(AnswerThreads, t, "none", "none", "masterResponse", t.words)'
  BY <1>1, <1>6, EventEq, AtEq DEF Sole, AnswerThreads
<1>8. AddressAt(t, k)'
  BY <1>2, <1>5, AddressSame
<1>9. t.words \in Nat \ {0}
  BY AhbBusAssumption DEF Trans
<1>10. AnswerAt(t, k + 1)'
  BY <1>6, <1>7, <1>9 DEF AnswerAt
<1>11. Abreast(t)'
  BY <1>7 DEF Abreast, Sole, AnswerThreads
<1> QED BY <1>2, <1>3, <1>4, <1>5, <1>8, <1>10, <1>11 DEF Running, Course

\* The RequestThread of the bus runs at the end of the address phase.
LEMMA RequestMoves ==
    ASSUME Courses, NEW t \in Trans, Event("request", t) \in now,
           now' = now \ {Event("request", t)}, RequestThread(t)
    PROVE  /\ t \in Flying
           /\ Course(t)' /\ ~Past(t) /\ ~Past(t)'
           /\ \A u : u # t => Same(AddressThreads, u) /\ Same(AnswerThreads, u)
           /\ Same(AnswerThreads, t)
           /\ Sole(AddressThreads, t, "none", "endRequest", "none", 0)'
<1>1. soon' = soon \cup {Event("endRequest", t)} /\ later' = later
  BY DEF RequestThread, Notify
<1> DEFINE S(n, s) == Sole(AddressThreads, t, n, s, "none", 0)
<1>2. /\ \A u : u # t => Same(AddressThreads, u) /\ Same(AnswerThreads, u)
      /\ Same(AnswerThreads, t)
  BY <1>1, MoveOn DEF AnswerThreads
<1>3. ~Past(t) /\ ~Ending(t) /\ ~Quiet(t)
  BY DEF Past, Ending, Quiet, Sole, AddressThreads
<1>4. t \in Flying /\ Running(t)
  BY <1>3 DEF Courses, Course
<1>5. PICK k \in Clocks \cup {0} : AddressAt(t, k) /\ AnswerAt(t, k + 1) /\ (k = 0 => Abreast(t))
  BY <1>4 DEF Running
<1>6. k = 0 /\ S("request", "none")
  BY <1>3, <1>5 DEF AddressAt, Sole, AddressThreads
<1>7. Sole(AddressThreads, t, "none", "endRequest", "none", 0)'
  BY <1>1, <1>6, MoveOn DEF AddressThreads
<1>8. AddressAt(t, 0)' /\ ~Past(t)'
  BY <1>6, <1>7 DEF AddressAt, Sole, Past, AddressThreads
<1>9. AnswerAt(t, 1)'
  BY <1>2, <1>5, <1>6, AnswerSame
<1>10. Abreast(t)'
  BY <1>1, <1>2, <1>5, <1>6, <1>7 DEF Abreast, Sole, AddressThreads, AnswerThreads, Same
<1> QED BY <1>2, <1>3, <1>4, <1>6, <1>7, <1>8, <1>9, <1>10 DEF Running, Course

\* ahbaccess returns when the address phase is over, a clock before the data phase.
LEMMA EndRequestMoves ==
    ASSUME Courses, NEW t \in Trans, Event("endRequest", t) \in now,
           now' = now \ {Event("endRequest", t)},
           soon \subseteq soon', \A e \in soon' \ soon : \E u : e = Event("accept", u),
           later' = later
    PROVE  /\ t \in Flying
           /\ Course(t)' /\ ~Past(t) /\ Past(t)'
           /\ \A u : u # t => Same(AddressThreads, u) /\ Same(AnswerThreads, u)
           /\ Same(AnswerThreads, t)
<1>2. /\ \A u : u # t => Same(AddressThreads, u) /\ Same(AnswerThreads, u)
      /\ Same(AnswerThreads, t)
  BY EventEq DEF Same, AnswerThreads, AddressThreads
<1>3. ~Past(t) /\ ~Ending(t) /\ ~Quiet(t)
  BY DEF Past, Ending, Quiet, Sole, AddressThreads
<1>4. t \in Flying /\ Running(t)
  BY <1>3 DEF Courses, Course
<1>5. PICK k \in Clocks \cup {0} : AddressAt(t, k) /\ AnswerAt(t, k + 1) /\ (k = 0 => Abreast(t))
  BY <1>4 DEF Running
<1>6. k = 0 /\ Sole(AddressThreads, t, "endRequest", "none", "none", 0)
  BY <1>3, <1>5 DEF AddressAt, Sole, AddressThreads
<1>7. Past(t)'
  BY <1>6, EventEq DEF Past, Sole, AddressThreads
<1>8. AddressAt(t, 0)'
  BY <1>7 DEF AddressAt
<1>9. AnswerAt(t, 1)'
  BY <1>2, <1>5, <1>6, AnswerSame
<1>10. Abreast(t)'
  BY <1>2, <1>5, <1>6 DEF Abreast, Sole, AddressThreads, AnswerThreads, Same
<1> QED BY <1>2, <1>3, <1>4, <1>6, <1>7, <1>8, <1>9, <1>10 DEF Running, Course

\* END_RESP comes when the address phase is over.
LEMMA MasterResponseMoves ==
    ASSUME Courses, NEW t \in Trans, Event("masterResponse", t) \in now,
           now' = now \ {Event("masterResponse", t)},
           soon \subseteq soon',
           \A e \in soon' \ soon : \E u : e \in {Event("accept", u), Event("endResponse", u)},
           later' = later
    PROVE  /\ t \in Flying /\ Ending(t) /\ Quiet(t)' /\ Past(t)'
           /\ \A u : u # t => Same(AddressThreads, u) /\ Same(AnswerThreads, u)
           /\ Same(AddressThreads, t)
<1>2. /\ \A u : u # t => Same(AddressThreads, u) /\ Same(AnswerThreads, u)
      /\ Same(AddressThreads, t)
  BY EventEq DEF Same, AnswerThreads, AddressThreads
<1>3. ~Quiet(t) /\ ~Running(t)
  BY DEF Quiet, Running, AnswerAt, Sole, AnswerThreads
<1>4. t \in Flying /\ Ending(t)
  BY <1>3 DEF Courses, Course
<1>5. Past(t)'
  BY <1>2, <1>4, AddressSame DEF Ending
<1>6. Sole(AnswerThreads, t, "none", "none", "none", 0)'
  BY <1>4, EventEq DEF Ending, Sole, AnswerThreads
<1> QED BY <1>2, <1>4, <1>5, <1>6 DEF Quiet

\* A delta cycle brings what was due in the next one, for every transfer.
LEMMA DeltaMoves ==
    ASSUME NEW t \in Trans, now = {}, now' = soon, soon' = {}, later' = later
    PROVE  /\ Past(t)' <=> Past(t)
           /\ Running(t) => Running(t)'
           /\ Quiet(t) => Quiet(t)'
           /\ ~Ending(t)
<1> DEFINE D(ths, s, l, k) == Sole(ths, t, s, "none", l, k)
<1>1. ASSUME NEW ths, "none" \notin ths, NEW s, NEW l, NEW k, Sole(ths, t, "none", s, l, k)
      PROVE  Sole(ths, t, s, "none", l, k)'
  BY <1>1 DEF Sole
<1>2. "none" \notin AddressThreads /\ "none" \notin AnswerThreads
  BY DEF AddressThreads, AnswerThreads
<1>3. Past(t)' <=> Past(t)
  BY DEF Past, Sole, AddressThreads
<1>4. Quiet(t) => Quiet(t)'
  BY <1>1, <1>2, <1>3 DEF Quiet
<1>5. ASSUME NEW n, NEW s, NEW l, NEW k, NEW ths, n \in ths
      PROVE  ~Sole(ths, t, n, s, l, k)
  BY <1>5 DEF Sole
<1>6. ASSUME NEW k, AddressAt(t, k) PROVE AddressAt(t, k)'
  <2>1. CASE k > 0
    BY <1>1, <1>2, <1>6, <2>1 DEF AddressAt
  <2>2. ASSUME ~(k > 0) PROVE AddressAt(t, k)'
    <3>1. \/ t.line # Pnp /\ Sole(AddressThreads, t, "none", "request", "none", 0)
          \/ Sole(AddressThreads, t, "none", "endRequest", "none", 0)
          \/ Past(t)
      BY <1>5, <1>6, <2>2 DEF AddressAt, AddressThreads
    <3> QED BY <1>1, <1>2, <1>3, <1>6, <2>2, <3>1 DEF AddressAt
  <2> QED BY <2>1, <2>2
<1>7. ASSUME NEW k, AnswerAt(t, k) PROVE AnswerAt(t, k)'
  <2>1. \/ k > t.words /\ Sole(AnswerThreads, t, "none", "none", Answering(t), k - t.words)
        \/ k = t.words /\ t.line # Pnp /\ Sole(AnswerThreads, t, "none", "response", "none", 0)
        \/ k \in 1..t.words /\ Sole(AnswerThreads, t, "none", "none", "masterResponse", k)
    BY <1>5, <1>7 DEF AnswerAt, AnswerThreads
  <2> QED BY <1>1, <1>2, <2>1 DEF AnswerAt
<1>8. ASSUME NEW k, AnswerAt(t, k), Abreast(t) PROVE Abreast(t)'
  <2>1. Event("slaveResponse", t) \notin soon
    BY <1>8 DEF AnswerAt, Sole, AnswerThreads
  <2> QED BY <1>8, <2>1 DEF Abreast
<1>9. ~Ending(t)
  BY <1>5 DEF Ending, AnswerThreads
<1> QED BY <1>3, <1>4, <1>6, <1>7, <1>8, <1>9 DEF Running

\* A clock brings what was due in one clock, and brings the rest nearer.
LEMMA AdvanceMoves ==
    ASSUME NEW pending, NEW es, pending \subseteq {At(e, k) : e \in es, k \in Clocks},
           Advance(pending)
    PROVE  \A e : /\ e \in now' <=> At(e, 1) \in pending
                  /\ \A k \in Nat \ {0} : At(e, k) \in later' <=> At(e, k + 1) \in pending
<1>1. \A x \in pending : \E e, k : x = At(e, k) /\ k \in Clocks
  OBVIOUS
<1>2. ASSUME NEW e PROVE e \in now' <=> At(e, 1) \in pending
  BY <1>1, AtFields DEF Advance
<1>3. \A f, k : [At(f, k) EXCEPT !.clocks = @ - 1] = At(f, k - 1)
  BY DEF At
<1>4. ASSUME NEW e, NEW k \in Nat \ {0}
      PROVE  At(e, k) \in later' <=> At(e, k + 1) \in pending
  <2> DEFINE rest == {x \in pending : x.clocks > 1}
  <2>0. later' = {[x EXCEPT !.clocks = @ - 1] : x \in rest}
    BY DEF Advance
  <2>1. ASSUME At(e, k) \in later' PROVE At(e, k + 1) \in pending
    <3>1. PICK x \in rest : At(e, k) = [x EXCEPT !.clocks = @ - 1]
      BY <2>0, <2>1
    <3>2. PICK f, j : x = At(f, j) /\ j \in Clocks
      BY <1>1, <3>1
    <3>3. e = f /\ k = j - 1
      BY <1>3, <3>1, <3>2, AtEq
    <3> QED BY <3>2, <3>3, AhbBusAssumption DEF Clocks
  <2>2. ASSUME At(e, k + 1) \in pending PROVE At(e, k) \in later'
    <3>1. At(e, k + 1) \in rest
      BY <2>2, AtFields
    <3>2. [At(e, k + 1) EXCEPT !.clocks = @ - 1] = At(e, (k + 1) - 1)
      BY <1>3
    <3>3. (k + 1) - 1 = k
      OBVIOUS
    <3> HIDE DEF rest
    <3> QED BY <2>0, <3>1, <3>2, <3>3
  <2> QED BY <2>1, <2>2
<1> QED BY <1>2, <1>4

\* A clock moves every transfer that it finds under way.
LEMMA ClockMoves ==
    ASSUME NEW t \in Trans, now = {}, soon = {}, soon' = {},
           NEW pending, NEW es, pending \subseteq {At(e, k) : e \in es, k \in Clocks},
           Advance(pending),
           \A th, j : At(Event(th, t), j) \in pending <=> At(Event(th, t), j) \in later
    PROVE  /\ Running(t) \/ Quiet(t) => (Past(t)' <=> Past(t))
           /\ Running(t) /\ ~Past(t) => Running(t)'
           /\ Running(t) /\ Past(t) => Ending(t)'
           /\ Quiet(t) => Quiet(t)'
           /\ ~Ending(t)
<1>1. \A e : /\ e \in now' <=> At(e, 1) \in pending
             /\ \A k \in Nat \ {0} : At(e, k) \in later' <=> At(e, k + 1) \in pending
  BY AdvanceMoves
<1>2. Clocks \subseteq Nat \ {0} /\ 1 \in Clocks
  BY AhbBusAssumption DEF Clocks
<1>3. ASSUME NEW e, NEW k, At(e, k) \in pending PROVE k \in Clocks
  BY <1>3, AtEq
<1>4. ASSUME NEW th PROVE /\ Event(th, t) \in now' <=> At(Event(th, t), 1) \in later
                          /\ Event(th, t) \notin soon'
                          /\ \A j \in Clocks : At(Event(th, t), j) \in later' <=>
                                                /\ j + 1 \in Clocks
                                                /\ At(Event(th, t), j + 1) \in later
  BY <1>1, <1>2, <1>3
<1>5. ASSUME NEW ths, Sole(ths, t, "none", "none", "none", 0), "none" \notin ths
      PROVE  Sole(ths, t, "none", "none", "none", 0)'
  BY <1>2, <1>4, <1>5 DEF Sole
<1>6. ASSUME NEW ths, NEW l \in ths, NEW k \in Clocks, Sole(ths, t, "none", "none", l, k),
             "none" \notin ths
      PROVE  /\ k = 1 => Sole(ths, t, l, "none", "none", 0)'
             /\ k > 1 => k - 1 \in Clocks /\ Sole(ths, t, "none", "none", l, k - 1)'
  <2>1. k \in Nat \ {0} /\ (k > 1 => k - 1 \in Clocks)
    BY <1>2, AhbBusAssumption DEF Clocks
  <2>2. ASSUME k = 1, NEW th \in ths
        PROVE  /\ Event(th, t) \in now' <=> th = l
               /\ Event(th, t) \in soon' <=> th = "none"
               /\ \A j \in Clocks : At(Event(th, t), j) \in later' <=> th = "none" /\ j = 0
    BY <1>2, <1>4, <1>6, <2>2 DEF Sole
  <2>3. ASSUME k > 1, NEW th \in ths
        PROVE  /\ Event(th, t) \in now' <=> th = "none"
               /\ Event(th, t) \in soon' <=> th = "none"
               /\ \A j \in Clocks : At(Event(th, t), j) \in later' <=> th = l /\ j = k - 1
    BY <1>2, <1>4, <1>6, <2>1, <2>3 DEF Sole
  <2> QED BY <2>1, <2>2, <2>3 DEF Sole
<1>7. "none" \notin AddressThreads /\ "none" \notin AnswerThreads
  BY DEF AddressThreads, AnswerThreads
<1>8. ~Ending(t)
  BY DEF Ending, Sole, AnswerThreads
<1>9. Past(t) => Past(t)'
  BY <1>5, <1>7 DEF Past
<1>10. Quiet(t) => Quiet(t)'
  BY <1>5, <1>7, <1>9 DEF Quiet
<1>11. ASSUME Running(t)
       PROVE  /\ Past(t)' => Past(t)
              /\ ~Past(t) => Running(t)'
              /\ Past(t) => Ending(t)'
  <2>1. PICK k \in Clocks \cup {0} : AddressAt(t, k) /\ AnswerAt(t, k + 1)
    BY <1>11 DEF Running
  <2>2. k \in Nat /\ t.words \in Nat \ {0} /\ t.words \in Clocks
    BY <1>2, AhbBusAssumption DEF Trans, Clocks
  <2>3. /\ ~Sole(AddressThreads, t, "slaveRequest", "none", "none", 0)
        /\ ~Sole(AddressThreads, t, "none", "request", "none", 0)
        /\ ~Sole(AddressThreads, t, "request", "none", "none", 0)
        /\ ~Sole(AddressThreads, t, "none", "endRequest", "none", 0)
        /\ ~Sole(AddressThreads, t, "endRequest", "none", "none", 0)
    BY DEF Sole, AddressThreads
  <2>4. /\ ~Sole(AnswerThreads, t, "slaveResponse", "none", "none", 0)
        /\ ~Sole(AnswerThreads, t, "none", "response", "none", 0)
        /\ ~Sole(AnswerThreads, t, "response", "none", "none", 0)
    BY DEF Sole, AnswerThreads
  <2>5. CASE k = 0
    <3>1. Past(t)
      BY <2>1, <2>3, <2>5 DEF AddressAt
    <3>2. Sole(AnswerThreads, t, "none", "none", "masterResponse", 1)
      BY <2>1, <2>2, <2>4, <2>5 DEF AnswerAt
    <3>3. "masterResponse" \in AnswerThreads
      BY DEF AnswerThreads
    <3>4. Sole(AnswerThreads, t, "masterResponse", "none", "none", 0)'
      BY <1>2, <1>6, <1>7, <3>2, <3>3
    <3> QED BY <1>9, <3>1, <3>4 DEF Ending
  <2>6. CASE k > 0
    <3>1. k \in Clocks /\ Sole(AddressThreads, t, "none", "none", Opening(t), k)
      BY <2>1, <2>2, <2>6 DEF AddressAt
    <3>2. Opening(t) \in AddressThreads /\ Answering(t) \in AnswerThreads
             /\ "masterResponse" \in AnswerThreads
      BY DEF Opening, Answering, AddressThreads, AnswerThreads
    <3>3. ~Past(t)
      BY <3>1, <3>2 DEF Past, Sole, Opening
    <3>4. /\ k = 1 => Sole(AddressThreads, t, Opening(t), "none", "none", 0)'
          /\ k > 1 => k - 1 \in Clocks /\ Sole(AddressThreads, t, "none", "none", Opening(t), k - 1)'
      BY <1>6, <1>7, <3>1, <3>2
    <3>5. AddressAt(t, k - 1)'
      <4>1. ASSUME k = 1 PROVE AddressAt(t, 0)'
        <5>1. CASE t.line = Pnp
          BY <3>4, <4>1, <5>1 DEF AddressAt, Opening
        <5>2. CASE t.line # Pnp
          BY <3>4, <4>1, <5>2 DEF AddressAt, Opening
        <5> QED BY <5>1, <5>2
      <4>2. CASE k > 1
        <5>1. k - 1 > 0
          BY <2>2, <4>2
        <5> QED BY <3>4, <4>2, <5>1 DEF AddressAt
      <4>3. k = 1 => k - 1 = 0
        OBVIOUS
      <4> QED BY <2>2, <2>6, <4>1, <4>2, <4>3
    <3>6. ~Past(t)'
      <4>1. CASE k = 1
        BY <3>2, <3>4, <4>1 DEF Past, Sole, Opening
      <4>2. CASE k > 1
        BY <3>2, <3>4, <4>2 DEF Past, Sole, Opening
      <4> QED BY <2>2, <2>6, <4>1, <4>2
    <3>7. AnswerAt(t, k)'
      <4>1. CASE k + 1 > t.words
        <5>1. Sole(AnswerThreads, t, "none", "none", Answering(t), (k + 1) - t.words)
          BY <2>1, <2>2, <4>1 DEF AnswerAt
        <5>2. (k + 1) - t.words \in Clocks
          BY <2>2, <3>1, <4>1, AhbBusAssumption DEF Clocks
        <5>3. CASE k = t.words
          <6>1. Sole(AnswerThreads, t, Answering(t), "none", "none", 0)'
            BY <1>6, <1>7, <2>2, <3>2, <5>1, <5>2, <5>3
          <6> QED BY <5>3, <6>1 DEF AnswerAt, Answering
        <5>4. CASE k > t.words
          <6> DEFINE j == (k + 1) - t.words
          <6>1. j > 1 /\ j - 1 = k - t.words
            BY <2>2, <5>4
          <6>2. Sole(AnswerThreads, t, "none", "none", Answering(t), j - 1)'
            BY <1>6, <1>7, <3>2, <5>1, <5>2, <6>1
          <6>3. Sole(AnswerThreads, t, "none", "none", Answering(t), k - t.words)'
            BY <6>1, <6>2
          <6> QED BY <5>4, <6>3 DEF AnswerAt
        <5> QED BY <2>2, <4>1, <5>3, <5>4
      <4>2. CASE k + 1 <= t.words
        <5>1. k + 1 > 1 /\ (k + 1) - 1 = k /\ k + 1 \in Clocks /\ k \in 1..t.words
          BY <2>2, <2>6, <4>2, AhbBusAssumption DEF Clocks
        <5>2. Sole(AnswerThreads, t, "none", "none", "masterResponse", k + 1)
          BY <2>1, <2>2, <2>4, <4>2 DEF AnswerAt
        <5>3. Sole(AnswerThreads, t, "none", "none", "masterResponse", (k + 1) - 1)'
          BY <1>6, <1>7, <3>2, <5>1, <5>2
        <5>4. Sole(AnswerThreads, t, "none", "none", "masterResponse", k)'
          BY <5>1, <5>3
        <5> QED BY <5>1, <5>4 DEF AnswerAt
      <4> QED BY <2>2, <4>1, <4>2
    <3>8. k = 1 => Abreast(t)'
      <4>1. ASSUME k = 1, Event("slaveResponse", t) \in now' PROVE t.line # Pnp
        BY <3>7, <4>1 DEF AnswerAt, Sole, Answering, AnswerThreads
      <4>2. ASSUME k = 1, Event("response", t) \in now' PROVE t.line = Pnp
        <5>1. At(Event("response", t), 1) \in later
          BY <1>4, <4>2
        <5> QED BY <1>2, <2>1, <5>1 DEF AnswerAt, Sole, Answering, AnswerThreads
      <4>3. \A th : Event(th, t) \notin soon'
        OBVIOUS
      <4>4. k = 1 => Event(Opening(t), t) \in now'
        BY <3>2, <3>4 DEF Sole
      <4> QED BY <4>1, <4>2, <4>3, <4>4 DEF Abreast, Opening
    <3>9. k - 1 \in Clocks \cup {0} /\ (k - 1) + 1 = k /\ (k - 1 = 0 => k = 1)
      BY <2>2, <2>6, <3>1, <3>4
    <3> QED BY <3>3, <3>5, <3>6, <3>7, <3>8, <3>9 DEF Running
  <2> QED BY <2>2, <2>5, <2>6
<1> QED BY <1>8, <1>9, <1>10, <1>11 DEF Quiet

\* The events of a transfer that is granted, in clocks from the grant.
LEMMA AnswersAt ==
    ASSUME NEW t \in Trans
    PROVE  /\ t.line = Pnp => Answers(t) = {At(Event("request", t), t.words),
                                           At(Event("response", t), 1)}
           /\ t.line # Pnp => Answers(t) = {At(Event("slaveRequest", t), t.words + WaitStates),
                                           At(Event("slaveResponse", t), WaitStates + 1)}
           /\ Answers(t) \subseteq {At(e, k) : e \in {Event(th, t) : th \in Delayed}, k \in Clocks}
<1>1. /\ t.words \in Nat \ {0} /\ WaitStates \in Nat
      /\ t.words \in Clocks /\ 1 \in Clocks /\ t.words + WaitStates \in Clocks
      /\ WaitStates + 1 \in Clocks
  BY AhbBusAssumption DEF Trans, Clocks
<1>2. /\ AddressDelay(t) = t.words + WaitStates
      /\ AddressDelay(t) - (t.words - 1) = WaitStates + 1
  BY <1>1 DEF AddressDelay
<1>3. t.line = Pnp => Answers(t) = {At(Event("request", t), t.words), At(Event("response", t), 1)}
  BY DEF Answers, At
<1>4. t.line # Pnp => Answers(t) = {At(Event("slaveRequest", t), t.words + WaitStates),
                                    At(Event("slaveResponse", t), WaitStates + 1)}
  BY <1>2 DEF Answers, At
<1>5. {"slaveRequest", "request", "slaveResponse", "response"} \subseteq Delayed
  BY DEF Delayed, AnswerThreads
<1> QED BY <1>1, <1>3, <1>4, <1>5

\* The grant starts the course of a transfer that was quiet, and of no other.
LEMMA GrantMoves ==
    ASSUME NEW t \in Trans, now = {}, soon = {}, soon' = {}, Quiet(t),
           NEW es, later \subseteq {At(e, k) : e \in es, k \in Clocks},
           Advance(later \cup Answers(t))
    PROVE  /\ Running(t)' /\ ~Past(t)' /\ Fresh(t)'
           /\ InAddressPhase(t)' \/ t.line = Pnp
           /\ \A u \in Trans \ {t} :
                 /\ Running(u) \/ Quiet(u) => (Past(u)' <=> Past(u))
                 /\ Running(u) /\ Past(u) => Ending(u)'
                 /\ Quiet(u) => Quiet(u)'
<1> DEFINE pending == later \cup Answers(t)
           fs == es \cup {Event(th, t) : th \in Delayed}
<1>1. pending \subseteq {At(e, k) : e \in fs, k \in Clocks}
  BY AnswersAt
<1>2. \A e : /\ e \in now' <=> At(e, 1) \in pending
             /\ \A k \in Nat \ {0} : At(e, k) \in later' <=> At(e, k + 1) \in pending
  <2> HIDE DEF fs
  <2>1. Advance(pending)
    OBVIOUS
  <2> HIDE DEF pending
  <2> QED BY <1>1, <2>1, AdvanceMoves
<1>3. ASSUME NEW u \in Trans \ {t}
      PROVE  \A th, j : At(Event(th, u), j) \in pending <=> At(Event(th, u), j) \in later
  BY AnswersAt, AtEq, EventEq
<1>4. ASSUME NEW u \in Trans \ {t}
      PROVE  /\ Running(u) \/ Quiet(u) => (Past(u)' <=> Past(u))
             /\ Running(u) /\ Past(u) => Ending(u)'
             /\ Quiet(u) => Quiet(u)'
  <2>1. Advance(pending)
    OBVIOUS
  <2> HIDE DEF fs, pending
  <2> QED BY <1>1, <1>3, <2>1, ClockMoves
<1>5. /\ t.words \in Nat \ {0} /\ WaitStates \in Nat /\ t.words <= LineWords
      /\ LineWords \in Nat
      /\ Clocks \subseteq Nat \ {0} /\ 1 \in Clocks
  BY AhbBusAssumption DEF Trans, Clocks
<1>6. \A th \in AddressThreads \cup AnswerThreads, j \in Clocks : At(Event(th, t), j) \notin later
  BY DEF Quiet, Past, Sole, AddressThreads, AnswerThreads
<1>7. \A th \in AddressThreads \cup AnswerThreads, j \in Nat :
          At(Event(th, t), j) \in pending <=> At(Event(th, t), j) \in Answers(t)
  BY <1>1, <1>6, AtEq
<1>8. \A th \in AddressThreads \cup AnswerThreads :
          /\ Event(th, t) \in now' <=> At(Event(th, t), 1) \in Answers(t)
          /\ Event(th, t) \notin soon'
          /\ \A j \in Clocks : At(Event(th, t), j) \in later' <=>
                                At(Event(th, t), j + 1) \in Answers(t)
  BY <1>2, <1>5, <1>7
<1>9. CASE t.line = Pnp
  <2> DEFINE k == t.words - 1
  <2>1. \A th \in AddressThreads :
           /\ Event(th, t) \in now' <=> th = "request" /\ k = 0
           /\ \A j \in Clocks : At(Event(th, t), j) \in later' <=> th = "request" /\ j = k
    BY <1>5, <1>8, <1>9, AnswersAt, AtEq, EventEq DEF AddressThreads
  <2>2. Sole(AnswerThreads, t, "response", "none", "none", 0)'
    BY <1>5, <1>8, <1>9, AnswersAt, AtEq, EventEq DEF AnswerThreads, Sole
  <2>3. k \in Clocks \cup {0} /\ k + 1 = t.words
    BY <1>5, AhbBusAssumption DEF Clocks
  <2>4. AddressAt(t, k)' /\ ~Past(t)'
    BY <1>5, <1>8, <1>9, <2>1, <2>3 DEF AddressAt, Sole, Past, Opening, AddressThreads
  <2>5. AnswerAt(t, k + 1)'
    BY <2>2, <2>3 DEF AnswerAt
  <2>6. k = 0 => Abreast(t)'
    BY <1>9, <2>1, <2>2 DEF Abreast, Sole, AnswerThreads, AddressThreads
  <2>7. Fresh(t)'
    BY <1>9, <2>1, <2>4 DEF Fresh, AddressThreads
  <2> QED BY <1>4, <1>9, <2>3, <2>4, <2>5, <2>6, <2>7 DEF Running
<1>10. CASE t.line # Pnp
  <2> DEFINE k == t.words + WaitStates - 1
  <2>1. \A th \in AddressThreads :
           /\ Event(th, t) \in now' <=> th = "slaveRequest" /\ k = 0
           /\ \A j \in Clocks : At(Event(th, t), j) \in later' <=> th = "slaveRequest" /\ j = k
    <3>1. \A th \in AddressThreads : \A j :
             At(Event(th, t), j) \in Answers(t) <=> th = "slaveRequest" /\ j = t.words + WaitStates
      BY <1>10, AnswersAt, AtEq, EventEq DEF AddressThreads
    <3>2. /\ 1 = t.words + WaitStates <=> k = 0
          /\ \A j \in Clocks : j + 1 = t.words + WaitStates <=> j = k
      BY <1>5
    <3> QED BY <1>8, <3>1, <3>2
  <2>2. \A th \in AnswerThreads :
           /\ Event(th, t) \in now' <=> th = "slaveResponse" /\ WaitStates = 0
           /\ \A j \in Clocks : At(Event(th, t), j) \in later' <=>
                                  th = "slaveResponse" /\ j = WaitStates
    BY <1>5, <1>8, <1>10, AnswersAt, AtEq, EventEq DEF AnswerThreads
  <2>3. k \in Clocks \cup {0} /\ k + 1 = t.words + WaitStates /\ k + 1 - t.words = WaitStates
    BY <1>5 DEF Clocks
  <2>4. AddressAt(t, k)' /\ ~Past(t)'
    BY <1>5, <1>8, <1>10, <2>1, <2>3 DEF AddressAt, Sole, Past, Opening, AddressThreads
  <2>5. AnswerAt(t, k + 1)'
    <3>1. CASE WaitStates = 0
      BY <1>5, <1>8, <1>10, <2>2, <2>3, <3>1 DEF AnswerAt, Sole, AnswerThreads
    <3>2. CASE WaitStates > 0
      BY <1>5, <1>8, <1>10, <2>2, <2>3, <3>2 DEF AnswerAt, Sole, Answering, AnswerThreads
    <3> QED BY <1>5, <3>1, <3>2
  <2>6. k = 0 => Abreast(t)'
    BY <1>8, <1>10, <2>1, <2>2 DEF Abreast, AnswerThreads, AddressThreads
  <2>7. Fresh(t)'
    BY <1>8, <1>10, <2>1, <2>4 DEF Fresh, AddressThreads
  <2>8. InAddressPhase(t)'
    <3>1. Event("slaveRequest", t) \in now' \/ At(Event("slaveRequest", t), k) \in later'
      BY <2>1, <2>3 DEF AddressThreads
    <3>2. At(Event("slaveRequest", t), k).event = Event("slaveRequest", t)
      BY AtFields
    <3> QED BY <3>1, <3>2 DEF InAddressPhase, Ends, Due
  <2> QED BY <1>4, <1>10, <2>3, <2>4, <2>5, <2>6, <2>7, <2>8 DEF Running
<1> QED BY <1>9, <1>10

-----------------------------------------------------------------------------
(* What steps have in common                                               *)

EventTypes ==
    /\ now \subseteq Events /\ soon \subseteq Events
    /\ \A e \in later : e.event \in Events /\ e.clocks \in 1..(LineWords + WaitStates)

\* The events of Places have the types of TypeOK.
LEMMA PlacesTypes == Places => EventTypes
<1> SUFFICES ASSUME Places PROVE EventTypes
  OBVIOUS
<1>1. ASSUME NEW th \in Threads, NEW t \in Trans PROVE Event(th, t) \in Events
  BY DEF Event, Events
<1>2. Delayed \subseteq Threads
  BY DEF Delayed, AnswerThreads, Threads
<1>3. ASSUME NEW e \in later
      PROVE  e.event \in Events /\ e.clocks \in 1..(LineWords + WaitStates)
  <2>1. PICK th \in Delayed, t \in Trans, k \in Clocks : e = At(Event(th, t), k)
    BY DEF Places
  <2> QED BY <1>1, <1>2, <2>1, AtFields DEF Clocks
<1> QED BY <1>1, <1>3 DEF Places, EventTypes

\* Of two transfers under way one comes to its end, and the other is fresh.
LEMMA Pair ==
    ASSUME Kinds, Overlap, NEW t \in Flying, NEW u \in Flying, t # u
    PROVE  /\ Len(flight) = 2
           /\ \/ t = flight[1] /\ u = flight[2] /\ Ending(t) /\ Fresh(u)
              \/ u = flight[1] /\ t = flight[2] /\ Ending(u) /\ Fresh(t)
<1>1. PICK i \in DOMAIN flight, j \in DOMAIN flight : t = flight[i] /\ u = flight[j]
  BY DEF Flying
<1>2. flight \in Seq(Trans) /\ Len(flight) <= 2
  BY DEF Kinds, TypeOK
<1> DEFINE n == Len(flight)
<1>3. DOMAIN flight = 1..n /\ n \in Nat
  BY <1>2
<1>4. n <= 2 /\ i \in 1..n /\ j \in 1..n /\ i # j
  BY <1>1, <1>2, <1>3
<1> HIDE DEF n
<1>5. n = 2 /\ ((i = 1 /\ j = 2) \/ (i = 2 /\ j = 1))
  BY <1>3, <1>4
<1> QED BY <1>1, <1>4, <1>5 DEF Overlap, n

\* The threads of a step find the same transfers under way, in the same places.
LEMMA CoursesStill ==
    ASSUME Courses, Overlap, flight' = flight,
           \A t \in Trans : Same(AddressThreads, t) /\ Same(AnswerThreads, t),
           flight \in Seq(Trans), Owned, owner' = owner
    PROVE  Courses' /\ Overlap' /\ Owned' /\ \A t \in Trans : Past(t)' <=> Past(t)
<1>1. Flying' = Flying /\ Flying \subseteq Trans
  BY DEF Flying
<1>2. \A t \in Trans : /\ Course(t)' <=> Course(t)
                       /\ Quiet(t)' <=> Quiet(t)
                       /\ Ending(t)' <=> Ending(t)
                       /\ Fresh(t)' <=> Fresh(t)
                       /\ Past(t)' <=> Past(t)
  BY CourseSame, AddressSame
<1>3. Courses'
  BY <1>1, <1>2 DEF Courses
<1>4. Len(flight) = 2 => flight[1] \in Trans /\ flight[2] \in Trans
  OBVIOUS
<1>5. Overlap'
  BY <1>2, <1>4 DEF Overlap
<1>6. Owned'
  BY <1>1, <1>2 DEF Owned, Same, AddressThreads
<1> QED BY <1>2, <1>3, <1>5, <1>6

\* One transfer moves, and does not come to its end.
LEMMA CoursesMoved ==
    ASSUME Courses, Overlap, flight' = flight, flight \in Seq(Trans),
           NEW t \in Trans, t \in Flying, ~Ending(t), Course(t)',
           Fresh(t) => Fresh(t)',
           \A u : u # t => Same(AddressThreads, u) /\ Same(AnswerThreads, u)
    PROVE  /\ Courses' /\ Overlap'
           /\ \A u \in Trans \ {t} : Past(u)' <=> Past(u)
<1>1. Flying' = Flying /\ Flying \subseteq Trans
  BY DEF Flying
<1>2. \A u \in Trans \ {t} : /\ Course(u)' <=> Course(u)
                             /\ Quiet(u)' <=> Quiet(u)
                             /\ Ending(u)' <=> Ending(u)
                             /\ Past(u)' <=> Past(u)
                             /\ Fresh(u)' <=> Fresh(u)
  BY CourseSame, AddressSame
<1>3. Courses'
  BY <1>1, <1>2 DEF Courses
<1>4. Len(flight) = 2 => flight[1] \in Trans /\ flight[2] \in Trans
  OBVIOUS
<1>5. Overlap'
  BY <1>2, <1>4 DEF Overlap
<1> QED BY <1>2, <1>3, <1>5

\* The masters wait, and nothing new comes from them.
LEMMA MastersStill ==
    ASSUME Asks, Requests, Flights, Accesses, flight \in Seq(Trans), flight' = flight,
           UNCHANGED <<fifo, active, phase, frame, request>>,
           \A t \in Trans : Past(t)' <=> Past(t),
           \A t \in Trans, th \in {"accept", "access"} :
              /\ Event(th, t) \in now' \cup soon' => Event(th, t) \in now \cup soon
              /\ Event(th, t) \in now' \cap soon' => Event(th, t) \in now \cap soon,
           \A t \in Trans :
              Event("masterResponse", t) \in now => Event("masterResponse", t) \in now'
    PROVE  Asks' /\ Requests' /\ Flights' /\ Accesses'
<1>1. Flying' = Flying /\ Flying \subseteq Trans
  BY DEF Flying
<1>2. \A m : Open(m)' <=> Open(m)
  BY DEF Open
<1>3. \A m : Current(m)' = Current(m)
  BY DEF Current, FrameTrans
<1>4. \A m : Carried(m)' <=> Carried(m)
  BY <1>1 DEF Carried
<1>5. Asks'
  BY <1>2, <1>3, <1>4 DEF Asks
<1>6. Requests'
  BY <1>2, <1>3, <1>4 DEF Requests
<1>7. \A t \in Trans : LastWord(t) => LastWord(t)'
  BY DEF LastWord
<1>8. Flights'
  BY <1>1, <1>2, <1>3, <1>7 DEF Flights
<1>9. Accesses'
  BY DEF Accesses
<1> QED BY <1>5, <1>6, <1>8, <1>9

\* The threads of the bus and the slave leave the masters and the memory alone.
LEMMA KindsStill ==
    ASSUME Kinds, Places',
           UNCHANGED <<rmw, fifo, active, phase, buf, frame, request, locked, robin, mem, flight>>,
           copy' \in [CPUs -> [Lines -> Values \cup {NoVal}]],
           owner' \in Masters \cup {None}, dataBus' \in {"idle", "waitstates", "response"}
    PROVE  Kinds'
<1>1. EventTypes'
  BY PlacesTypes, PTL
<1>2. TypeOK'
  BY <1>1 DEF TypeOK, Kinds, EventTypes
<1> QED BY <1>2 DEF Kinds

-----------------------------------------------------------------------------
(* The threads of the bus and of its slave                                 *)

\* The requestThread of the slave keeps the invariant.
LEMMA SlaveRequestKept ==
    ASSUME IInv, NEW t \in Trans, Event("slaveRequest", t) \in now,
           Run(Event("slaveRequest", t)), SlaveRequestThread(t)
    PROVE  IInv'
<1> USE DEF IInv
<1>1. /\ now' = now \ {Event("slaveRequest", t)} /\ soon' = soon \cup {Event("request", t)}
      /\ UNCHANGED <<cpus, buf, frame, request, arbiter, mem, later, flight>>
  BY DEF Run, SlaveRequestThread, Notify
<1>2. /\ t \in Flying /\ t.line # Pnp
      /\ Course(t)' /\ ~Past(t) /\ ~Past(t)'
      /\ \A u : u # t => Same(AddressThreads, u) /\ Same(AnswerThreads, u)
      /\ Same(AnswerThreads, t)
      /\ Sole(AddressThreads, t, "none", "request", "none", 0)'
  BY <1>1, SlaveRequestMoves
<1>3. Fresh(t)'
  BY <1>2 DEF Fresh, Sole, AddressThreads
<1>4. Places'
  <2>1. Places
    BY DEF IInv, Kinds
  <2> QED BY <1>1, <2>1 DEF Places, Threads
<1>5. Kinds'
  BY <1>1, <1>4, KindsStill DEF cpus, caches, arbiter, Kinds, TypeOK
<1>6. /\ Courses' /\ Overlap'
      /\ \A u \in Trans : Past(u)' <=> Past(u)
  BY <1>1, <1>2, <1>3, CoursesMoved DEF Ending, Kinds
<1>7. Owned'
  BY <1>1, <1>2, <1>6, EventEq DEF Owned, Kinds, Flying, arbiter
<1>8. Asks' /\ Requests' /\ Flights' /\ Accesses'
  BY <1>1, <1>6, EventEq, MastersStill DEF Kinds, cpus
<1> QED BY <1>5, <1>6, <1>7, <1>8

\* The responseThread of the slave keeps the invariant.
LEMMA SlaveResponseKept ==
    ASSUME IInv, NEW t \in Trans, Event("slaveResponse", t) \in now,
           Run(Event("slaveResponse", t)), SlaveResponseThread(t)
    PROVE  IInv'
<1> USE DEF IInv
<1>1. /\ now' = now \ {Event("slaveResponse", t)} /\ soon' = soon \cup {Event("response", t)}
      /\ UNCHANGED <<cpus, buf, frame, request, arbiter, mem, later, flight>>
  BY DEF Run, SlaveResponseThread, Notify
<1>2. /\ t \in Flying /\ Course(t)' /\ ~Ending(t)
      /\ \A u : u # t => Same(AddressThreads, u) /\ Same(AnswerThreads, u)
      /\ Same(AddressThreads, t)
  BY <1>1, SlaveResponseMoves
<1>3. (Fresh(t) => Fresh(t)') /\ (Past(t)' <=> Past(t))
  BY <1>2, AddressSame DEF Fresh, Same, AddressThreads
<1>4. Places'
  <2>1. Places
    BY DEF IInv, Kinds
  <2> QED BY <1>1, <2>1 DEF Places, Threads
<1>5. Kinds'
  BY <1>1, <1>4, KindsStill DEF cpus, caches, arbiter, Kinds, TypeOK
<1>6. /\ Courses' /\ Overlap'
      /\ \A u \in Trans : Past(u)' <=> Past(u)
  BY <1>1, <1>2, <1>3, CoursesMoved DEF Kinds
<1>7. Owned'
  BY <1>1, <1>6, EventEq DEF Owned, Kinds, Flying, arbiter
<1>8. Asks' /\ Requests' /\ Flights' /\ Accesses'
  BY <1>1, <1>6, EventEq, MastersStill DEF Kinds, cpus
<1> QED BY <1>5, <1>6, <1>7, <1>8

\* ResponseThread of the bus keeps the invariant.
LEMMA ResponseKept ==
    ASSUME IInv, NEW t \in Trans, Event("response", t) \in now,
           Run(Event("response", t)), ResponseThread(t)
    PROVE  IInv'
<1> USE DEF IInv
<1>1. /\ now' = now \ {Event("response", t)} /\ soon' = soon /\ dataBus' = "response"
      /\ UNCHANGED <<cpus, buf, frame, request, owner, locked, robin, mem, flight>>
  BY DEF Run, ResponseThread
<1>2. /\ t \in Flying /\ Course(t)' /\ ~Ending(t)
      /\ \A u : u # t => Same(AddressThreads, u) /\ Same(AnswerThreads, u)
      /\ Same(AddressThreads, t)
  BY <1>1, ResponseMoves
<1>3. (Fresh(t) => Fresh(t)') /\ (Past(t)' <=> Past(t))
  BY <1>2, AddressSame DEF Fresh, Same, AddressThreads
<1>4. later' = later \cup {At(Event("masterResponse", t), t.words)}
  BY DEF ResponseThread, At
<1>5. t.words \in Clocks /\ "masterResponse" \in Delayed
  BY AhbBusAssumption DEF Trans, Clocks, Delayed, AnswerThreads
<1>6. Places'
  <2>1. Places
    BY DEF IInv, Kinds
  <2> QED BY <1>1, <1>4, <1>5, <2>1 DEF Places
<1>7. Kinds'
  BY <1>1, <1>6, KindsStill DEF cpus, caches, Kinds, TypeOK
<1>8. /\ Courses' /\ Overlap'
      /\ \A u \in Trans : Past(u)' <=> Past(u)
  BY <1>1, <1>2, <1>3, CoursesMoved DEF Kinds
<1>9. Owned'
  BY <1>1, <1>8, EventEq DEF Owned, Kinds, Flying
<1>10. Asks' /\ Requests' /\ Flights' /\ Accesses'
  BY <1>1, <1>8, EventEq, MastersStill DEF Kinds, cpus
<1> QED BY <1>7, <1>8, <1>9, <1>10

\* RequestThread of the bus keeps the invariant: it gives the address bus free when no
\* other transfer has it.
LEMMA RequestKept ==
    ASSUME IInv, NEW t \in Trans, Event("request", t) \in now,
           Run(Event("request", t)), RequestThread(t)
    PROVE  IInv'
<1> USE DEF IInv
<1>1. /\ now' = now \ {Event("request", t)} /\ soon' = soon \cup {Event("endRequest", t)}
      /\ dataBus' \in {dataBus, "waitstates"} /\ owner' = None /\ copy' = Snooped(t)
      /\ UNCHANGED <<rmw, fifo, active, phase, buf, frame, request, locked, robin,
                     mem, later, flight>>
  BY DEF Run, RequestThread, Notify
<1>2. /\ t \in Flying /\ Course(t)' /\ ~Past(t) /\ ~Past(t)'
      /\ \A u : u # t => Same(AddressThreads, u) /\ Same(AnswerThreads, u)
      /\ Same(AnswerThreads, t)
      /\ Sole(AddressThreads, t, "none", "endRequest", "none", 0)'
  BY <1>1, RequestMoves
<1>3. Fresh(t) => Fresh(t)'
  BY <1>2 DEF Fresh, Sole, AddressThreads
<1>4. Places'
  <2>1. Places
    BY DEF IInv, Kinds
  <2> QED BY <1>1, <2>1 DEF Places, Threads
<1>5. copy' \in [CPUs -> [Lines -> Values \cup {NoVal}]]
  BY <1>1 DEF Snooped, Kinds, TypeOK
<1>6. Kinds'
  BY <1>1, <1>4, <1>5, KindsStill DEF Kinds, TypeOK
<1>7. /\ Courses' /\ Overlap'
      /\ \A u \in Trans : Past(u)' <=> Past(u)
  BY <1>1, <1>2, <1>3, CoursesMoved DEF Ending, Kinds
<1>8. Owned'
  <2>1. Flying' = Flying /\ Flying \subseteq Trans
    BY <1>1 DEF Flying, Kinds
  <2>2. ASSUME NEW u \in Flying, u # t PROVE Past(u)
    BY <1>2, <2>2, Pair DEF Ending
  <2> QED BY <1>1, <1>7, <2>1, <2>2 DEF Owned
<1>9. Asks' /\ Requests' /\ Flights' /\ Accesses'
  BY <1>1, <1>7, EventEq, MastersStill DEF Kinds
<1> QED BY <1>6, <1>7, <1>8, <1>9

\* EndResponseThread of the bus keeps the invariant.
LEMMA EndResponseKept ==
    ASSUME IInv, NEW t \in Trans, Event("endResponse", t) \in now,
           Run(Event("endResponse", t)), EndResponseThread(t)
    PROVE  IInv'
<1> USE DEF IInv
<1>1. /\ now' = now \ {Event("endResponse", t)} /\ dataBus' = "idle"
      /\ UNCHANGED <<cpus, buf, frame, request, owner, locked, robin, mem, soon, later, flight>>
  BY DEF Run, EndResponseThread
<1>2. \A u \in Trans : Same(AddressThreads, u) /\ Same(AnswerThreads, u)
  BY <1>1, EventEq DEF Same, AddressThreads, AnswerThreads
<1>3. Places'
  <2>1. Places
    BY DEF IInv, Kinds
  <2> QED BY <1>1, <2>1 DEF Places
<1>4. Kinds'
  BY <1>1, <1>3, KindsStill DEF cpus, caches, Kinds, TypeOK
<1>5. Courses' /\ Overlap' /\ Owned' /\ \A u \in Trans : Past(u)' <=> Past(u)
  BY <1>1, <1>2, CoursesStill DEF Kinds
<1>6. Asks' /\ Requests' /\ Flights' /\ Accesses'
  BY <1>1, <1>5, EventEq, MastersStill DEF Kinds, cpus
<1> QED BY <1>4, <1>5, <1>6

-----------------------------------------------------------------------------
(* The threads of the masters                                              *)

\* A master with no transfer, or none on its way to END_REQ, has nothing of it on the bus.
LEMMA Idle ==
    ASSUME IInv, NEW m \in Masters, ~Open(m)
    PROVE  /\ request[m] = NoTrans /\ ~Carried(m)
           /\ \A t \in Trans : t.master = m => Event("accept", t) \notin now \cup soon
<1>1. request[m] = NoTrans
  BY DEF IInv, Requests
<1>2. ~Carried(m)
  BY DEF IInv, Flights, Carried
<1> QED BY <1>1, <1>2 DEF IInv, Asks

\* mem_access takes its first transfer out of the fifo.
LEMMA AccessKept ==
    ASSUME IInv, NEW t \in Trans, Event("access", t) \in now,
           Run(Event("access", t)), AccessThread(t)
    PROVE  IInv'
<1> DEFINE c == t.master
<1>1. /\ c \in CPUs /\ active[c] = NoTrans /\ fifo[c] = <<t>> /\ fifo[c][1] = t
      /\ Event("access", t) \notin soon /\ c \in Masters /\ c # In
  BY AhbBusAssumption DEF IInv, Accesses, Masters
<1>2. ~Open(c) /\ \A u \in Flying : u.master # c
  BY <1>1, AhbBusNothings DEF Open, IInv, Flights
<1>3. /\ active' = [active EXCEPT ![c] = t] /\ phase' = [phase EXCEPT ![c] = "request"]
      /\ fifo' = [fifo EXCEPT ![c] = <<>>]
      /\ now' = now \ {Event("access", t)} /\ soon' = soon \cup {Event("accept", t)}
      /\ UNCHANGED <<caches, buf, frame, request, arbiter, mem, later, flight>>
  BY <1>1 DEF Run, AccessThread, Take, Notify
<1> HIDE DEF c
<1>4. /\ \A u \in Trans : Same(AddressThreads, u) /\ Same(AnswerThreads, u)
      /\ \A u \in Trans : Event("masterResponse", u) \in now' <=> Event("masterResponse", u) \in now
  BY <1>3, EventEq DEF Same, AddressThreads, AnswerThreads
<1>5. Places'
  <2>1. /\ now' = now \ {Event("access", t)} /\ soon' = soon \cup {Event("accept", t)}
        /\ later' = later /\ "accept" \in Threads
    BY <1>3 DEF Threads
  <2> QED BY <2>1 DEF IInv, Kinds, Places
<1>6. Kinds'
  <2>1. EventTypes'
    BY <1>5, PlacesTypes, PTL
  <2>2. /\ active \in [CPUs -> Trans \cup {NoTrans}] /\ phase \in [CPUs -> {"request", "response"}]
        /\ fifo \in [CPUs -> Seq(Trans)]
    BY DEF IInv, Kinds, TypeOK
  <2>3. /\ active' \in [CPUs -> Trans \cup {NoTrans}]
        /\ phase' \in [CPUs -> {"request", "response"}]
        /\ fifo' \in [CPUs -> Seq(Trans)]
    BY <1>1, <1>3, <2>2
  <2>4. /\ \A d \in CPUs : active'[d] = IF d = c THEN t ELSE active[d]
        /\ \A d \in CPUs : fifo'[d] = IF d = c THEN <<>> ELSE fifo[d]
    BY <1>1, <1>3, <2>2
  <2>5. /\ \A d \in CPUs : Len(fifo'[d]) <= 1 /\ \A i \in DOMAIN fifo'[d] : fifo'[d][i] \in Trans
        /\ \A d \in CPUs : \A i \in DOMAIN fifo'[d] :
              fifo'[d][i].master = d /\ HasValue(fifo'[d][i])
    <3>1. ASSUME NEW d \in CPUs, d # c
          PROVE  /\ Len(fifo'[d]) <= 1
                 /\ \A i \in DOMAIN fifo'[d] :
                       /\ fifo'[d][i] \in Trans /\ fifo'[d][i].master = d
                       /\ HasValue(fifo'[d][i])
      BY <2>4, <3>1 DEF IInv, Kinds, TypeOK
    <3>2. fifo'[c] = <<>> /\ Len(<<>>) = 0 /\ DOMAIN <<>> = {}
      BY <1>1, <2>4
    <3> QED BY <3>1, <3>2
  <2>6. \A d \in CPUs : active'[d] # NoTrans => active'[d].master = d /\ HasValue(active'[d])
    <3>1. HasValue(t)
      <4>1. fifo[c] = <<t>> /\ 1 \in DOMAIN fifo[c]
        BY <1>1
      <4> QED BY <1>1, <4>1 DEF IInv, Kinds
    <3> QED BY <2>4, <3>1 DEF IInv, Kinds, c
  <2>7. TypeOK'
    BY <1>3, <2>1, <2>3, <2>5 DEF IInv, Kinds, TypeOK, EventTypes, caches, arbiter
  <2> QED BY <1>3, <1>5, <2>3, <2>5, <2>6, <2>7 DEF IInv, Kinds
<1>7. Courses' /\ Overlap' /\ Owned' /\ \A u \in Trans : Past(u)' <=> Past(u)
  BY <1>3, <1>4, CoursesStill DEF IInv, Kinds, arbiter
<1>8. Flying' = Flying /\ Flying \subseteq Trans
  BY <1>3 DEF Flying, IInv, Kinds
<1>9. /\ \A m \in Masters \ {c} : (Open(m)' <=> Open(m)) /\ Current(m)' = Current(m)
      /\ Open(c)' /\ Current(c)' = t
      /\ \A m \in Masters : Carried(m)' <=> Carried(m)
  <2>1. \A m \in Masters \ {c} : (Open(m)' <=> Open(m)) /\ Current(m)' = Current(m)
    BY <1>3 DEF Open, Current, FrameTrans, Masters, IInv, Kinds, TypeOK
  <2>2. Open(c)' /\ Current(c)' = t
    BY <1>1, <1>3, AhbBusNothings DEF Open, Current, IInv, Kinds, TypeOK
  <2>3. \A m \in Masters : Carried(m)' <=> Carried(m)
    BY <1>7, <1>8 DEF Carried
  <2> QED BY <2>1, <2>2, <2>3
<1>10. /\ request[c] = NoTrans /\ ~Carried(c)
       /\ \A u \in Trans : u.master = c => Event("accept", u) \notin now \cup soon
  BY <1>1, <1>2, Idle
<1>11. \A u \in Trans : u.master \in Masters
  BY DEF Trans
<1>12. Asks'
  <2>1. \A u \in Trans : /\ Event("accept", u) \in now' <=> Event("accept", u) \in now
                         /\ Event("accept", u) \in soon' <=> Event("accept", u) \in soon \/ u = t
    BY <1>3, EventEq
  <2> QED BY <1>3, <1>9, <1>10, <1>11, <2>1 DEF Asks, IInv, c
<1>13. Requests'
  BY <1>3, <1>9, <1>10 DEF Requests, IInv
<1>14. Flights'
  BY <1>1, <1>2, <1>3, <1>4, <1>7, <1>8, <1>9, <1>11 DEF Flights, IInv, LastWord, Kinds, TypeOK
<1>15. Accesses'
  <2>1. \A u \in Trans : /\ Event("access", u) \in now' <=> Event("access", u) \in now /\ u # t
                         /\ Event("access", u) \in soon' <=> Event("access", u) \in soon
    BY <1>3, EventEq
  <2>2. ASSUME NEW u \in Trans, Event("access", u) \in now' \cup soon' PROVE u.master # c
    BY <1>1, <2>1, <2>2 DEF IInv, Accesses
  <2> QED BY <1>3, <2>1, <2>2 DEF Accesses, IInv, Kinds, TypeOK
<1> QED BY <1>6, <1>7, <1>12, <1>13, <1>14, <1>15 DEF IInv

\* AcceptThread puts the transfer its master waits for into the request map.
LEMMA AcceptKept ==
    ASSUME IInv, NEW t \in Trans, Event("accept", t) \in now,
           Run(Event("accept", t)), AcceptThread(t)
    PROVE  IInv'
<1>1. /\ now' = now \ {Event("accept", t)}
      /\ request' = IF Decoded(t) THEN [request EXCEPT ![t.master] = t] ELSE request
      /\ UNCHANGED <<cpus, buf, frame, arbiter, mem, soon, later, flight>>
  BY DEF Run, AcceptThread
<1>2. /\ Open(t.master) /\ t = Current(t.master) /\ request[t.master] = NoTrans
      /\ ~Carried(t.master) /\ Event("accept", t) \notin soon
  BY DEF IInv, Asks
<1>3. \A u \in Trans : u.master \in Masters
  BY DEF Trans
<1>4. /\ \A u \in Trans : Same(AddressThreads, u) /\ Same(AnswerThreads, u)
      /\ \A u \in Trans : Event("masterResponse", u) \in now' <=> Event("masterResponse", u) \in now
  BY <1>1, EventEq DEF Same, AddressThreads, AnswerThreads
<1>5. Places'
  <2>1. Places
    BY DEF IInv, Kinds
  <2> QED BY <1>1, <2>1 DEF Places, Threads
<1>6. request' \in [Masters -> Trans \cup {NoTrans}]
  BY <1>1, <1>3 DEF IInv, Kinds, TypeOK
<1>7. Kinds'
  <2>1. EventTypes'
    BY <1>5, PlacesTypes, PTL
  <2>2. TypeOK'
    BY <1>1, <1>6, <2>1 DEF IInv, Kinds, TypeOK, EventTypes, cpus, caches, arbiter
  <2> QED BY <1>1, <1>5, <2>2 DEF IInv, Kinds, cpus
<1>8. Courses' /\ Overlap' /\ Owned' /\ \A u \in Trans : Past(u)' <=> Past(u)
  BY <1>1, <1>4, CoursesStill DEF IInv, Kinds, arbiter
<1>9. Flying' = Flying /\ Flying \subseteq Trans
  BY <1>1 DEF Flying, IInv, Kinds
<1>10. \A m \in Masters : /\ Open(m)' <=> Open(m)
                          /\ Current(m)' = Current(m)
                          /\ Carried(m)' <=> Carried(m)
  BY <1>1, <1>8, <1>9 DEF Open, Current, FrameTrans, Carried, cpus
<1>11. \A u \in Trans : /\ Event("accept", u) \in now' <=> Event("accept", u) \in now /\ u # t
                        /\ Event("accept", u) \in soon' <=> Event("accept", u) \in soon
  BY <1>1, EventEq
<1>12. ASSUME NEW m \in Masters
       PROVE  request'[m] = IF Decoded(t) /\ m = t.master THEN t ELSE request[m]
  BY <1>1, <1>3 DEF IInv, Kinds, TypeOK
<1>13. Asks'
  BY <1>2, <1>3, <1>10, <1>11, <1>12 DEF Asks, IInv
<1>14. Requests'
  BY <1>2, <1>10, <1>12 DEF Requests, IInv, Decoded
<1>15. Flights'
  BY <1>1, <1>3, <1>4, <1>8, <1>9, <1>10 DEF Flights, IInv, LastWord, cpus
<1>16. Accesses'
  BY <1>1, EventEq DEF Accesses, IInv, cpus
<1> QED BY <1>7, <1>8, <1>13, <1>14, <1>15, <1>16 DEF IInv

\* At END_REQ a transfer is the only one of its master under way.
LEMMA Alone ==
    ASSUME IInv, NEW t \in Flying, ~Past(t)
    PROVE  /\ Open(t.master) /\ t = Current(t.master) /\ request[t.master] = NoTrans
           /\ \A u \in Trans : u.master = t.master => Event("accept", u) \notin now \cup soon
           /\ t.master \in CPUs => \A u \in Flying : u.master = t.master => u = t
<1>1. t \in Trans /\ t.master \in Masters /\ Open(t.master) /\ t = Current(t.master)
  BY DEF IInv, Flights, Trans
<1>2. Carried(t.master)
  BY DEF Carried
<1>3. request[t.master] = NoTrans
  BY <1>1, <1>2 DEF IInv, Requests
<1>4. \A u \in Trans : u.master = t.master => Event("accept", u) \notin now \cup soon
  BY <1>2 DEF IInv, Asks
<1>5. ASSUME t.master \in CPUs, NEW u \in Flying, u.master = t.master PROVE u = t
  <2>1. t.master # In
    BY <1>5, AhbBusAssumption
  <2>2. phase[t.master] = "request"
    BY <1>1, <2>1 DEF Open
  <2>3. ~Past(u)
    BY <1>5, <2>2 DEF IInv, Flights
  <2> QED BY <1>1, <1>5, <2>3 DEF IInv, Flights
<1> QED BY <1>1, <1>3, <1>4, <1>5

\* Two words of a frame have two addresses.
LEMMA WordsDiffer ==
    ASSUME NEW i \in DOMAIN FrameLines, NEW j \in DOMAIN FrameLines,
           FrameLines[i] = FrameLines[j]
    PROVE  i = j
BY AhbBusAssumption

\* ahbaccess returns: the master of a read or a write waits for its answer, and the
\* AHBIn goes on to its next word.
LEMMA EndRequestKept ==
    ASSUME IInv, NEW t \in Trans, Event("endRequest", t) \in now,
           Run(Event("endRequest", t)), EndRequest(t)
    PROVE  IInv'
<1>1. /\ now' = now \ {Event("endRequest", t)}
      /\ UNCHANGED <<caches, fifo, active, buf, request, arbiter, mem, later, flight>>
      /\ \/ /\ t.master \in CPUs /\ phase' = [phase EXCEPT ![t.master] = "response"]
            /\ frame' = frame /\ soon' = soon
         \/ /\ t.master = In /\ frame.word < Len(FrameLines) /\ phase' = phase
            /\ frame' = [frame EXCEPT !.word = @ + 1]
            /\ soon' = soon \cup {Event("accept", FrameTrans(frame'))}
         \/ /\ t.master = In /\ frame.word = Len(FrameLines) /\ phase' = phase
            /\ frame' = [frame EXCEPT !.state = "pulse"] /\ soon' = soon
  BY DEF Run, EndRequest, Notify, cpus
<1>2. frame \in [state : {"writing", "pulse", "waiting"},
                 word : DOMAIN FrameLines, val : Values \cup {NoVal}]
  BY DEF IInv, Kinds, TypeOK
<1>3. DOMAIN FrameLines = 1..Len(FrameLines) /\ Len(FrameLines) \in Nat
  BY AhbBusAssumption
<1>4. soon \subseteq soon' /\ \A e \in soon' \ soon : \E u : e = Event("accept", u)
  BY <1>1
<1>5. /\ t \in Flying /\ Course(t)' /\ ~Past(t) /\ Past(t)'
      /\ \A u : u # t => Same(AddressThreads, u) /\ Same(AnswerThreads, u)
  <2>1. later' = later /\ Courses
    BY <1>1 DEF IInv
  <2> QED BY <1>1, <1>4, <2>1, EndRequestMoves
<1>6. /\ Open(t.master) /\ t = Current(t.master) /\ request[t.master] = NoTrans
      /\ \A u \in Trans : u.master = t.master => Event("accept", u) \notin now \cup soon
      /\ t.master \in CPUs => \A u \in Flying : u.master = t.master => u = t
  BY <1>5, Alone
<1>7. Flying = {t}
  <2>1. ~Fresh(t) /\ ~Ending(t)
    BY <1>5 DEF Fresh, Ending
  <2> QED BY <1>5, <2>1, Pair DEF IInv
<1>8. Flying' = Flying /\ Flying \subseteq Trans
  BY <1>1 DEF Flying, IInv, Kinds
<1>9. /\ Courses' /\ Overlap'
      /\ \A u \in Trans \ {t} : Past(u)' <=> Past(u)
  <2>1. ~Ending(t) /\ ~Fresh(t)
    BY <1>5 DEF Fresh, Ending
  <2>2. flight \in Seq(Trans) /\ flight' = flight
    BY <1>1 DEF IInv, Kinds
  <2> QED BY <1>5, <2>1, <2>2, CoursesMoved DEF IInv
<1>10. Owned'
  BY <1>5, <1>7, <1>8 DEF Owned
<1>11. \A m \in Masters : ~Carried(m)'
  BY <1>5, <1>7, <1>8 DEF Carried
<1>12. \A u \in Trans : u.master \in Masters
  BY DEF Trans
<1>13. Decoded(t) /\ t \in Trans
  BY <1>5 DEF IInv, Flights
<1>14. ASSUME Places', TypeOK' PROVE Kinds'
  <2>1. frame'.val = frame.val /\ (frame'.state = "writing" => frame.state = "writing")
    BY <1>1, <1>2
  <2>2. flight' = flight /\ fifo' = fifo /\ active' = active
    BY <1>1
  <2> QED BY <1>14, <2>1, <2>2 DEF IInv, Kinds
<1>15. Accesses'
  <2>1. \A u \in Trans : /\ Event("access", u) \in now' <=> Event("access", u) \in now
                         /\ Event("access", u) \in soon' <=> Event("access", u) \in soon
    BY <1>1, EventEq
  <2> QED BY <1>1, <2>1 DEF IInv, Accesses
<1>16. CASE t.master \in CPUs
  <2> DEFINE c == t.master
  <2>0. c \in CPUs /\ c # In /\ c \in Masters
    BY <1>16, AhbBusAssumption DEF Masters
  <2>1. phase' = [phase EXCEPT ![c] = "response"] /\ frame' = frame /\ soon' = soon
    BY <1>1, <2>0
  <2>2. t = active[c]
    BY <1>6, <2>0 DEF Current
  <2>3. /\ phase' \in [CPUs -> {"request", "response"}] /\ phase'[c] = "response"
        /\ \A d \in CPUs \ {c} : phase'[d] = phase[d]
    BY <2>0, <2>1 DEF IInv, Kinds, TypeOK
  <2>4. Places'
    <3>1. Places
      BY DEF IInv, Kinds
    <3> QED BY <1>1, <2>1, <3>1 DEF Places
  <2>5. EventTypes'
    BY <2>4, PlacesTypes, PTL
  <2>6. TypeOK'
    BY <1>1, <2>1, <2>3, <2>5 DEF IInv, Kinds, TypeOK, EventTypes, caches, arbiter
  <2>7. \A m \in Masters \ {c} : (Open(m)' <=> Open(m)) /\ Current(m)' = Current(m)
    BY <1>1, <2>1, <2>3 DEF Open, Current, FrameTrans, Masters
  <2>8. \A u \in Trans : /\ Event("accept", u) \in now' <=> Event("accept", u) \in now
                         /\ Event("accept", u) \in soon' <=> Event("accept", u) \in soon
    BY <1>1, <2>1, EventEq
  <2> HIDE DEF c
  <2>9. Asks'
    BY <1>1, <1>6, <1>11, <1>12, <2>7, <2>8 DEF Asks, IInv, c
  <2>10. Requests'
    BY <1>1, <1>6, <1>11, <2>7 DEF Requests, IInv, c
  <2>11. Flights'
    BY <1>1, <1>5, <1>7, <1>8, <1>13, <2>0, <2>2, <2>3 DEF Flights, c
  <2> QED BY <1>9, <1>10, <1>14, <1>15, <2>4, <2>6, <2>9, <2>10, <2>11 DEF IInv
<1>17. CASE t.master = In
  <2>0. In \notin CPUs /\ In \in Masters
    BY AhbBusAssumption DEF Masters
  <2>1. frame.state = "writing" /\ t = FrameTrans(frame) /\ phase' = phase
    BY <1>1, <1>6, <1>17, <2>0 DEF Open, Current
  <2>2. \A m \in Masters \ {In} : (Open(m)' <=> Open(m)) /\ Current(m)' = Current(m)
    BY <1>1, <2>1 DEF Open, Current
  <2>3. CASE frame.word < Len(FrameLines) /\ soon' = soon \cup {Event("accept", FrameTrans(frame'))}
                /\ frame' = [frame EXCEPT !.word = @ + 1]
    <3> DEFINE n == FrameTrans(frame')
    <3>1. /\ frame' \in [state : {"writing", "pulse", "waiting"},
                         word : DOMAIN FrameLines, val : Values \cup {NoVal}]
          /\ frame'.state = "writing" /\ frame'.word > 1 /\ frame'.word - 1 = frame.word
          /\ frame'.word \in DOMAIN FrameLines
      BY <1>2, <1>3, <2>1, <2>3
    <3>2. n \in Trans /\ n.master = In /\ n = Current(In)' /\ Open(In)'
      BY <2>0, <3>1, AhbBusAssumption DEF FrameTrans, Trans, Current, Open
    <3>3. t.line = FrameLines[frame'.word - 1]
      BY <2>1, <3>1 DEF FrameTrans
    <3>4. Places'
      <4>1. soon' = soon \cup {Event("accept", n)} /\ "accept" \in Threads
        BY <2>3 DEF Threads
      <4> HIDE DEF n
      <4> QED BY <1>1, <3>2, <4>1 DEF IInv, Kinds, Places
    <3>5. EventTypes'
      BY <3>4, PlacesTypes, PTL
    <3>6. TypeOK'
      BY <1>1, <2>1, <3>1, <3>5 DEF IInv, Kinds, TypeOK, EventTypes, caches, arbiter
    <3>7. \A u \in Trans : /\ Event("accept", u) \in now' <=> Event("accept", u) \in now
                           /\ Event("accept", u) \in soon' <=> Event("accept", u) \in soon \/ u = n
      BY <1>1, <2>3, EventEq
    <3> HIDE DEF n
    <3>8. Asks'
      BY <1>1, <1>6, <1>11, <1>12, <1>17, <2>2, <3>2, <3>7 DEF Asks, IInv
    <3>9. Requests'
      BY <1>1, <1>6, <1>11, <1>17, <2>2 DEF Requests, IInv
    <3>10. Flights'
      BY <1>5, <1>7, <1>8, <1>13, <1>17, <2>0, <3>1, <3>3 DEF Flights, LastWord
    <3> QED BY <1>9, <1>10, <1>14, <1>15, <3>4, <3>6, <3>8, <3>9, <3>10 DEF IInv
  <2>4. CASE frame.word = Len(FrameLines) /\ soon' = soon /\ frame' = [frame EXCEPT !.state = "pulse"]
    <3>1. /\ frame' \in [state : {"writing", "pulse", "waiting"},
                         word : DOMAIN FrameLines, val : Values \cup {NoVal}]
          /\ frame'.state = "pulse"
      BY <1>2, <2>4
    <3>2. Places'
      <4>1. Places
        BY DEF IInv, Kinds
      <4> QED BY <1>1, <2>4, <4>1 DEF Places
    <3>3. EventTypes'
      BY <3>2, PlacesTypes, PTL
    <3>4. TypeOK'
      BY <1>1, <2>1, <2>4, <3>1, <3>3 DEF IInv, Kinds, TypeOK, EventTypes, caches, arbiter
    <3>5. \A u \in Trans : /\ Event("accept", u) \in now' <=> Event("accept", u) \in now
                           /\ Event("accept", u) \in soon' <=> Event("accept", u) \in soon
      BY <1>1, <2>4, EventEq
    <3>6. Asks'
      BY <1>1, <1>6, <1>11, <1>12, <1>17, <2>2, <3>5 DEF Asks, IInv
    <3>7. Requests'
      BY <1>1, <1>6, <1>11, <1>17, <2>2 DEF Requests, IInv
    <3>8. Flights'
      BY <1>5, <1>7, <1>8, <1>13, <1>17, <2>0, <3>1 DEF Flights, LastWord
    <3> QED BY <1>9, <1>10, <1>14, <1>15, <3>2, <3>4, <3>6, <3>7, <3>8 DEF IInv
  <2> QED BY <1>1, <1>17, <2>0, <2>3, <2>4
<1> QED BY <1>12, <1>16, <1>17 DEF Masters

\* The transfer that ends is the first one under way.
LEMMA EndedTail ==
    ASSUME IInv, NEW t \in Flying, Ending(t)
    PROVE  /\ flight # <<>> /\ flight[1] = t /\ Ended(t) = Tail(flight)
           /\ Tail(flight) \in Seq(Trans) /\ Len(Tail(flight)) <= 1
           /\ {Tail(flight)[i] : i \in DOMAIN Tail(flight)} = Flying \ {t}
<1>1. flight \in Seq(Trans) /\ Len(flight) \in {1, 2} /\ flight # <<>>
  <2>1. flight \in Seq(Trans) /\ Len(flight) <= 2
    BY DEF IInv, Kinds, TypeOK
  <2>2. DOMAIN flight # {}
    BY DEF Flying
  <2> DEFINE n == Len(flight)
  <2>3. flight # <<>> /\ n \in Nat /\ n # 0 /\ n <= 2
    BY <2>1, <2>2
  <2> HIDE DEF n
  <2>4. n \in {1, 2}
    BY <2>3
  <2> QED BY <2>1, <2>3, <2>4 DEF n
<1>2. \A i \in DOMAIN flight : flight[i] = t <=> i = 1
  <2>1. CASE Len(flight) = 1
    BY <1>1, <2>1 DEF Flying
  <2>2. CASE Len(flight) = 2
    <3>1. flight[1] # flight[2] /\ Fresh(flight[2])
      BY <2>2 DEF IInv, Overlap
    <3>2. t # flight[2]
      BY <3>1 DEF Fresh, Ending
    <3> QED BY <1>1, <2>2, <3>1, <3>2 DEF Flying
  <2> QED BY <1>1, <2>1, <2>2
<1>3. 1 \in DOMAIN flight /\ flight[1] = t
  BY <1>1, <1>2
<1>4. Ended(t) = Tail(flight)
  <2> DEFINE at == CHOOSE i \in DOMAIN flight : flight[i] = t
  <2>1. at = 1
    BY <1>2, <1>3
  <2>2. SubSeq(flight, 1, 0) = <<>>
    BY <1>1
  <2>3. SubSeq(flight, 2, Len(flight)) = Tail(flight)
    BY <1>1
  <2>4. Tail(flight) \in Seq(Trans)
    BY <1>1
  <2>5. <<>> \o Tail(flight) = Tail(flight)
    BY <2>4
  <2>6. Ended(t) = SubSeq(flight, 1, at - 1) \o SubSeq(flight, at + 1, Len(flight))
    BY <1>3 DEF Ended
  <2> HIDE DEF at
  <2>7. at - 1 = 0 /\ at + 1 = 2
    BY <2>1
  <2> QED BY <2>2, <2>3, <2>5, <2>6, <2>7
<1>5. Tail(flight) \in Seq(Trans) /\ Len(Tail(flight)) = Len(flight) - 1
  BY <1>1
<1>6. /\ DOMAIN Tail(flight) = 1..(Len(flight) - 1)
      /\ \A i \in DOMAIN Tail(flight) : Tail(flight)[i] = flight[i + 1] /\ i + 1 \in DOMAIN flight
  BY <1>1
<1>7. {Tail(flight)[i] : i \in DOMAIN Tail(flight)} = Flying \ {t}
  <2>1. ASSUME NEW i \in DOMAIN Tail(flight) PROVE Tail(flight)[i] \in Flying \ {t}
    BY <1>2, <1>6 DEF Flying
  <2>2. ASSUME NEW u \in Flying \ {t} PROVE \E i \in DOMAIN Tail(flight) : Tail(flight)[i] = u
    <3>1. PICK j \in DOMAIN flight : u = flight[j]
      BY DEF Flying
    <3>2. j # 1 /\ j \in 1..Len(flight)
      BY <1>1, <1>2, <3>1
    <3>3. j - 1 \in DOMAIN Tail(flight) /\ Tail(flight)[j - 1] = u
      BY <1>1, <1>6, <3>1, <3>2
    <3> QED BY <3>3
  <2> QED BY <2>1, <2>2
<1> QED BY <1>1, <1>3, <1>4, <1>5, <1>7

\* The first transfer has ended, and the second one stays as it is.
LEMMA CoursesEnded ==
    ASSUME IInv, NEW t \in Trans, t \in Flying, Ending(t), Quiet(t)', flight' = Ended(t),
           \A u : u # t => Same(AddressThreads, u) /\ Same(AnswerThreads, u),
           owner' = owner
    PROVE  /\ Courses' /\ Overlap' /\ Owned'
           /\ flight' = Tail(flight) /\ flight' \in Seq(Trans) /\ Len(flight') <= 1
           /\ Flying' = Flying \ {t} /\ Flying \subseteq Trans
           /\ \A u \in Trans \ {t} : Past(u)' <=> Past(u)
<1>1. /\ flight' = Tail(flight) /\ flight' \in Seq(Trans) /\ Len(flight') <= 1
      /\ Flying' = Flying \ {t} /\ Flying \subseteq Trans
  <2>1. Flying \subseteq Trans
    BY DEF Flying, IInv, Kinds
  <2> QED BY <2>1, EndedTail DEF Flying
<1>2. \A u \in Trans \ {t} : /\ Course(u)' <=> Course(u)
                             /\ Quiet(u)' <=> Quiet(u)
                             /\ Past(u)' <=> Past(u)
  BY CourseSame, AddressSame
<1>3. Courses'
  BY <1>1, <1>2 DEF Courses, IInv
<1>4. Overlap'
  <2> DEFINE n == Len(flight')
  <2>1. n \in Nat /\ n <= 1
    BY <1>1
  <2>2. n = 2 => FALSE
    BY <2>1
  <2> QED BY <2>2 DEF Overlap
<1>5. Owned'
  BY <1>1, <1>2 DEF Owned, IInv, Same, AddressThreads
<1> QED BY <1>1, <1>2, <1>3, <1>4, <1>5

\* What the answer does to the master it is for: mem_access waits for it, and takes the
\* next transfer if there is one.
LEMMA Answered ==
    ASSUME IInv, NEW t \in Trans, t \in Flying, Past(t), MasterResponseThread(t),
           t.master \in CPUs
    PROVE  LET c == t.master
           IN  /\ phase[c] = "response" /\ t = active[c]
               /\ copy' = Filled(t) /\ buf' = [buf EXCEPT ![c] = NoVal]
               /\ phase' = [phase EXCEPT ![c] = "request"]
               /\ \/ /\ fifo[c] = <<>> /\ fifo' = fifo /\ active' = [active EXCEPT ![c] = NoTrans]
                     /\ soon' = soon \cup {Event("endResponse", t)}
                  \/ /\ fifo[c] # <<>> /\ fifo' = [fifo EXCEPT ![c] = <<>>]
                     /\ active' = [active EXCEPT ![c] = fifo[c][1]]
                     /\ soon' = soon \cup {Event("endResponse", t), Event("accept", fifo[c][1])}
<1>1. phase[t.master] = "response" /\ t = active[t.master]
  BY DEF IInv, Flights
<1> QED BY <1>1 DEF MasterResponseThread, Notify

\* ResponseThread of the master ends the transfer, and starts the next one.
LEMMA MasterResponseKept ==
    ASSUME IInv, NEW t \in Trans, Event("masterResponse", t) \in now,
           Run(Event("masterResponse", t)), MasterResponseThread(t)
    PROVE  IInv'
<1> DEFINE c == t.master
<1>1. /\ now' = now \ {Event("masterResponse", t)} /\ flight' = Ended(t)
      /\ UNCHANGED <<rmw, frame, request, arbiter, mem, later>>
  BY DEF Run, MasterResponseThread
<1>2. /\ soon \subseteq soon'
      /\ \A e \in soon' \ soon : \E u : e \in {Event("accept", u), Event("endResponse", u)}
  BY DEF MasterResponseThread, Notify
<1>3. /\ t \in Flying /\ Ending(t) /\ Quiet(t)' /\ Past(t) /\ Past(t)'
      /\ \A u : u # t => Same(AddressThreads, u) /\ Same(AnswerThreads, u)
  <2>1. later' = later /\ Courses
    BY <1>1 DEF IInv
  <2> QED BY <1>1, <1>2, <2>1, MasterResponseMoves DEF Ending
<1>4. /\ Courses' /\ Overlap' /\ Owned'
      /\ flight' \in Seq(Trans) /\ Len(flight') <= 1
      /\ Flying' = Flying \ {t} /\ Flying \subseteq Trans
      /\ \A u \in Trans \ {t} : Past(u)' <=> Past(u)
  <2>1. owner' = owner
    BY <1>1 DEF arbiter
  <2> QED BY <1>1, <1>3, <2>1, CoursesEnded
<1>5. \A u \in Trans : u.master \in Masters
  BY DEF Trans
<1>6. /\ \A m \in Masters : Carried(m)' <=> Carried(m)
      /\ \A u \in Flying' : u \in Flying /\ u # t /\ (Past(u)' <=> Past(u))
  BY <1>3, <1>4 DEF Carried
<1>7. \A u \in Trans \ {t} :
          Event("masterResponse", u) \in now' <=> Event("masterResponse", u) \in now
  BY <1>1, EventEq
<1>8. frame' = frame /\ request' = request
  BY <1>1
<1>9. \A u \in Trans \ {t} : LastWord(u)' <=> LastWord(u)
  BY <1>7, <1>8 DEF LastWord
<1>10. CASE c \in CPUs
  <2> DEFINE next == IF fifo[c] = <<>> THEN NoTrans ELSE fifo[c][1]
  <2>0. c \in CPUs /\ c # In /\ c \in Masters
    BY <1>10, AhbBusAssumption DEF Masters
  <2>1. /\ phase[c] = "response" /\ t = active[c]
        /\ copy' = Filled(t) /\ buf' = [buf EXCEPT ![c] = NoVal]
        /\ phase' = [phase EXCEPT ![c] = "request"]
        /\ active' = [active EXCEPT ![c] = next]
        /\ \/ fifo[c] = <<>> /\ fifo' = fifo /\ soon' = soon \cup {Event("endResponse", t)}
           \/ /\ fifo[c] # <<>> /\ fifo' = [fifo EXCEPT ![c] = <<>>]
              /\ soon' = soon \cup {Event("endResponse", t), Event("accept", next)}
    BY <1>3, <2>0, Answered
  <2>2. /\ active \in [CPUs -> Trans \cup {NoTrans}] /\ phase \in [CPUs -> {"request", "response"}]
        /\ fifo \in [CPUs -> Seq(Trans)] /\ buf \in [CPUs -> Values \cup {NoVal}]
        /\ copy \in [CPUs -> [Lines -> Values \cup {NoVal}]]
    BY DEF IInv, Kinds, TypeOK
  <2>3. /\ fifo[c] # <<>> => next \in Trans /\ next.master = c
        /\ next = NoTrans \/ (next \in Trans /\ next.master = c /\ HasValue(next))
    <3>1. fifo[c] # <<>> => 1 \in DOMAIN fifo[c]
      BY <2>0, <2>2
    <3> QED BY <2>0, <3>1 DEF IInv, Kinds, TypeOK
  <2>4. NoTrans \notin Trans
    BY AhbBusNothings
  <2> HIDE DEF next, c
  <2>5. /\ active' \in [CPUs -> Trans \cup {NoTrans}]
        /\ phase' \in [CPUs -> {"request", "response"}]
        /\ fifo' \in [CPUs -> Seq(Trans)]
        /\ buf' \in [CPUs -> Values \cup {NoVal}]
        /\ active'[c] = next /\ phase'[c] = "request" /\ fifo'[c] = <<>>
        /\ \A d \in CPUs \ {c} : active'[d] = active[d] /\ phase'[d] = phase[d] /\ fifo'[d] = fifo[d]
    <3>1. <<>> \in Seq(Trans)
      OBVIOUS
    <3> QED BY <2>0, <2>1, <2>2, <2>3, <3>1
  <2>6. copy' \in [CPUs -> [Lines -> Values \cup {NoVal}]]
    <3>1. t.line \in Cached => t.line \in Lines
      BY AhbBusAssumption
    <3> QED BY <2>0, <2>1, <2>2, <3>1 DEF Filled, c
  <2>7. \A u \in Trans : /\ Event("accept", u) \in now' <=> Event("accept", u) \in now
                         /\ Event("accept", u) \in soon' => Event("accept", u) \in soon \/ u = next
                         /\ Event("access", u) \in now' <=> Event("access", u) \in now
                         /\ Event("access", u) \in soon' <=> Event("access", u) \in soon
    BY <1>1, <2>1, EventEq
  <2>8. Places'
    <3>1. soon' \subseteq soon \cup {Event("endResponse", t)} \cup
                        {Event("accept", u) : u \in Trans}
      BY <2>1, <2>3
    <3>2. /\ \A u \in Trans : Event("accept", u) \in {Event(th, x) : th \in Threads, x \in Trans}
          /\ Event("endResponse", t) \in {Event(th, x) : th \in Threads, x \in Trans}
      BY DEF Threads
    <3>3. now' \subseteq now /\ later' = later
      BY <1>1
    <3> QED BY <3>1, <3>2, <3>3 DEF IInv, Kinds, Places
  <2>9. EventTypes'
    BY <2>8, PlacesTypes, PTL
  <2>10. /\ \A d \in CPUs : Len(fifo'[d]) <= 1 /\ \A i \in DOMAIN fifo'[d] : fifo'[d][i] \in Trans
         /\ \A d \in CPUs : \A i \in DOMAIN fifo'[d] :
              fifo'[d][i].master = d /\ HasValue(fifo'[d][i])
    <3>1. ASSUME NEW d \in CPUs, d # c
          PROVE  /\ Len(fifo'[d]) <= 1
                 /\ \A i \in DOMAIN fifo'[d] :
                       /\ fifo'[d][i] \in Trans /\ fifo'[d][i].master = d
                       /\ HasValue(fifo'[d][i])
      BY <2>5, <3>1 DEF IInv, Kinds, TypeOK
    <3>2. fifo'[c] = <<>> /\ Len(<<>>) = 0 /\ DOMAIN <<>> = {}
      BY <2>5
    <3> QED BY <3>1, <3>2
  <2>11. Len(flight') <= 2
    <3>1. Len(flight') \in Nat /\ Len(flight') <= 1
      BY <1>4
    <3> QED BY <3>1
  <2>12. TypeOK'
    BY <1>1, <2>5, <2>6, <2>9, <2>10, <2>11 DEF IInv, Kinds, TypeOK, EventTypes, arbiter
  <2>13. \A d \in CPUs : active'[d] # NoTrans => active'[d].master = d /\ HasValue(active'[d])
    BY <2>3, <2>4, <2>5 DEF IInv, Kinds
  <2>14. Kinds'
    BY <1>4, <1>8, <2>5, <2>8, <2>10, <2>12, <2>13 DEF Kinds, IInv
  <2>15. \A m \in Masters \ {c} : (Open(m)' <=> Open(m)) /\ Current(m)' = Current(m)
    BY <1>8, <2>5 DEF Open, Current, FrameTrans, Masters
  <2>16. ~Open(c)
    BY <2>0, <2>1 DEF Open
  <2>17. /\ request[c] = NoTrans /\ ~Carried(c)
         /\ \A u \in Trans : u.master = c => Event("accept", u) \notin now \cup soon
    BY <2>0, <2>16, Idle
  <2>18. next # NoTrans => Open(c)' /\ Current(c)' = next
    BY <2>0, <2>5 DEF Open, Current
  <2>19. \A u \in Flying : u.master = c => u = t
    BY <2>0, <2>1, <2>16 DEF IInv, Flights
  <2>20. Asks'
    BY <1>5, <1>6, <1>8, <2>3, <2>4, <2>7, <2>15, <2>17, <2>18 DEF Asks, IInv
  <2>21. Requests'
    BY <1>6, <1>8, <2>15, <2>17 DEF Requests, IInv
  <2>22. Flights'
    BY <1>4, <1>5, <1>6, <1>9, <2>5, <2>15, <2>19 DEF Flights, IInv
  <2>23. Accesses'
    BY <2>1, <2>4, <2>5, <2>7 DEF Accesses, IInv
  <2> QED BY <1>4, <2>14, <2>20, <2>21, <2>22, <2>23 DEF IInv
<1>11. CASE c \notin CPUs
  <2>1. /\ soon' = soon \cup {Event("endResponse", t)}
        /\ UNCHANGED <<copy, buf, fifo, active, phase>>
    BY <1>11 DEF MasterResponseThread, Notify
  <2>2. Places'
    <3>1. Places
      BY DEF IInv, Kinds
    <3> QED BY <1>1, <2>1, <3>1 DEF Places, Threads
  <2>3. EventTypes'
    BY <2>2, PlacesTypes, PTL
  <2>4. Len(flight') <= 2
    <3>1. Len(flight') \in Nat /\ Len(flight') <= 1
      BY <1>4
    <3> QED BY <3>1
  <2>5. TypeOK'
    BY <1>1, <2>1, <2>3, <2>4 DEF IInv, Kinds, TypeOK, EventTypes, arbiter
  <2>6. Kinds'
    BY <1>4, <1>8, <2>1, <2>2, <2>5 DEF IInv, Kinds
  <2>7. \A u \in Trans : /\ Event("accept", u) \in now' <=> Event("accept", u) \in now
                         /\ Event("accept", u) \in soon' <=> Event("accept", u) \in soon
                         /\ Event("access", u) \in now' <=> Event("access", u) \in now
                         /\ Event("access", u) \in soon' <=> Event("access", u) \in soon
    BY <1>1, <2>1, EventEq
  <2>8. \A m \in Masters : (Open(m)' <=> Open(m)) /\ Current(m)' = Current(m)
    BY <1>8, <2>1 DEF Open, Current, FrameTrans
  <2>9. Asks'
    BY <1>5, <1>6, <1>8, <2>7, <2>8 DEF Asks, IInv
  <2>10. Requests'
    BY <1>6, <1>8, <2>8 DEF Requests, IInv
  <2>11. Flights'
    BY <1>4, <1>5, <1>6, <1>9, <2>1, <2>8 DEF Flights, IInv
  <2>12. Accesses'
    BY <2>1, <2>7 DEF Accesses, IInv
  <2> QED BY <1>4, <2>6, <2>9, <2>10, <2>11, <2>12 DEF IInv
<1> QED BY <1>10, <1>11

-----------------------------------------------------------------------------
(* The delta cycles, the arbiter and the clock                             *)

\* A delta cycle keeps the invariant: two transfers never overlap in one.
LEMMA DeltaKept == ASSUME IInv, Delta PROVE IInv'
<1>1. /\ now = {} /\ now' = soon /\ soon' = {}
      /\ UNCHANGED <<cpus, buf, frame, request, arbiter, mem, later, flight>>
  BY DEF Delta
<1>2. Flying' = Flying /\ Flying \subseteq Trans
  BY <1>1 DEF Flying, IInv, Kinds
<1>3. \A t \in Trans : /\ Past(t)' <=> Past(t)
                       /\ Running(t) => Running(t)'
                       /\ Quiet(t) => Quiet(t)'
                       /\ ~Ending(t)
  <2>1. later' = later
    BY <1>1
  <2> QED BY <1>1, <2>1, DeltaMoves
<1>4. Courses'
  BY <1>2, <1>3 DEF IInv, Courses, Course
<1>5. Overlap'
  <2>1. Len(flight) = 2 => flight[1] \in Trans
    <3>1. flight \in Seq(Trans)
      BY DEF IInv, Kinds
    <3> QED BY <3>1
  <2> QED BY <1>1, <1>3, <2>1 DEF IInv, Overlap
<1>6. Owned'
  BY <1>1, <1>2, <1>3 DEF IInv, Owned, arbiter
<1>7. Places'
  <2>1. Places
    BY DEF IInv, Kinds
  <2> QED BY <1>1, <2>1 DEF Places
<1>8. Kinds'
  BY <1>1, <1>7, KindsStill DEF IInv, Kinds, TypeOK, cpus, caches, arbiter
<1>9. Asks' /\ Requests' /\ Flights' /\ Accesses'
  <2>1. \A t \in Trans :
           Event("masterResponse", t) \in now => Event("masterResponse", t) \in now'
    BY <1>1
  <2> QED BY <1>1, <1>3, <2>1, MastersStill DEF IInv, Kinds, cpus
<1> QED BY <1>4, <1>5, <1>6, <1>8, <1>9 DEF IInv

\* Between two delta cycles nothing but the next clock ends a transfer.
LEMMA AtClock ==
    ASSUME IInv, now = {}, soon = {}
    PROVE  /\ Len(flight) <= 1 /\ Flying \subseteq Trans
           /\ \A t \in Flying : Running(t)
           /\ owner = None => \A t \in Flying : Past(t)
           /\ \A t \in Trans \ Flying : Quiet(t)
<1>1. \A t \in Trans : ~Ending(t)
  BY DEF Ending, Sole, AnswerThreads
<1>2. Flying \subseteq Trans
  BY DEF Flying, IInv, Kinds
<1>3. \A t \in Flying : Running(t)
  BY <1>1, <1>2 DEF IInv, Courses, Course
<1>4. Len(flight) # 2
  <2>1. Len(flight) = 2 => flight[1] \in Trans
    <3>1. flight \in Seq(Trans)
      BY DEF IInv, Kinds
    <3> QED BY <3>1
  <2> QED BY <1>1, <2>1 DEF IInv, Overlap
<1>5. Len(flight) <= 1
  <2> DEFINE n == Len(flight)
  <2>1. n \in Nat /\ n <= 2 /\ n # 2
    BY <1>4 DEF IInv, Kinds, TypeOK
  <2> HIDE DEF n
  <2>2. n <= 1
    BY <2>1
  <2> QED BY <2>2 DEF n
<1> QED BY <1>2, <1>3, <1>5 DEF IInv, Owned, Courses

\* The interrupt of the AHBIn ends with the clock it came in.
LEMMA Pulse ==
    ASSUME IInv, NEW pending, Advance(pending)
    PROVE  /\ frame' \in [state : {"writing", "pulse", "waiting"},
                          word : DOMAIN FrameLines, val : Values \cup {NoVal}]
           /\ frame.state = "writing" => frame' = frame
           /\ frame.state # "writing" => frame'.state = "waiting"
<1>1. 1 \in DOMAIN FrameLines
  BY AhbBusAssumption
<1> QED BY <1>1 DEF IInv, Kinds, TypeOK, Advance

\* What a clock brings is what was on its way, of the threads that wait for clocks.
LEMMA AdvancePlaces ==
    ASSUME NEW pending, Advance(pending), soon' = {},
           pending \subseteq {At(Event(th, t), k) : th \in Delayed, t \in Trans, k \in Clocks}
    PROVE  /\ Places'
           /\ \A t : Event("accept", t) \notin now' /\ Event("access", t) \notin now'
<1> DEFINE es == {Event(th, t) : th \in Delayed, t \in Trans}
<1>1. ASSUME NEW x \in pending PROVE \E e \in es, k \in Clocks : x = At(e, k)
  OBVIOUS
<1>2. later' \subseteq {At(Event(th, t), k) : th \in Delayed, t \in Trans, k \in Clocks}
  <2>1. ASSUME NEW x \in later'
        PROVE  \E e \in es, k \in Clocks : x = At(e, k)
    <3>1. PICK y \in pending : y.clocks > 1 /\ x = [y EXCEPT !.clocks = @ - 1]
      BY <2>1 DEF Advance
    <3>2. PICK e \in es, k \in Clocks : y = At(e, k)
      BY <1>1
    <3>3. x = At(e, k - 1) /\ k > 1
      BY <3>1, <3>2, AtFields DEF At
    <3>4. k - 1 \in Clocks
      BY <3>3, AhbBusAssumption DEF Clocks
    <3> QED BY <3>3, <3>4
  <2> QED BY <2>1
<1>3. now' \subseteq es
  <2>1. ASSUME NEW e \in now' PROVE e \in es
    <3>1. PICK y \in pending : e = y.event
      BY <2>1 DEF Advance
    <3> QED BY <1>1, <3>1, AtFields
  <2> QED BY <2>1
<1>4. Delayed \subseteq Threads /\ "accept" \notin Delayed /\ "access" \notin Delayed
  BY DEF Delayed, AnswerThreads, Threads
<1>5. \A t : Event("accept", t) \notin es /\ Event("access", t) \notin es
  BY <1>4, EventEq
<1>6. Places'
  BY <1>2, <1>3, <1>4 DEF Places
<1> QED BY <1>3, <1>5, <1>6

\* The clock leaves what a master is doing as it is.
LEMMA AdvanceOpen ==
    ASSUME IInv, NEW pending, Advance(pending), active' = active, phase' = phase
    PROVE  \A m : Open(m) => Open(m)' /\ Current(m)' = Current(m)
BY Pulse DEF Open, Current, FrameTrans

\* A clock in which the bus is not granted keeps the invariant.
LEMMA NoGrantKept == ASSUME IInv, NoGrant PROVE IInv'
<1>1. /\ now = {} /\ soon = {} /\ soon' = {} /\ Advance(later)
      /\ UNCHANGED <<cpus, buf, request, arbiter, mem, soon, flight>>
  BY DEF NoGrant
<1> DEFINE es == {Event(th, t) : th \in Delayed, t \in Trans}
<1>2. later \subseteq {At(e, k) : e \in es, k \in Clocks}
  BY DEF IInv, Kinds, Places
<1> HIDE DEF es
<1>3. /\ Len(flight) <= 1 /\ Flying \subseteq Trans
      /\ \A t \in Flying : Running(t)
      /\ owner = None => \A t \in Flying : Past(t)
      /\ \A t \in Trans \ Flying : Quiet(t)
  BY <1>1, AtClock
<1>4. \A t \in Trans : /\ Running(t) \/ Quiet(t) => (Past(t)' <=> Past(t))
                       /\ Running(t) /\ ~Past(t) => Running(t)'
                       /\ Running(t) /\ Past(t) => Ending(t)'
                       /\ Quiet(t) => Quiet(t)'
  BY <1>1, <1>2, ClockMoves
<1>5. Flying' = Flying
  BY <1>1 DEF Flying
<1>6. Courses'
  BY <1>3, <1>4, <1>5 DEF Courses, Course
<1>7. \A t \in Trans : Past(t)' <=> Past(t)
  BY <1>3, <1>4
<1>8. Overlap'
  BY <1>1, <1>3 DEF Overlap
<1>9. Owned'
  BY <1>1, <1>3, <1>5, <1>7 DEF Owned, arbiter
<1>10. /\ frame' \in [state : {"writing", "pulse", "waiting"},
                      word : DOMAIN FrameLines, val : Values \cup {NoVal}]
       /\ frame.state = "writing" => frame' = frame
       /\ frame.state # "writing" => frame'.state = "waiting"
  BY <1>1, Pulse
<1>12. /\ Places'
       /\ \A t : Event("accept", t) \notin now' /\ Event("access", t) \notin now'
  BY <1>1, AdvancePlaces DEF IInv, Kinds, Places
<1>13. Kinds'
  <2>1. EventTypes'
    BY <1>12, PlacesTypes, PTL
  <2>2. TypeOK'
    BY <1>1, <1>10, <2>1 DEF IInv, Kinds, TypeOK, EventTypes, cpus, caches, arbiter
  <2>3. frame'.state = "writing" => frame'.val \in Values
    BY <1>10 DEF IInv, Kinds
  <2> QED BY <1>1, <1>12, <2>2, <2>3 DEF IInv, Kinds, cpus
<1>14. \A m : Open(m) => Open(m)' /\ Current(m)' = Current(m)
  BY <1>1, AdvanceOpen DEF cpus
<1>15. Asks' /\ Accesses'
  BY <1>1, <1>12 DEF Asks, Accesses
<1>16. \A m : Carried(m)' <=> Carried(m)
  BY <1>3, <1>5, <1>7 DEF Carried
<1>17. Requests'
  BY <1>1, <1>14, <1>16 DEF IInv, Requests
<1>18. Flights'
  <2>1. \A t \in Flying : Past(t) => LastWord(t)'
    BY <1>3, <1>4 DEF Ending, Sole, AnswerThreads, LastWord
  <2> QED BY <1>1, <1>3, <1>5, <1>7, <1>14, <2>1 DEF IInv, Flights, cpus
<1> QED BY <1>6, <1>8, <1>9, <1>13, <1>15, <1>17, <1>18 DEF IInv

\* A non-empty set of naturals has a smallest element.
LEMMA SmallestExists ==
    ASSUME NEW S \in SUBSET Nat, S # {}
    PROVE  \E x \in S : \A y \in S : x <= y
<1>1. PICK x \in S : \A y \in S : ~(<<y, x>> \in OpToRel(<, Nat))
  BY NatLessThanWellFounded, WFMin
<1>2. ASSUME NEW y \in S PROVE x <= y
  <2>1. <<y, x>> \notin OpToRel(<, Nat)
    BY <1>1
  <2>2. ~(y < x)
    BY <2>1 DEF OpToRel
  <2> QED BY <2>2
<1> QED BY <1>2

\* Both ways to arbitrate choose one of the masters that may be granted the bus.
LEMMA FirstAmong ==
    ASSUME robin \in Masters, NEW ms \in SUBSET Masters, ms # {}
    PROVE  First(ms) \in ms
<1> DEFINE n == Cardinality(Masters)
<1>1. n \in Nat /\ Masters = 0..(n - 1)
  BY AhbBusAssumption, FS_CardinalityType
<1> HIDE DEF n
<1>2. n > 0 /\ robin \in 0..(n - 1)
  BY <1>1
<1>3. CASE RoundRobin
  <2>1. \A m \in ms : Distance(m) \in Nat
    <3>1. ASSUME NEW m \in ms PROVE (m - robin - 1) % n \in Nat
      BY <1>1, <1>2
    <3> QED BY <3>1 DEF Distance, n
  <2>2. PICK d \in {Distance(m) : m \in ms} : \A e \in {Distance(m) : m \in ms} : d <= e
    <3>1. {Distance(m) : m \in ms} \in SUBSET Nat /\ {Distance(m) : m \in ms} # {}
      BY <2>1
    <3> QED BY <3>1, SmallestExists
  <2>3. \E m \in ms : \A o \in ms : Distance(m) <= Distance(o)
    BY <2>2
  <2> QED BY <1>3, <2>3 DEF First
<1>4. CASE ~RoundRobin
  <2> DEFINE T == {n - m : m \in ms}
  <2>1. T \in SUBSET Nat /\ T # {}
    <3>1. ASSUME NEW m \in ms PROVE n - m \in Nat
      <4>1. m \in 0..(n - 1)
        BY <1>1
      <4> QED BY <1>1, <4>1
    <3> QED BY <3>1
  <2>2. PICK d \in T : \A e \in T : d <= e
    <3> HIDE DEF T
    <3> QED BY <2>1, SmallestExists
  <2>3. PICK m \in ms : d = n - m
    OBVIOUS
  <2>4. \A o \in ms : n - m <= n - o
    BY <2>2, <2>3
  <2>5. \A o \in ms : m >= o
    BY <1>1, <2>4
  <2> QED BY <1>4, <2>5 DEF First
<1> QED BY <1>3, <1>4

\* The bus is granted to a master that wants it, and that has locked it if one has.
LEMMA GrantedAsked ==
    ASSUME IInv, NEW m \in Masters, Grant(m)
    PROVE  /\ request[m] \in Trans /\ request[m].master = m /\ locked \in {None, m}
           /\ Open(m) /\ request[m] = Current(m) /\ Decoded(request[m])
           /\ request[m] \notin Flying
<1>1. Candidates \subseteq Masters /\ Candidates # {} /\ robin \in Masters
  BY DEF Grant, Candidates, Wanted, IInv, Kinds, TypeOK
<1>2. m \in Candidates
  BY <1>1, FirstAmong DEF Grant
<1>3. request[m] # NoTrans /\ locked \in {None, m}
  BY <1>2 DEF Candidates, Wanted
<1>4. /\ Open(m) /\ request[m] = Current(m) /\ Decoded(request[m]) /\ ~Carried(m)
      /\ request[m] \in Trans
  BY <1>3 DEF IInv, Requests, Kinds, TypeOK
<1>5. request[m].master = m
  <2>1. CASE m = In
    BY <1>4, <2>1 DEF Current, FrameTrans
  <2>2. CASE m # In
    BY <1>4, <2>2 DEF Current, Open, IInv, Kinds, Masters
  <2> QED BY <2>1, <2>2
<1>6. ASSUME request[m] \in Flying PROVE FALSE
  <2>1. Past(request[m])
    BY <1>4, <1>5, <1>6 DEF Carried
  <2>2. CASE m = In
    <3>1. frame.state = "writing" /\ request[m] = FrameTrans(frame) /\ now = {}
      BY <1>4, <2>2 DEF Open, Current, Grant
    <3>2. LastWord(request[m])
      BY <1>5, <1>6, <2>1, <2>2 DEF IInv, Flights
    <3>3. frame.word > 1 /\ FrameLines[frame.word] = FrameLines[frame.word - 1]
      BY <3>1, <3>2 DEF LastWord, FrameTrans
    <3>4. /\ frame.word \in DOMAIN FrameLines /\ DOMAIN FrameLines = 1..Len(FrameLines)
          /\ Len(FrameLines) \in Nat
      BY AhbBusAssumption DEF IInv, Kinds, TypeOK
    <3>5. frame.word - 1 \in DOMAIN FrameLines /\ frame.word # frame.word - 1
      BY <3>3, <3>4
    <3> QED BY <3>3, <3>4, <3>5, WordsDiffer
  <2>3. CASE m # In
    <3>1. phase[m] = "request" /\ m \in CPUs
      BY <1>4, <2>3 DEF Open, Masters
    <3> QED BY <1>5, <1>6, <2>1, <3>1 DEF IInv, Flights
  <2> QED BY <2>2, <2>3
<1> QED BY <1>3, <1>4, <1>5, <1>6

\* A grant keeps the invariant: the transfer before it, if there is one, ends with the
\* same clock.
LEMMA GrantKept ==
    ASSUME IInv, NEW m \in Masters, Grant(m), NEW t, t = request[m]
    PROVE  IInv'
<1> DEFINE pending == later \cup Answers(t)
<1>1. /\ now = {} /\ soon = {} /\ soon' = {} /\ owner = None /\ Advance(pending)
      /\ UNCHANGED <<cpus, dataBus, soon>>
      /\ owner' = m /\ request' = [request EXCEPT ![m] = NoTrans]
      /\ locked' = IF t.lock THEN m ELSE None
      /\ robin' = IF RoundRobin /\ locked = None THEN m ELSE robin
      /\ Carry(t) /\ flight' = Append(flight, t)
  BY DEF Grant, Granted, BusFree
<1>2. /\ t \in Trans /\ t.master = m /\ Open(m) /\ t = Current(m) /\ Decoded(t)
      /\ t \notin Flying
  BY GrantedAsked
<1>3. /\ Len(flight) <= 1 /\ Flying \subseteq Trans
      /\ \A u \in Flying : Running(u)
      /\ \A u \in Flying : Past(u)
      /\ \A u \in Trans \ Flying : Quiet(u)
  BY <1>1, AtClock
<1>4. pending \subseteq {At(Event(th, u), k) : th \in Delayed, u \in Trans, k \in Clocks}
  <2>1. Answers(t) \subseteq {At(e, k) : e \in {Event(th, t) : th \in Delayed}, k \in Clocks}
    BY <1>2, AnswersAt
  <2>2. \A x \in Answers(t) : \E th \in Delayed, k \in Clocks : x = At(Event(th, t), k)
    BY <2>1
  <2>3. \A x \in Answers(t) :
           x \in {At(Event(th, u), k) : th \in Delayed, u \in Trans, k \in Clocks}
    BY <1>2, <2>2
  <2> QED BY <2>3 DEF IInv, Kinds, Places
<1>5. /\ Running(t)' /\ ~Past(t)' /\ Fresh(t)'
      /\ \A u \in Trans \ {t} :
            /\ Running(u) \/ Quiet(u) => (Past(u)' <=> Past(u))
            /\ Running(u) /\ Past(u) => Ending(u)'
            /\ Quiet(u) => Quiet(u)'
  <2> DEFINE es == {Event(th, u) : th \in Delayed, u \in Trans}
  <2>1. later \subseteq {At(e, k) : e \in es, k \in Clocks}
    BY DEF IInv, Kinds, Places
  <2> HIDE DEF es
  <2>2. Quiet(t) /\ t \in Trans
    BY <1>2, <1>3
  <2>3. Advance(later \cup Answers(t)) /\ now = {} /\ soon = {} /\ soon' = {}
    BY <1>1
  <2> HIDE DEF pending
  <2> QED BY <2>1, <2>2, <2>3, GrantMoves
<1>6. /\ flight' \in Seq(Trans) /\ Len(flight') <= 2 /\ Flying' = Flying \cup {t}
      /\ Len(flight') = 2 => flight'[1] \in Flying /\ flight'[2] = t
  <2> DEFINE n == Len(flight)
  <2>1. flight \in Seq(Trans)
    BY DEF IInv, Kinds
  <2>2. /\ n \in Nat /\ n <= 1 /\ DOMAIN flight = 1..n
        /\ flight' \in Seq(Trans) /\ Len(flight') = n + 1 /\ DOMAIN flight' = 1..(n + 1)
        /\ flight'[n + 1] = t /\ \A i \in 1..n : flight'[i] = flight[i]
    BY <1>1, <1>2, <1>3, <2>1
  <2> HIDE DEF n
  <2>3. Flying' = Flying \cup {t}
    <3>1. \A i \in DOMAIN flight' : flight'[i] \in Flying \cup {t}
      BY <2>2 DEF Flying
    <3>2. \A i \in DOMAIN flight : i \in DOMAIN flight' /\ flight'[i] = flight[i]
      BY <2>2
    <3>3. n + 1 \in DOMAIN flight'
      BY <2>2
    <3> QED BY <2>2, <3>1, <3>2, <3>3 DEF Flying
  <2>4. n + 1 = 2 => n = 1 /\ flight'[1] \in Flying /\ flight'[2] = t
    BY <2>2 DEF Flying
  <2>5. n + 1 <= 2
    BY <2>2
  <2> QED BY <2>2, <2>3, <2>4, <2>5
<1>7. Courses'
  BY <1>2, <1>3, <1>5, <1>6 DEF Courses, Course
<1>8. Overlap'
  BY <1>2, <1>3, <1>5, <1>6 DEF Overlap
<1>9. Owned'
  BY <1>1, AhbBusAssumption DEF Owned
<1>10. /\ Places'
       /\ \A u : Event("accept", u) \notin now' /\ Event("access", u) \notin now'
  <2> HIDE DEF pending
  <2> QED BY <1>1, <1>4, AdvancePlaces
<1>11. frame' \in [state : {"writing", "pulse", "waiting"},
                   word : DOMAIN FrameLines, val : Values \cup {NoVal}]
  BY <1>1, Pulse
<1>12. mem' \in [Lines -> Values] /\ buf' \in [CPUs -> Values \cup {NoVal}]
  <2>1. HasValue(t)
    <3>1. CASE m = In
      BY <1>2, <3>1 DEF Open, Current, FrameTrans, HasValue, IInv, Kinds
    <3>2. CASE m # In
      BY <1>2, <3>2 DEF Open, Current, IInv, Kinds, Masters
    <3> QED BY <3>1, <3>2
  <2>2. /\ mem \in [Lines -> Values] /\ buf \in [CPUs -> Values \cup {NoVal}]
        /\ t.line \in Lines => mem[t.line] \in Values
    BY DEF IInv, Kinds, TypeOK
  <2>3. mem' \in [Lines -> Values]
    BY <1>1, <2>1, <2>2 DEF Carry, HasValue
  <2>4. buf' \in [CPUs -> Values \cup {NoVal}]
    <3> DEFINE read == IF t.line \in Lines THEN mem[t.line] ELSE NoVal
    <3>1. read \in Values \cup {NoVal}
      BY <2>2
    <3>2. buf' = buf \/ buf' = [buf EXCEPT ![t.master] = read]
      BY <1>1 DEF Carry
    <3> HIDE DEF read
    <3> QED BY <2>2, <3>1, <3>2
  <2> QED BY <2>3, <2>4
<1>13. request' \in [Masters -> Trans \cup {NoTrans}]
  BY <1>1 DEF IInv, Kinds, TypeOK
<1>14. Kinds'
  <2>1. EventTypes'
    BY <1>10, PlacesTypes, PTL
  <2>2. owner' \in Masters \cup {None} /\ locked' \in Masters \cup {None} /\ robin' \in Masters
    BY <1>1 DEF IInv, Kinds, TypeOK
  <2>3. TypeOK'
    BY <1>1, <1>6, <1>11, <1>12, <1>13, <2>1, <2>2 DEF IInv, Kinds, TypeOK, EventTypes, cpus, caches
  <2>4. frame'.state = "writing" => frame'.val \in Values
    BY <1>1, Pulse DEF IInv, Kinds
  <2> QED BY <1>1, <1>6, <1>10, <2>3, <2>4 DEF IInv, Kinds, cpus
<1>15. \A l : Open(l) => Open(l)' /\ Current(l)' = Current(l)
  <2> HIDE DEF pending
  <2> QED BY <1>1, AdvanceOpen DEF cpus
<1>16. Asks' /\ Accesses'
  BY <1>1, <1>10 DEF Asks, Accesses
<1>17. \A u \in Flying : Past(u)'
  BY <1>2, <1>3, <1>5
<1>18. Requests'
  <2>1. \A l \in Masters : request'[l] = IF l = m THEN NoTrans ELSE request[l]
    BY <1>1 DEF IInv, Kinds, TypeOK
  <2>2. \A l \in Masters : l # m => ~Carried(l)'
    BY <1>2, <1>6, <1>17 DEF Carried
  <2> QED BY <1>15, <2>1, <2>2 DEF IInv, Requests
<1>19. Flights'
  <2>1. \A u \in Flying : LastWord(u)'
    BY <1>2, <1>3, <1>5 DEF Ending, Sole, AnswerThreads, LastWord
  <2>2. \A u \in Flying : /\ Decoded(u)
                          /\ u.master \in CPUs => phase[u.master] = "response" /\ u = active[u.master]
    BY <1>3 DEF IInv, Flights
  <2>3. phase' = phase /\ active' = active
    BY <1>1 DEF cpus
  <2>4. ASSUME NEW u \in Flying
        PROVE  /\ u \in Trans /\ Decoded(u)' /\ Past(u)' /\ LastWord(u)'
               /\ u.master \in CPUs => phase'[u.master] = "response" /\ u = active'[u.master]
    <3>1. u \in Trans /\ Past(u)' /\ LastWord(u)'
      BY <1>3, <1>17, <2>1
    <3>2. Decoded(u)'
      BY <2>2 DEF Decoded
    <3> QED BY <2>2, <2>3, <3>1, <3>2
  <2>5. t \in Trans /\ Decoded(t)' /\ ~Past(t)' /\ Open(t.master)' /\ t = Current(t.master)'
    BY <1>2, <1>5, <1>15 DEF Decoded
  <2> QED BY <1>6, <2>4, <2>5 DEF Flights
<1> QED BY <1>7, <1>8, <1>9, <1>14, <1>16, <1>18, <1>19 DEF IInv

-----------------------------------------------------------------------------
(* The processors and the frame generator                                  *)

\* What a processor posts waits in the fifo, and wakes mem_access if that waits too.
LEMMA PostKept ==
    ASSUME IInv, NEW c \in CPUs, Runs(c),
           NEW cmd \in {"read", "write"}, NEW l \in Lines \cup {Pnp, Unmapped},
           NEW val \in Values \cup {NoVal}, NEW lock \in BOOLEAN,
           Post(c, cmd, l, val, lock), cmd = "write" => val \in Values,
           copy' \in [CPUs -> [Lines -> Values \cup {NoVal}]],
           rmw' \in [CPUs -> [line : Lines, val : Values] \cup {NoRmw}]
    PROVE  IInv'
<1>1. PICK t : t = [master |-> c, cmd |-> cmd, line |-> l, val |-> val, lock |-> lock,
                    words |-> IF cmd = "read" /\ l \in Cached THEN LineWords ELSE 1]
  OBVIOUS
<1>2. t \in Trans /\ t.master = c /\ c \in Masters /\ c # In /\ HasValue(t)
  BY <1>1, AhbBusAssumption DEF Trans, Masters, HasValue
<1>3. now = {} /\ fifo[c] = <<>>
  BY DEF Runs
<1>4. /\ fifo \in [CPUs -> Seq(Trans)] /\ active \in [CPUs -> Trans \cup {NoTrans}]
      /\ \A d \in CPUs : Len(fifo[d]) <= 1
  BY DEF IInv, Kinds, TypeOK
<1>5. /\ fifo' = [fifo EXCEPT ![c] = <<t>>]
      /\ soon' = IF active[c] = NoTrans THEN soon \cup {Event("access", fifo'[c][1])} ELSE soon
      /\ UNCHANGED <<active, phase, buf, frame, request, arbiter, mem, now, later, flight>>
  BY <1>1 DEF Post
<1>6. /\ fifo' \in [CPUs -> Seq(Trans)] /\ fifo'[c] = <<t>> /\ fifo'[c][1] = t
      /\ \A d \in CPUs \ {c} : fifo'[d] = fifo[d]
  <2>1. <<t>> \in Seq(Trans)
    BY <1>2
  <2>2. fifo'[c] = <<t>>
    BY <1>4, <1>5
  <2> QED BY <1>4, <1>5, <2>1, <2>2
<1>7. soon' = IF active[c] = NoTrans THEN soon \cup {Event("access", t)} ELSE soon
  BY <1>5, <1>6
<1>8. \A u \in Trans : Same(AddressThreads, u) /\ Same(AnswerThreads, u)
  BY <1>5, <1>7, EventEq DEF Same, AddressThreads, AnswerThreads
<1>9. Places'
  <2>1. Places /\ "access" \in Threads
    BY DEF IInv, Kinds, Threads
  <2> QED BY <1>2, <1>5, <1>7, <2>1 DEF Places
<1>10. Kinds'
  <2>1. EventTypes'
    BY <1>9, PlacesTypes, PTL
  <2>2. /\ \A d \in CPUs : Len(fifo'[d]) <= 1 /\ \A i \in DOMAIN fifo'[d] : fifo'[d][i] \in Trans
        /\ \A d \in CPUs : \A i \in DOMAIN fifo'[d] :
              fifo'[d][i].master = d /\ HasValue(fifo'[d][i])
    <3>1. ASSUME NEW d \in CPUs, d # c
          PROVE  /\ Len(fifo'[d]) <= 1
                 /\ \A i \in DOMAIN fifo'[d] :
                       /\ fifo'[d][i] \in Trans /\ fifo'[d][i].master = d
                       /\ HasValue(fifo'[d][i])
      BY <1>6, <3>1 DEF IInv, Kinds, TypeOK
    <3>2. /\ Len(fifo'[c]) <= 1
          /\ \A i \in DOMAIN fifo'[c] :
                /\ fifo'[c][i] \in Trans /\ fifo'[c][i].master = c /\ HasValue(fifo'[c][i])
      <4>1. fifo'[c] = <<t>> /\ Len(<<t>>) = 1 /\ DOMAIN <<t>> = {1} /\ <<t>>[1] = t
        BY <1>6
      <4> QED BY <1>2, <4>1
    <3> QED BY <3>1, <3>2
  <2>3. TypeOK'
    BY <1>5, <2>1, <2>2 DEF IInv, Kinds, TypeOK, EventTypes, arbiter
  <2> QED BY <1>5, <1>6, <1>9, <2>2, <2>3 DEF IInv, Kinds
<1>11. Courses' /\ Overlap' /\ Owned' /\ \A u \in Trans : Past(u)' <=> Past(u)
  BY <1>5, <1>8, CoursesStill DEF IInv, Kinds, arbiter
<1>12. \A m : /\ Open(m)' <=> Open(m)
              /\ Current(m)' = Current(m)
  BY <1>5 DEF Open, Current, FrameTrans
<1>13. Flying' = Flying /\ Flying \subseteq Trans /\ \A m : Carried(m)' <=> Carried(m)
  <2>1. Flying' = Flying /\ Flying \subseteq Trans
    BY <1>5 DEF Flying, IInv, Kinds
  <2> QED BY <1>11, <2>1 DEF Carried
<1>14. \A u : /\ Event("accept", u) \in now' <=> Event("accept", u) \in now
              /\ Event("accept", u) \in soon' <=> Event("accept", u) \in soon
              /\ Event("access", u) \notin now'
              /\ Event("access", u) \in soon' <=>
                     Event("access", u) \in soon \/ (active[c] = NoTrans /\ u = t)
  BY <1>3, <1>5, <1>7, EventEq
<1>15. Asks' /\ Requests'
  BY <1>5, <1>12, <1>13, <1>14 DEF IInv, Asks, Requests
<1>16. Flights'
  BY <1>5, <1>11, <1>12, <1>13 DEF IInv, Flights, LastWord
<1>17. Accesses'
  <2>1. ASSUME NEW u \in Trans, Event("access", u) \in soon PROVE u.master # c
    <3>1. fifo[u.master] = <<u>> /\ <<u>> # <<>>
      BY <2>1 DEF IInv, Accesses
    <3> QED BY <1>3, <3>1
  <2> QED BY <1>2, <1>5, <1>6, <1>14, <2>1 DEF IInv, Accesses
<1> QED BY <1>10, <1>11, <1>15, <1>16, <1>17 DEF IInv

\* The instructions of a processor keep the invariant.
LEMMA ProcessorKept == ASSUME IInv, NEW c \in CPUs, Processor(c) PROVE IInv'
<1>1. /\ copy \in [CPUs -> [Lines -> Values \cup {NoVal}]]
      /\ rmw \in [CPUs -> [line : Lines, val : Values] \cup {NoRmw}]
      /\ NoVal \in Values \cup {NoVal}
  BY DEF IInv, Kinds, TypeOK
<1>2. ASSUME NEW l \in Used, LoadMiss(c, l) PROVE IInv'
  <2>1. l \in Lines \cup {Pnp, Unmapped}
    BY AhbBusAssumption
  <2>2. Runs(c) /\ Post(c, "read", l, NoVal, FALSE) /\ copy' = copy /\ rmw' = rmw
    BY <1>2 DEF LoadMiss, caches
  <2> QED BY <1>1, <2>1, <2>2, PostKept
<1>3. ASSUME NEW l \in Lines, NEW v \in Values, StoreThrough(c, l, v),
             rmw' \in [CPUs -> [line : Lines, val : Values] \cup {NoRmw}]
      PROVE  IInv'
  <2>1. Runs(c) /\ Post(c, "write", l, v, FALSE)
    BY <1>3 DEF StoreThrough
  <2>2. copy' \in [CPUs -> [Lines -> Values \cup {NoVal}]]
    BY <1>1, <1>3 DEF StoreThrough
  <2> QED BY <1>3, <2>1, <2>2, PostKept
<1>4. ASSUME NEW l \in Used \cap Lines, NEW v \in Values, SwapLoad(c, l, v) PROVE IInv'
  <2>1. Runs(c) /\ Post(c, "read", l, NoVal, TRUE) /\ copy' = copy
    BY <1>4 DEF SwapLoad
  <2>2. rmw' \in [CPUs -> [line : Lines, val : Values] \cup {NoRmw}]
    BY <1>1, <1>4 DEF SwapLoad
  <2> QED BY <1>1, <2>1, <2>2, PostKept
<1>5. CASE SwapStore(c)
  <2>1. rmw[c].line \in Lines /\ rmw[c].val \in Values
    BY <1>1, <1>5 DEF SwapStore
  <2>2. StoreThrough(c, rmw[c].line, rmw[c].val)
    BY <1>5 DEF SwapStore
  <2>3. rmw' \in [CPUs -> [line : Lines, val : Values] \cup {NoRmw}]
    BY <1>1, <1>5 DEF SwapStore
  <2> QED BY <1>3, <2>1, <2>2, <2>3
<1>6. ASSUME NEW l \in Used \cap Lines, NEW v \in Values, Store(c, l, v) PROVE IInv'
  BY <1>1, <1>3, <1>6 DEF Store
<1> QED BY <1>2, <1>4, <1>5, <1>6 DEF Processor

\* The trigger starts a frame when nothing of the last one is left on the bus.
LEMMA NewFrameKept == ASSUME IInv, NewFrame PROVE IInv'
<1>1. /\ now = {} /\ frame.state = "waiting"
      /\ UNCHANGED <<cpus, buf, request, arbiter, mem, now, later, flight>>
  BY DEF NewFrame
<1>2. PICK v \in Values : frame' = [state |-> "writing", word |-> 1, val |-> v]
  BY DEF NewFrame
<1>3. PICK t : t = FrameTrans(frame')
  OBVIOUS
<1>4. 1 \in DOMAIN FrameLines /\ FrameLines[1] \in Lines /\ In \in Masters
  BY AhbBusAssumption DEF Masters
<1>5. /\ frame' \in [state : {"writing", "pulse", "waiting"},
                     word : DOMAIN FrameLines, val : Values \cup {NoVal}]
      /\ frame'.state = "writing" /\ frame'.val \in Values
  BY <1>2, <1>4
<1>6. t \in Trans /\ t.master = In /\ soon' = soon \cup {Event("accept", t)}
  BY <1>2, <1>3, <1>4 DEF FrameTrans, Trans, NewFrame
<1>7. ~Open(In) /\ Open(In)' /\ Current(In)' = t
  BY <1>1, <1>3, <1>5 DEF Open, Current
<1>8. /\ request[In] = NoTrans /\ ~Carried(In)
      /\ \A u \in Trans : u.master = In => Event("accept", u) \notin now \cup soon
  BY <1>4, <1>7, Idle
<1>9. \A u \in Trans : Same(AddressThreads, u) /\ Same(AnswerThreads, u)
  BY <1>1, <1>6, EventEq DEF Same, AddressThreads, AnswerThreads
<1>10. Places'
  <2>1. Places /\ "accept" \in Threads
    BY DEF IInv, Kinds, Threads
  <2> QED BY <1>1, <1>6, <2>1 DEF Places
<1>11. Kinds'
  <2>1. EventTypes'
    BY <1>10, PlacesTypes, PTL
  <2>2. TypeOK'
    BY <1>1, <1>5, <2>1 DEF IInv, Kinds, TypeOK, EventTypes, cpus, caches, arbiter
  <2> QED BY <1>1, <1>5, <1>10, <2>2 DEF IInv, Kinds, cpus
<1>12. Courses' /\ Overlap' /\ Owned' /\ \A u \in Trans : Past(u)' <=> Past(u)
  BY <1>1, <1>9, CoursesStill DEF IInv, Kinds, arbiter
<1>13. \A m : m # In => (Open(m)' <=> Open(m)) /\ Current(m)' = Current(m)
  BY <1>1 DEF Open, Current, cpus
<1>14. Flying' = Flying /\ Flying \subseteq Trans /\ \A m : Carried(m)' <=> Carried(m)
  <2>1. Flying' = Flying /\ Flying \subseteq Trans
    BY <1>1 DEF Flying, IInv, Kinds
  <2> QED BY <1>12, <2>1 DEF Carried
<1>15. \A u \in Flying : u.master # In
  BY <1>1, <1>7 DEF IInv, Flights, LastWord
<1>16. \A u : /\ Event("accept", u) \notin now'
              /\ Event("accept", u) \in soon' <=> Event("accept", u) \in soon \/ u = t
              /\ Event("access", u) \in now' <=> Event("access", u) \in now
              /\ Event("access", u) \in soon' <=> Event("access", u) \in soon
  BY <1>1, <1>6, EventEq
<1>17. Asks' /\ Requests'
  BY <1>1, <1>6, <1>7, <1>8, <1>13, <1>14, <1>16 DEF IInv, Asks, Requests
<1>18. Flights'
  BY <1>1, <1>12, <1>13, <1>14, <1>15 DEF IInv, Flights, LastWord, cpus
<1>19. Accesses'
  BY <1>1, <1>16 DEF IInv, Accesses, cpus
<1> QED BY <1>11, <1>12, <1>17, <1>18, <1>19 DEF IInv

-----------------------------------------------------------------------------
(* The invariant                                                           *)

\* At the start nothing is due and nothing is under way.
LEMMA InvInit == Init => IInv
<1> SUFFICES ASSUME Init PROVE IInv
  OBVIOUS
<1>1. now = {} /\ soon = {} /\ later = {} /\ flight = <<>> /\ Flying = {}
  BY DEF Init, Flying
<1>2. \A t : Quiet(t)
  BY <1>1 DEF Quiet, Past, Sole, AddressThreads, AnswerThreads
<1>3. 0 \in Masters
  <2> DEFINE n == Cardinality(Masters)
  <2>1. n \in Nat /\ Masters = 0..(n - 1) /\ In \in Masters
    BY AhbBusAssumption, FS_CardinalityType DEF Masters
  <2> HIDE DEF n
  <2> QED BY <2>1
<1>4. frame = [state |-> "waiting", word |-> 1, val |-> NoVal] /\ 1 \in DOMAIN FrameLines
  BY AhbBusAssumption DEF Init
<1>5. fifo = [c \in CPUs |-> <<>>] /\ <<>> \in Seq(Trans) /\ Len(<<>>) = 0 /\ DOMAIN <<>> = {}
  BY DEF Init
<1>6. TypeOK
  <2>1. \A c \in CPUs : Len(fifo[c]) <= 1 /\ \A i \in DOMAIN fifo[c] : fifo[c][i] \in Trans
    BY <1>5
  <2>2. Len(flight) <= 2
    BY <1>1, <1>5
  <2>3. frame \in [state : {"writing", "pulse", "waiting"},
                   word : DOMAIN FrameLines, val : Values \cup {NoVal}]
    BY <1>4
  <2> QED BY <1>1, <1>3, <2>1, <2>2, <2>3 DEF Init, TypeOK
<1>7. Kinds
  BY <1>1, <1>4, <1>5, <1>6 DEF Init, Kinds, Places
<1>8. Courses /\ Overlap /\ Owned
  BY <1>1, <1>2, <1>5 DEF Courses, Overlap, Owned
<1>9. Asks /\ Flights /\ Accesses
  BY <1>1 DEF Asks, Flights, Accesses
<1>10. Requests
  BY DEF Init, Requests
<1> QED BY <1>7, <1>8, <1>9, <1>10 DEF IInv

\* What is due now is a thread and the transfer it is woken for.
LEMMA Woken ==
    ASSUME IInv, NEW e \in now, Thread(e)
    PROVE  \E th \in Threads, t \in Trans :
              /\ e = Event(th, t) /\ Event(th, t) \in now /\ Run(Event(th, t))
              /\ \/ th = "access" /\ AccessThread(t)
                 \/ th = "accept" /\ AcceptThread(t)
                 \/ th = "slaveRequest" /\ SlaveRequestThread(t)
                 \/ th = "slaveResponse" /\ SlaveResponseThread(t)
                 \/ th = "request" /\ RequestThread(t)
                 \/ th = "response" /\ ResponseThread(t)
                 \/ th = "endRequest" /\ EndRequest(t)
                 \/ th = "masterResponse" /\ MasterResponseThread(t)
                 \/ th = "endResponse" /\ EndResponseThread(t)
<1>1. PICK th \in Threads, t \in Trans : e = Event(th, t)
  BY DEF IInv, Kinds, Places
<1>2. e.thread = th /\ e.trans = t
  BY <1>1, EventFields
<1> QED BY <1>1, <1>2 DEF Thread

\* Every thread keeps the invariant.
LEMMA ThreadKept == ASSUME IInv, NEW e \in now, Thread(e) PROVE IInv'
BY Woken, AccessKept, AcceptKept, SlaveRequestKept, SlaveResponseKept, RequestKept,
   ResponseKept, EndRequestKept, MasterResponseKept, EndResponseKept

\* Every step keeps the invariant.
LEMMA InvKept == IInv /\ [Next]_vars => IInv'
<1> SUFFICES ASSUME IInv, [Next]_vars PROVE IInv'
  OBVIOUS
<1>1. ASSUME NEW e \in now, Thread(e) PROVE IInv'
  BY <1>1, ThreadKept
<1>2. CASE Delta
  BY <1>2, DeltaKept
<1>3. ASSUME NEW m \in Masters, Grant(m) PROVE IInv'
  <2>1. PICK t : t = request[m]
    OBVIOUS
  <2> QED BY <1>3, <2>1, GrantKept
<1>4. CASE NoGrant
  BY <1>4, NoGrantKept
<1>5. ASSUME NEW c \in CPUs, Processor(c) PROVE IInv'
  BY <1>5, ProcessorKept
<1>6. CASE NewFrame
  BY <1>6, NewFrameKept
<1>7. CASE UNCHANGED vars
  <2> USE <1>7 DEF vars
  <2>1. Places' /\ Flying' = Flying
    BY DEF IInv, Kinds, Places, Flying
  <2>2. Kinds'
    BY <2>1 DEF IInv, Kinds, TypeOK
  <2>3. \A t : Same(AddressThreads, t) /\ Same(AnswerThreads, t)
    BY DEF Same
  <2>4. /\ Courses' /\ Overlap' /\ Owned'
        /\ \A t \in Trans : Past(t)' <=> Past(t)
    BY <2>3, CoursesStill DEF IInv, Kinds
  <2>5. Asks' /\ Requests' /\ Flights' /\ Accesses'
    BY <2>4, MastersStill DEF IInv, Kinds
  <2> QED BY <2>2, <2>4, <2>5 DEF IInv
<1> QED BY <1>1, <1>2, <1>3, <1>4, <1>5, <1>6, <1>7 DEF Next, Kernel

\* The events of every transfer come in their order, so that its master always waits for
\* the answer it gets; and what the masters ask for is what the bus has.
THEOREM Invariant == Spec => []IInv
<1> QED BY InvInit, InvKept, PTL DEF Spec

\* At most two transfers are under way, whatever the masters ask for.
THEOREM BusTypes == Spec => []TypeOK
<1>1. IInv => TypeOK
  BY DEF IInv, Kinds
<1> QED BY <1>1, Invariant, PTL

-----------------------------------------------------------------------------
(* Coherence                                                               *)

\* a write of another master in its address phase
Foreign(c, l) ==
    \E t \in Flying : t.master # c /\ t.cmd = "write" /\ t.line = l /\ InAddressPhase(t)

\* a store of the processor in its fifo, or not granted yet; a load that is
Queued(c, l) == fifo[c] # <<>> /\ fifo[c][1].cmd = "write" /\ fifo[c][1].line = l
Sending(c, l) ==
    active[c] # NoTrans /\ active[c].cmd = "write" /\ active[c].line = l /\ active[c] \notin Flying
Fetching(c, l) ==
    active[c] # NoTrans /\ active[c].cmd = "read" /\ active[c].line = l /\ active[c] \in Flying

\* a copy holds the last store of its processor, or what the memory holds
Held(c, l) ==
    copy[c][l] # NoVal =>
        /\ Queued(c, l) => copy[c][l] = fifo[c][1].val
        /\ ~Queued(c, l) /\ Sending(c, l) => copy[c][l] = active[c].val
        /\ ~Queued(c, l) /\ ~Sending(c, l) => copy[c][l] = mem[l] \/ Foreign(c, l)

\* so does the buffer of a read
Fetched(c, l) == Fetching(c, l) => buf[c] = mem[l] \/ Foreign(c, l)

Copies == \A c \in CPUs, l \in Lines : Held(c, l) /\ Fetched(c, l)

\* a read blocks the processor, so that nothing comes behind it
Blocked == \A c \in CPUs : active[c] # NoTrans /\ active[c].cmd = "read" => fifo[c] = <<>>

CInv == IInv /\ Blocked /\ Copies

\* An address phase is where its events are.
LEMMA PhaseAt ==
    ASSUME NEW t
    PROVE  InAddressPhase(t) <=>
             \E th \in {"slaveRequest", "request"} :
                \/ Event(th, t) \in now \cup soon
                \/ \E x \in later : x.event = Event(th, t)
BY DEF InAddressPhase, Ends, Due

\* Where the events stay, the address phase goes on or is over as it was.
LEMMA PhaseSame ==
    ASSUME Places, Places', NEW t, Same(AddressThreads, t)
    PROVE  InAddressPhase(t)' <=> InAddressPhase(t)
<1>1. ASSUME NEW th \in {"slaveRequest", "request"}
      PROVE  /\ Event(th, t) \in now' <=> Event(th, t) \in now
             /\ Event(th, t) \in soon' <=> Event(th, t) \in soon
             /\ \A j \in Clocks : At(Event(th, t), j) \in later' <=> At(Event(th, t), j) \in later
  BY DEF Same, AddressThreads
<1>2. ASSUME NEW x \in later PROVE x.clocks \in Clocks /\ x = At(x.event, x.clocks)
  BY AtFields DEF Places
<1>3. ASSUME NEW x \in later' PROVE x.clocks \in Clocks /\ x = At(x.event, x.clocks)
  BY AtFields DEF Places
<1>4. ASSUME NEW th \in {"slaveRequest", "request"}
      PROVE  (\E x \in later : x.event = Event(th, t)) <=> \E x \in later' : x.event = Event(th, t)
  BY <1>1, <1>2, <1>3, AtFields
<1> QED BY <1>1, <1>4 DEF InAddressPhase, Ends, Due

\* A transfer past its address phase is not in it.
LEMMA PastPhase ==
    ASSUME Places, NEW t, Past(t)
    PROVE  ~InAddressPhase(t)
<1>1. ASSUME NEW x \in later PROVE x.clocks \in Clocks /\ x = At(x.event, x.clocks)
  BY AtFields DEF Places
<1> QED BY <1>1, PhaseAt DEF Past, Sole, AddressThreads

\* A step that leaves copies, buffers and transfers alone keeps them coherent.
LEMMA CopiesStill ==
    ASSUME Blocked, Copies, UNCHANGED <<copy, buf, fifo, active, mem, flight>>,
           \A t \in Flying : InAddressPhase(t) => InAddressPhase(t)'
    PROVE  Blocked' /\ Copies'
<1>1. Flying' = Flying
  BY DEF Flying
<1>2. \A c, l : /\ Queued(c, l)' <=> Queued(c, l)
                /\ Sending(c, l)' <=> Sending(c, l)
                /\ Fetching(c, l)' <=> Fetching(c, l)
                /\ Foreign(c, l) => Foreign(c, l)'
  BY <1>1 DEF Queued, Sending, Fetching, Foreign
<1>3. \A c, l : Held(c, l) => Held(c, l)'
  BY <1>2 DEF Held
<1>4. \A c, l : Fetched(c, l) => Fetched(c, l)'
  BY <1>2 DEF Fetched
<1> QED BY <1>3, <1>4 DEF Copies, Blocked

\* When an address phase is over, the copies of the line that was written are dropped, and
\* no other master reads that line meanwhile.
LEMMA RequestCoherent ==
    ASSUME CInv, IInv', NEW t \in Trans, Event("request", t) \in now,
           Run(Event("request", t)), RequestThread(t)
    PROVE  Blocked' /\ Copies'
<1>1. /\ now' = now \ {Event("request", t)} /\ copy' = Snooped(t)
      /\ UNCHANGED <<rmw, fifo, active, phase, buf, frame, request, locked, robin,
                     mem, later, flight>>
  BY DEF Run, RequestThread
<1>2. /\ t \in Flying /\ ~Past(t)
      /\ \A u : u # t => Same(AddressThreads, u)
  BY <1>1, RequestMoves DEF CInv, IInv
<1>3. Flying' = Flying
  BY <1>1 DEF Flying
<1>4. \A u : u # t => (InAddressPhase(u)' <=> InAddressPhase(u))
  BY <1>2, PhaseSame DEF CInv, IInv, Kinds
<1>5. \A c, l : /\ Queued(c, l)' <=> Queued(c, l)
                /\ Sending(c, l)' <=> Sending(c, l)
                /\ Fetching(c, l)' <=> Fetching(c, l)
  BY <1>1, <1>3 DEF Queued, Sending, Fetching
<1>6. \A c, l : Foreign(c, l) /\ ~(t.master # c /\ t.cmd = "write" /\ t.line = l) => Foreign(c, l)'
  BY <1>3, <1>4 DEF Foreign
<1>7. copy \in [CPUs -> [Lines -> Values \cup {NoVal}]]
  BY DEF CInv, IInv, Kinds, TypeOK
<1>8. ASSUME NEW c \in CPUs, NEW l \in Lines, t.master # c, t.cmd = "write", t.line = l
      PROVE  Held(c, l)' /\ Fetched(c, l)'
  <2>1. copy'[c][l] = NoVal
    BY <1>1, <1>7, <1>8 DEF Snooped
  <2>2. ~Fetching(c, l)
    <3>1. SUFFICES ASSUME Fetching(c, l) PROVE FALSE
      OBVIOUS
    <3>2. active[c] \in Flying /\ active[c] # t
      BY <1>8, <3>1 DEF Fetching, CInv, IInv, Kinds
    <3>3. Ending(t) \/ Fresh(t)
      BY <1>2, <3>2, Pair DEF CInv, IInv
    <3>4. t.line # Pnp
      BY <1>8, AhbBusAssumption
    <3> QED BY <1>2, <3>3, <3>4 DEF Ending, Fresh
  <2> QED BY <1>5, <2>1, <2>2 DEF Held, Fetched
<1>9. ASSUME NEW c \in CPUs, NEW l \in Lines, ~(t.master # c /\ t.cmd = "write" /\ t.line = l)
      PROVE  Held(c, l)' /\ Fetched(c, l)'
  <2>1. copy'[c][l] = copy[c][l]
    BY <1>1, <1>7, <1>9 DEF Snooped
  <2>2. Foreign(c, l) => Foreign(c, l)'
    BY <1>6, <1>9
  <2>3. Held(c, l) /\ Fetched(c, l)
    BY DEF CInv, Copies
  <2>4. UNCHANGED <<fifo, active, buf, mem>>
    BY <1>1
  <2>5. Held(c, l)'
    BY <1>5, <2>1, <2>2, <2>3, <2>4 DEF Held
  <2>6. Fetched(c, l)'
    BY <1>5, <2>2, <2>3, <2>4 DEF Fetched
  <2> QED BY <2>5, <2>6
<1>10. Copies'
  BY <1>8, <1>9 DEF Copies
<1>11. Blocked'
  BY <1>1 DEF CInv, Blocked
<1> QED BY <1>10, <1>11

\* What mem_access takes out of the fifo is the store the copy has seen.
LEMMA AccessCoherent ==
    ASSUME CInv, IInv', NEW t \in Trans, Event("access", t) \in now,
           Run(Event("access", t)), AccessThread(t)
    PROVE  Blocked' /\ Copies'
<1> DEFINE c == t.master
<1>1. /\ c \in CPUs /\ active[c] = NoTrans /\ fifo[c] = <<t>> /\ fifo[c][1] = t
  BY DEF CInv, IInv, Accesses
<1>2. \A u \in Flying : u.master # c
  BY <1>1, AhbBusAssumption, AhbBusNothings DEF Open, CInv, IInv, Flights
<1>3. /\ active' = [active EXCEPT ![c] = t]
      /\ fifo' = [fifo EXCEPT ![c] = <<>>]
      /\ now' = now \ {Event("access", t)} /\ soon' = soon \cup {Event("accept", t)}
      /\ UNCHANGED <<caches, buf, frame, request, arbiter, mem, later, flight>>
  BY <1>1 DEF Run, AccessThread, Take, Notify
<1>4. Flying' = Flying /\ t \notin Flying /\ t # NoTrans
  BY <1>2, <1>3, AhbBusNothings DEF Flying
<1> HIDE DEF c
<1>5. \A u : Same(AddressThreads, u)
  BY <1>3, EventEq DEF Same, AddressThreads
<1>6. \A u : InAddressPhase(u)' <=> InAddressPhase(u)
  BY <1>5, PhaseSame DEF CInv, IInv, Kinds
<1>7. \A d, l : Foreign(d, l)' <=> Foreign(d, l)
  BY <1>4, <1>6 DEF Foreign
<1>8. /\ \A d \in CPUs : active'[d] = IF d = c THEN t ELSE active[d]
      /\ \A d \in CPUs : fifo'[d] = IF d = c THEN <<>> ELSE fifo[d]
  BY <1>1, <1>3 DEF CInv, IInv, Kinds, TypeOK
<1>9. copy' = copy /\ buf' = buf /\ mem' = mem
  BY <1>3 DEF caches
<1>10. ASSUME NEW d \in CPUs, NEW l \in Lines, d # c PROVE Held(d, l)' /\ Fetched(d, l)'
  <2>1. Held(d, l) /\ Fetched(d, l)
    BY DEF CInv, Copies
  <2>2. active'[d] = active[d] /\ fifo'[d] = fifo[d]
    BY <1>8, <1>10
  <2>3. /\ Queued(d, l)' <=> Queued(d, l)
        /\ Sending(d, l)' <=> Sending(d, l)
        /\ Fetching(d, l)' <=> Fetching(d, l)
    BY <1>4, <2>2 DEF Queued, Sending, Fetching
  <2>4. Held(d, l)'
    BY <1>7, <1>9, <2>1, <2>2, <2>3 DEF Held
  <2>5. Fetched(d, l)'
    BY <1>7, <1>9, <2>1, <2>3 DEF Fetched
  <2> QED BY <2>4, <2>5
<1>11. ASSUME NEW l \in Lines PROVE Held(c, l)' /\ Fetched(c, l)'
  <2>1. Held(c, l)
    BY <1>1 DEF CInv, Copies
  <2>2. active'[c] = t /\ fifo'[c] = <<>> /\ <<t>> # <<>>
    BY <1>1, <1>8
  <2>3. ~Sending(c, l) /\ ~Queued(c, l)' /\ ~Fetching(c, l)'
    BY <1>1, <1>4, <2>2 DEF Sending, Queued, Fetching
  <2>4. Sending(c, l)' <=> Queued(c, l)
    BY <1>1, <1>4, <2>2 DEF Sending, Queued
  <2>5. Held(c, l)'
    BY <1>1, <1>7, <1>9, <2>1, <2>2, <2>3, <2>4 DEF Held
  <2> QED BY <2>3, <2>5 DEF Fetched
<1>12. Copies'
  BY <1>10, <1>11 DEF Copies
<1>13. Blocked'
  BY <1>8 DEF CInv, Blocked
<1> QED BY <1>12, <1>13

\* The answer of a read brings what the memory holds, unless a write is in its address
\* phase; and the next transfer of the processor carries the store the copy has seen.
LEMMA MasterResponseCoherent ==
    ASSUME CInv, IInv', NEW t \in Trans, Event("masterResponse", t) \in now,
           Run(Event("masterResponse", t)), MasterResponseThread(t)
    PROVE  Blocked' /\ Copies'
<1> DEFINE c == t.master
<1>1. /\ now' = now \ {Event("masterResponse", t)} /\ flight' = Ended(t)
      /\ UNCHANGED <<rmw, frame, request, arbiter, mem, later>>
  BY DEF Run, MasterResponseThread
<1>2. /\ soon \subseteq soon'
      /\ \A e \in soon' \ soon : \E u : e \in {Event("accept", u), Event("endResponse", u)}
  BY DEF MasterResponseThread, Notify
<1>3. /\ t \in Flying /\ Ending(t) /\ Quiet(t)' /\ Past(t)
      /\ \A u : u # t => Same(AddressThreads, u) /\ Same(AnswerThreads, u)
      /\ Same(AddressThreads, t)
  <2>1. later' = later /\ Courses
    BY <1>1 DEF CInv, IInv
  <2> QED BY <1>1, <1>2, <2>1, MasterResponseMoves DEF Ending
<1>4. Flying' = Flying \ {t}
  <2>1. owner' = owner
    BY <1>1 DEF arbiter
  <2> QED BY <1>1, <1>3, <2>1, CoursesEnded DEF CInv
<1>5. \A u : InAddressPhase(u)' <=> InAddressPhase(u)
  BY <1>3, PhaseSame DEF CInv, IInv, Kinds
<1>6. ~InAddressPhase(t)
  BY <1>3, PastPhase DEF CInv, IInv, Kinds
<1>7. \A d, l : Foreign(d, l)' <=> Foreign(d, l)
  BY <1>4, <1>5, <1>6 DEF Foreign
<1>8. /\ copy \in [CPUs -> [Lines -> Values \cup {NoVal}]] /\ buf \in [CPUs -> Values \cup {NoVal}]
      /\ fifo \in [CPUs -> Seq(Trans)] /\ active \in [CPUs -> Trans \cup {NoTrans}]
      /\ mem' = mem
  BY <1>1 DEF CInv, IInv, Kinds, TypeOK
<1>9. ASSUME NEW d \in CPUs, NEW l \in Lines, d # c, copy'[d] = copy[d], buf'[d] = buf[d],
             active'[d] = active[d], fifo'[d] = fifo[d]
      PROVE  Held(d, l)' /\ Fetched(d, l)'
  <2>1. Held(d, l) /\ Fetched(d, l)
    BY DEF CInv, Copies
  <2>2. active[d] # NoTrans => active[d] # t
    BY <1>9 DEF CInv, IInv, Kinds
  <2>3. /\ Queued(d, l)' <=> Queued(d, l)
        /\ Sending(d, l)' <=> Sending(d, l)
        /\ Fetching(d, l)' <=> Fetching(d, l)
    BY <1>4, <1>9, <2>2 DEF Queued, Sending, Fetching
  <2>4. Held(d, l)'
    BY <1>7, <1>8, <1>9, <2>1, <2>3 DEF Held
  <2>5. Fetched(d, l)'
    BY <1>7, <1>8, <1>9, <2>1, <2>3 DEF Fetched
  <2> QED BY <2>4, <2>5
<1>10. CASE c \notin CPUs
  <2>1. UNCHANGED <<copy, buf, fifo, active, phase>>
    BY <1>10 DEF MasterResponseThread
  <2>2. Copies'
    BY <1>9, <1>10, <2>1 DEF Copies
  <2>3. Blocked'
    BY <2>1 DEF CInv, Blocked
  <2> QED BY <2>2, <2>3
<1>11. CASE c \in CPUs
  <2> DEFINE next == IF fifo[c] = <<>> THEN NoTrans ELSE fifo[c][1]
  <2>1. /\ phase[c] = "response" /\ t = active[c]
        /\ copy' = Filled(t) /\ buf' = [buf EXCEPT ![c] = NoVal]
        /\ active' = [active EXCEPT ![c] = next]
        /\ \/ fifo[c] = <<>> /\ fifo' = fifo
           \/ fifo[c] # <<>> /\ fifo' = [fifo EXCEPT ![c] = <<>>]
    BY <1>3, <1>11, Answered DEF CInv
  <2> DEFINE queued(l) == next # NoTrans /\ next.cmd = "write" /\ next.line = l
  <2>2. /\ fifo[c] # <<>> => next \in Trans /\ next.master = c
        /\ fifo[c] = <<>> => next = NoTrans
        /\ \A l : Queued(c, l) <=> queued(l)
    <3>1. fifo[c] # <<>> => 1 \in DOMAIN fifo[c]
      BY <1>8, <1>11
    <3>2. fifo[c] # <<>> => next \in Trans /\ next.master = c
      BY <1>11, <3>1 DEF CInv, IInv, Kinds, TypeOK
    <3> QED BY <3>2, AhbBusNothings DEF Queued
  <2>3. next # NoTrans => next = fifo[c][1]
    OBVIOUS
  <2> HIDE DEF next, c
  <2>4. /\ active'[c] = next /\ fifo'[c] = <<>>
        /\ \A d \in CPUs \ {c} : active'[d] = active[d] /\ fifo'[d] = fifo[d] /\ buf'[d] = buf[d]
    BY <1>8, <1>11, <2>1
  <2>5. /\ \A d \in CPUs \ {c} : copy'[d] = copy[d]
        /\ \A l \in Lines : copy'[c][l] = IF t.cmd = "read" /\ t.line \in Cached /\ l = t.line
                                        THEN buf[c] ELSE copy[c][l]
    BY <1>8, <1>11, <2>1 DEF Filled, c
  <2>6. next \notin Flying'
    <3>1. CASE fifo[c] = <<>>
      <4>1. NoTrans \notin Flying
        BY AhbBusNothings DEF CInv, IInv, Flights
      <4> QED BY <1>4, <2>2, <3>1, <4>1
    <3>2. CASE fifo[c] # <<>>
      <4>1. \A u \in Flying : u.master = c => u = t
        <5>1. phase[c] # "request" /\ c # In
          BY <1>11, <2>1, AhbBusAssumption
        <5> QED BY <1>11, <2>1, <5>1 DEF CInv, IInv, Flights, Open
      <4> QED BY <1>4, <2>2, <3>2, <4>1
    <3> QED BY <3>1, <3>2
  <2>7. t # NoTrans /\ (t.cmd = "read" => fifo[c] = <<>>)
    BY <1>11, <2>1, AhbBusNothings DEF CInv, Blocked
  <2>8. ASSUME NEW l \in Lines PROVE Held(c, l)' /\ Fetched(c, l)'
    <3>1. Held(c, l) /\ Fetched(c, l)
      BY <1>11 DEF CInv, Copies
    <3>2. ~Queued(c, l)' /\ ~Fetching(c, l)' /\ ~Sending(c, l)
      BY <1>3, <2>1, <2>4, <2>6 DEF Queued, Fetching, Sending
    <3>3. Sending(c, l)' <=> Queued(c, l)
      BY <2>2, <2>4, <2>6 DEF Sending
    <3>4. CASE t.cmd = "read" /\ t.line \in Cached /\ l = t.line
      <4>1. copy'[c][l] = buf[c] /\ Fetching(c, l) /\ ~Queued(c, l)
        BY <1>3, <2>1, <2>5, <2>7, <3>4 DEF Fetching, Queued
      <4> QED BY <1>7, <1>8, <3>1, <3>2, <3>3, <4>1 DEF Held, Fetched
    <3>5. CASE ~(t.cmd = "read" /\ t.line \in Cached /\ l = t.line)
      <4>1. copy'[c][l] = copy[c][l]
        BY <2>5, <3>5
      <4>2. Queued(c, l) => copy[c][l] = NoVal \/ copy[c][l] = next.val
        BY <2>2, <2>3, <3>1 DEF Held
      <4> QED BY <1>7, <1>8, <2>4, <3>1, <3>2, <3>3, <4>1, <4>2 DEF Held, Fetched
    <3> QED BY <3>4, <3>5
  <2>9. Copies'
    BY <1>9, <2>4, <2>5, <2>8 DEF Copies
  <2>10. Blocked'
    BY <2>4 DEF CInv, Blocked
  <2> QED BY <2>9, <2>10
<1> QED BY <1>10, <1>11

\* A write that is granted is in its address phase for all other masters, and is the store
\* the copy of its own processor has seen.
LEMMA GrantCoherent ==
    ASSUME CInv, IInv', NEW m \in Masters, Grant(m), NEW t, t = request[m]
    PROVE  Blocked' /\ Copies'
<1>1. /\ now = {} /\ soon = {} /\ soon' = {} /\ owner = None /\ Advance(later \cup Answers(t))
      /\ UNCHANGED <<cpus, dataBus, soon>> /\ Carry(t) /\ flight' = Append(flight, t)
  BY DEF Grant, Granted, BusFree
<1>2. /\ t \in Trans /\ t.master = m /\ Open(m) /\ t = Current(m) /\ t \notin Flying
  BY GrantedAsked DEF CInv
<1>3. /\ Flying \subseteq Trans
      /\ \A u \in Flying : Past(u)
      /\ Quiet(t)
  BY <1>1, <1>2, AtClock DEF CInv
<1>4. InAddressPhase(t)' \/ t.line = Pnp
  <2> DEFINE es == {Event(th, u) : th \in Delayed, u \in Trans}
  <2>1. later \subseteq {At(e, k) : e \in es, k \in Clocks}
    BY DEF CInv, IInv, Kinds, Places
  <2> HIDE DEF es
  <2>2. Quiet(t) /\ t \in Trans
    BY <1>2, <1>3
  <2>3. Advance(later \cup Answers(t)) /\ now = {} /\ soon = {} /\ soon' = {}
    BY <1>1
  <2> QED BY <2>1, <2>2, <2>3, GrantMoves
<1>5. Flying' = Flying \cup {t}
  <2> DEFINE n == Len(flight)
  <2>1. flight \in Seq(Trans)
    BY DEF CInv, IInv, Kinds
  <2>2. /\ n \in Nat /\ DOMAIN flight = 1..n /\ DOMAIN flight' = 1..(n + 1)
        /\ flight'[n + 1] = t /\ \A i \in 1..n : flight'[i] = flight[i]
    BY <1>1, <1>2, <2>1
  <2> HIDE DEF n
  <2>3. \A i \in DOMAIN flight' : flight'[i] \in Flying \cup {t}
    BY <2>2 DEF Flying
  <2>4. \A i \in DOMAIN flight : i \in DOMAIN flight' /\ flight'[i] = flight[i]
    BY <2>2
  <2>5. n + 1 \in DOMAIN flight'
    BY <2>2
  <2> QED BY <2>2, <2>3, <2>4, <2>5 DEF Flying
<1>6. \A c, l : ~Foreign(c, l)
  BY <1>3, PastPhase DEF Foreign, CInv, IInv, Kinds
<1>7. /\ copy' = copy /\ fifo' = fifo /\ active' = active
      /\ buf \in [CPUs -> Values \cup {NoVal}] /\ mem \in [Lines -> Values]
      /\ active \in [CPUs -> Trans \cup {NoTrans}]
  BY <1>1 DEF cpus, caches, CInv, IInv, Kinds, TypeOK
<1>8. \A l \in Lines : mem'[l] = IF t.cmd = "write" /\ t.line = l THEN t.val ELSE mem[l]
  BY <1>1, <1>7 DEF Carry
<1>9. \A c \in CPUs : buf'[c] = IF t.cmd = "read" /\ c = m
                                THEN (IF t.line \in Lines THEN mem[t.line] ELSE NoVal)
                                ELSE buf[c]
  BY <1>1, <1>2, <1>7 DEF Carry
<1>10. \A c, l : Queued(c, l)' <=> Queued(c, l)
  BY <1>7 DEF Queued
<1>11. ASSUME NEW c \in CPUs, NEW l \in Lines, c # m PROVE Held(c, l)' /\ Fetched(c, l)'
  <2>1. Held(c, l) /\ Fetched(c, l)
    BY DEF CInv, Copies
  <2>2. active[c] # NoTrans => active[c] # t
    BY <1>2, <1>11 DEF CInv, IInv, Kinds
  <2>3. /\ Sending(c, l)' <=> Sending(c, l)
        /\ Fetching(c, l)' <=> Fetching(c, l)
    BY <1>5, <1>7, <2>2 DEF Sending, Fetching
  <2>4. mem'[l] = mem[l] \/ Foreign(c, l)'
    <3>1. CASE t.cmd = "write" /\ t.line = l
      <4>1. t.line # Pnp
        BY <3>1, AhbBusAssumption
      <4>2. t \in Flying' /\ InAddressPhase(t)' /\ t.master # c
        BY <1>2, <1>4, <1>5, <1>11, <4>1
      <4> QED BY <3>1, <4>2 DEF Foreign
    <3>2. CASE ~(t.cmd = "write" /\ t.line = l)
      BY <1>8, <3>2
    <3> QED BY <3>1, <3>2
  <2>5. buf'[c] = buf[c]
    BY <1>9, <1>11
  <2>6. Held(c, l)'
    BY <1>6, <1>7, <1>10, <2>1, <2>3, <2>4 DEF Held
  <2>7. Fetched(c, l)'
    BY <1>6, <2>1, <2>3, <2>4, <2>5 DEF Fetched
  <2> QED BY <2>6, <2>7
<1>12. ASSUME m \in CPUs, NEW l \in Lines PROVE Held(m, l)' /\ Fetched(m, l)'
  <2>1. Held(m, l)
    BY <1>12 DEF CInv, Copies
  <2>2. t = active[m] /\ t # NoTrans
    BY <1>2, <1>12, AhbBusAssumption, AhbBusNothings DEF Current
  <2>3. /\ ~Sending(m, l)'
        /\ Sending(m, l) <=> t.cmd = "write" /\ t.line = l
        /\ Fetching(m, l)' <=> t.cmd = "read" /\ t.line = l
    BY <1>2, <1>5, <1>7, <2>2 DEF Sending, Fetching
  <2>4. t.cmd = "write" \/ t.cmd = "read"
    BY <1>2 DEF Trans
  <2>5. Fetched(m, l)'
    BY <1>8, <1>9, <1>12, <2>3, <2>4 DEF Fetched
  <2>6. Held(m, l)'
    BY <1>6, <1>7, <1>8, <1>10, <2>1, <2>2, <2>3 DEF Held
  <2> QED BY <2>5, <2>6
<1>13. Copies'
  BY <1>11, <1>12 DEF Copies
<1>14. Blocked'
  BY <1>7 DEF CInv, Blocked
<1> QED BY <1>13, <1>14

\* A store updates the copy it hits and posts what it has put there; a load posts nothing
\* that a copy has to follow.
LEMMA PostCoherent ==
    ASSUME CInv, IInv', NEW c \in CPUs, Runs(c), NEW cmd, NEW l, NEW val, NEW lock,
           Post(c, cmd, l, val, lock), cmd \in {"read", "write"},
           cmd = "read" => copy' = copy,
           cmd = "write" =>
               copy' = IF copy[c][l] = NoVal THEN copy ELSE [copy EXCEPT ![c][l] = val]
    PROVE  Blocked' /\ Copies'
<1>0. /\ cmd = "read" => copy' = copy
      /\ cmd = "write" =>
            copy' = IF copy[c][l] = NoVal THEN copy ELSE [copy EXCEPT ![c][l] = val]
      /\ cmd \in {"read", "write"}
  OBVIOUS
<1>1. PICK t : t = [master |-> c, cmd |-> cmd, line |-> l, val |-> val, lock |-> lock,
                    words |-> IF cmd = "read" /\ l \in Cached THEN LineWords ELSE 1]
  OBVIOUS
<1>2. t.cmd = cmd /\ t.line = l /\ t.val = val
  BY <1>1
<1>3. now = {} /\ fifo[c] = <<>> /\ ~Reading(c)
  BY DEF Runs
<1>4. /\ copy \in [CPUs -> [Lines -> Values \cup {NoVal}]]
      /\ fifo \in [CPUs -> Seq(Trans)]
  BY DEF CInv, IInv, Kinds, TypeOK
<1>5. /\ fifo' = [fifo EXCEPT ![c] = <<t>>]
      /\ soon' = IF active[c] = NoTrans THEN soon \cup {Event("access", fifo'[c][1])} ELSE soon
      /\ UNCHANGED <<active, phase, buf, frame, request, arbiter, mem, now, later, flight>>
  BY <1>1 DEF Post
<1>6. /\ fifo'[c] = <<t>> /\ fifo'[c][1] = t /\ fifo'[c] # <<>>
      /\ \A d \in CPUs \ {c} : fifo'[d] = fifo[d]
  <2>1. fifo'[c] = <<t>>
    BY <1>4, <1>5
  <2>2. <<t>>[1] = t /\ <<t>> # <<>>
    OBVIOUS
  <2> QED BY <1>4, <1>5, <2>1, <2>2
<1>7. Flying' = Flying
  BY <1>5 DEF Flying
<1>8. \A u : Same(AddressThreads, u)
  BY <1>5, EventEq DEF Same, AddressThreads
<1>9. \A d, k : Foreign(d, k)' <=> Foreign(d, k)
  <2>1. \A u : InAddressPhase(u)' <=> InAddressPhase(u)
    BY <1>8, PhaseSame DEF CInv, IInv, Kinds
  <2> QED BY <1>7, <2>1 DEF Foreign
<1>10. \A d, k : /\ Sending(d, k)' <=> Sending(d, k)
                 /\ Fetching(d, k)' <=> Fetching(d, k)
  BY <1>5, <1>7 DEF Sending, Fetching
<1>11. ASSUME NEW d \in CPUs, NEW k \in Lines PROVE Fetched(d, k)'
  BY <1>5, <1>9, <1>10 DEF Fetched, CInv, Copies
<1>12. ASSUME NEW d \in CPUs, NEW k \in Lines, d # c PROVE Held(d, k)'
  <2>1. copy'[d] = copy[d]
    BY <1>0, <1>4, <1>12
  <2>2. Queued(d, k)' <=> Queued(d, k)
    BY <1>6, <1>12 DEF Queued
  <2>3. Held(d, k) /\ fifo'[d] = fifo[d] /\ active' = active /\ mem' = mem
    BY <1>5, <1>6, <1>12 DEF CInv, Copies
  <2> QED BY <1>9, <1>10, <2>1, <2>2, <2>3 DEF Held
<1>13. ASSUME NEW k \in Lines PROVE Held(c, k)'
  <2>1. Held(c, k) /\ ~Queued(c, k) /\ active' = active /\ mem' = mem
    BY <1>3, <1>5 DEF CInv, Copies, Queued
  <2>2. Queued(c, k)' <=> cmd = "write" /\ l = k
    BY <1>2, <1>6 DEF Queued
  <2>3. CASE cmd = "write" /\ l = k
    <3>1. copy'[c][k] # NoVal => copy'[c][k] = val
      BY <1>0, <1>4, <2>3
    <3> QED BY <1>2, <1>6, <2>2, <2>3, <3>1 DEF Held
  <2>4. CASE ~(cmd = "write" /\ l = k)
    <3>1. copy'[c][k] = copy[c][k]
      <4>1. CASE cmd = "read"
        BY <1>0, <4>1
      <4>2. CASE cmd = "write"
        BY <1>0, <1>4, <2>4, <4>2
      <4> QED BY <1>0, <4>1, <4>2
    <3> QED BY <1>9, <1>10, <2>1, <2>2, <2>4, <3>1 DEF Held
  <2> QED BY <2>3, <2>4
<1>14. Copies'
  BY <1>11, <1>12, <1>13 DEF Copies
<1>15. Blocked'
  <2>1. ASSUME NEW d \in CPUs, active'[d] # NoTrans, active'[d].cmd = "read" PROVE fifo'[d] = <<>>
    <3>1. d # c
      BY <1>3, <1>5, <2>1 DEF Reading
    <3> QED BY <1>5, <1>6, <2>1, <3>1 DEF CInv, Blocked
  <2> QED BY <2>1 DEF Blocked
<1> QED BY <1>14, <1>15

\* An address phase goes on until the clock unless its RequestThread runs.
LEMMA PhaseStays ==
    ASSUME NEW t, later \subseteq later',
           \A th \in {"slaveRequest", "request"} :
              Event(th, t) \in now \cup soon => Event(th, t) \in now' \cup soon'
    PROVE  InAddressPhase(t) => InAddressPhase(t)'
BY DEF InAddressPhase, Ends, Due

\* The instructions of a processor keep the copies coherent.
LEMMA ProcessorCoherent ==
    ASSUME CInv, IInv', NEW c \in CPUs, Processor(c)
    PROVE  Blocked' /\ Copies'
<1>1. ASSUME NEW l, LoadMiss(c, l) PROVE Blocked' /\ Copies'
  <2>1. Runs(c) /\ Post(c, "read", l, NoVal, FALSE) /\ copy' = copy
    BY <1>1 DEF LoadMiss, caches
  <2> QED BY <2>1, PostCoherent
<1>2. ASSUME NEW l, NEW val, StoreThrough(c, l, val) PROVE Blocked' /\ Copies'
  <2>1. /\ Runs(c) /\ Post(c, "write", l, val, FALSE)
        /\ copy' = IF copy[c][l] = NoVal THEN copy ELSE [copy EXCEPT ![c][l] = val]
    BY <1>2 DEF StoreThrough
  <2> QED BY <2>1, PostCoherent
<1>3. ASSUME NEW l, NEW val, SwapLoad(c, l, val) PROVE Blocked' /\ Copies'
  <2>1. Runs(c) /\ Post(c, "read", l, NoVal, TRUE) /\ copy' = copy
    BY <1>3 DEF SwapLoad
  <2> QED BY <2>1, PostCoherent
<1> QED BY <1>1, <1>2, <1>3 DEF Processor, Store, SwapStore

\* The other threads, which do not touch what the processors hold, leave every address
\* phase as it is.
LEMMA ThreadCoherent ==
    ASSUME CInv, IInv', NEW e \in now, Thread(e)
    PROVE  Blocked' /\ Copies'
<1>1. PICK th \in Threads, t \in Trans :
         /\ e = Event(th, t) /\ Event(th, t) \in now /\ Run(Event(th, t))
         /\ \/ th = "access" /\ AccessThread(t)
            \/ th = "accept" /\ AcceptThread(t)
            \/ th = "slaveRequest" /\ SlaveRequestThread(t)
            \/ th = "slaveResponse" /\ SlaveResponseThread(t)
            \/ th = "request" /\ RequestThread(t)
            \/ th = "response" /\ ResponseThread(t)
            \/ th = "endRequest" /\ EndRequest(t)
            \/ th = "masterResponse" /\ MasterResponseThread(t)
            \/ th = "endResponse" /\ EndResponseThread(t)
  BY Woken DEF CInv
<1>2. now' = now \ {Event(th, t)}
  BY <1>1 DEF Run
<1>3. CASE th = "slaveRequest" /\ SlaveRequestThread(t)
  <2>1. /\ soon' = soon \cup {Event("request", t)} /\ later' = later
        /\ UNCHANGED <<copy, buf, fifo, active, mem, flight>>
    BY <1>3 DEF SlaveRequestThread, Notify, cpus, caches
  <2>2. \A u : u # t => (InAddressPhase(u) => InAddressPhase(u)')
    BY <1>2, <2>1, PhaseStays, EventEq
  <2>3. InAddressPhase(t)'
    BY <2>1 DEF InAddressPhase, Ends, Due
  <2> QED BY <2>1, <2>2, <2>3, CopiesStill DEF CInv
<1>4. ASSUME th \notin {"slaveRequest", "request"}, soon \subseteq soon', later \subseteq later',
             UNCHANGED <<copy, buf, fifo, active, mem, flight>>
      PROVE  Blocked' /\ Copies'
  <2>1. \A u : InAddressPhase(u) => InAddressPhase(u)'
    BY <1>2, <1>4, PhaseStays, EventEq
  <2> QED BY <1>4, <2>1, CopiesStill DEF CInv
<1>5. CASE th = "accept" /\ AcceptThread(t)
  BY <1>4, <1>5 DEF AcceptThread, cpus, caches
<1>6. CASE th = "slaveResponse" /\ SlaveResponseThread(t)
  BY <1>4, <1>6 DEF SlaveResponseThread, Notify, cpus, caches
<1>7. CASE th = "response" /\ ResponseThread(t)
  BY <1>4, <1>7 DEF ResponseThread, cpus, caches
<1>8. CASE th = "endRequest" /\ EndRequest(t)
  <2>1. soon \subseteq soon' /\ UNCHANGED <<copy, buf, fifo, active, mem, later, flight>>
    BY <1>8 DEF EndRequest, Notify, cpus, caches
  <2> QED BY <1>4, <1>8, <2>1
<1>9. CASE th = "endResponse" /\ EndResponseThread(t)
  BY <1>4, <1>9 DEF EndResponseThread, cpus, caches
<1>10. CASE th = "access" /\ AccessThread(t)
  BY <1>1, <1>10, AccessCoherent
<1>11. CASE th = "request" /\ RequestThread(t)
  BY <1>1, <1>11, RequestCoherent
<1>12. CASE th = "masterResponse" /\ MasterResponseThread(t)
  BY <1>1, <1>12, MasterResponseCoherent
<1> QED BY <1>1, <1>3, <1>5, <1>6, <1>7, <1>8, <1>9, <1>10, <1>11, <1>12

\* A clock without a grant brings the ends of the address phases nearer.
LEMMA NoGrantCoherent ==
    ASSUME CInv, IInv', NoGrant
    PROVE  Blocked' /\ Copies'
<1>1. /\ now = {} /\ soon = {} /\ Advance(later)
      /\ UNCHANGED <<copy, buf, fifo, active, mem, flight>>
  BY DEF NoGrant, cpus, caches
<1> DEFINE es == {Event(th, t) : th \in Delayed, t \in Trans}
<1>2. later \subseteq {At(e, k) : e \in es, k \in Clocks}
  BY DEF CInv, IInv, Kinds, Places
<1> HIDE DEF es
<1>3. \A e : /\ e \in now' <=> At(e, 1) \in later
             /\ \A k \in Nat \ {0} : At(e, k) \in later' <=> At(e, k + 1) \in later
  BY <1>1, <1>2, AdvanceMoves
<1>4. ASSUME NEW t, InAddressPhase(t) PROVE InAddressPhase(t)'
  <2>1. PICK th \in {"slaveRequest", "request"}, x \in later : x.event = Event(th, t)
    BY <1>1, <1>4, PhaseAt
  <2>2. PICK k \in Clocks : x = At(Event(th, t), k)
    BY <1>2, <2>1, AtFields
  <2>3. Clocks \subseteq Nat \ {0}
    BY AhbBusAssumption DEF Clocks
  <2>4. CASE k = 1
    <3>1. Event(th, t) \in now'
      BY <1>3, <2>1, <2>2, <2>4
    <3> QED BY <3>1 DEF InAddressPhase, Ends, Due
  <2>5. CASE k # 1
    <3>1. k - 1 \in Nat \ {0} /\ (k - 1) + 1 = k
      BY <2>3, <2>5
    <3>2. At(Event(th, t), k - 1) \in later'
      BY <1>3, <2>1, <2>2, <3>1
    <3> QED BY <3>2, AtFields DEF InAddressPhase, Ends, Due
  <2> QED BY <2>4, <2>5
<1> QED BY <1>1, <1>4, CopiesStill DEF CInv

\* Every step keeps the copies coherent.
LEMMA CopiesKept == CInv /\ IInv' /\ [Next]_vars => Blocked' /\ Copies'
<1> SUFFICES ASSUME CInv, IInv', [Next]_vars PROVE Blocked' /\ Copies'
  OBVIOUS
<1>1. ASSUME NEW e \in now, Thread(e) PROVE Blocked' /\ Copies'
  BY <1>1, ThreadCoherent
<1>2. CASE Delta
  <2>1. /\ now' = soon /\ now = {} /\ later' = later
        /\ UNCHANGED <<copy, buf, fifo, active, mem, flight>>
    BY <1>2 DEF Delta, cpus, caches
  <2>2. \A t : InAddressPhase(t) => InAddressPhase(t)'
    BY <2>1, PhaseStays
  <2> QED BY <2>1, <2>2, CopiesStill DEF CInv
<1>3. ASSUME NEW m \in Masters, Grant(m) PROVE Blocked' /\ Copies'
  <2>1. PICK t : t = request[m]
    OBVIOUS
  <2> QED BY <1>3, <2>1, GrantCoherent
<1>4. CASE NoGrant
  BY <1>4, NoGrantCoherent
<1>5. ASSUME NEW c \in CPUs, Processor(c) PROVE Blocked' /\ Copies'
  BY <1>5, ProcessorCoherent
<1>6. CASE NewFrame
  <2>1. /\ now' = now /\ soon \subseteq soon' /\ later' = later
        /\ UNCHANGED <<copy, buf, fifo, active, mem, flight>>
    BY <1>6 DEF NewFrame, cpus, caches
  <2>2. \A t : InAddressPhase(t) => InAddressPhase(t)'
    BY <2>1, PhaseStays
  <2> QED BY <2>1, <2>2, CopiesStill DEF CInv
<1>7. CASE UNCHANGED vars
  <2>1. UNCHANGED <<copy, buf, fifo, active, mem, now, soon, later, flight>>
    BY <1>7 DEF vars
  <2>2. \A t : InAddressPhase(t) => InAddressPhase(t)'
    BY <2>1, PhaseStays
  <2> QED BY <2>1, <2>2, CopiesStill DEF CInv
<1> QED BY <1>1, <1>2, <1>3, <1>4, <1>5, <1>6, <1>7 DEF Next, Kernel

\* The caches and the fifos are empty at the start.
LEMMA CInvInit == Init => CInv
<1> SUFFICES ASSUME Init PROVE CInv
  OBVIOUS
<1>1. IInv
  BY InvInit
<1>2. \A c \in CPUs : active[c] = NoTrans /\ \A l \in Lines : copy[c][l] = NoVal
  BY DEF Init
<1>3. Blocked /\ Copies
  BY <1>2 DEF Blocked, Copies, Held, Fetched, Fetching
<1> QED BY <1>1, <1>3 DEF CInv

\* What the copies are compared with is always there.
LEMMA CoherenceInvariant == Spec => []CInv
<1>1. CInv /\ [Next]_vars => CInv'
  BY InvKept, CopiesKept DEF CInv
<1> QED BY <1>1, CInvInit, PTL DEF Spec

\* A copy follows the stores of its own processor, and the memory.
LEMMA CopyFollows ==
    ASSUME CInv, NEW c \in CPUs, NEW l \in Lines
    PROVE  \/ copy[c][l] = NoVal \/ OwnWrites(c, l) \/ copy[c][l] = mem[l]
           \/ \E i \in DOMAIN flight :
                 /\ flight[i].master # c /\ flight[i].cmd = "write" /\ flight[i].line = l
                 /\ InAddressPhase(flight[i]) /\ flight[i] \in Flying
<1>1. Held(c, l)
  BY DEF CInv, Copies
<1>2. Queued(c, l) => OwnWrites(c, l)
  <2>1. fifo[c] # <<>> => 1 \in DOMAIN fifo[c]
    BY DEF CInv, IInv, Kinds
  <2> QED BY <2>1 DEF Queued, OwnWrites
<1>3. Sending(c, l) => OwnWrites(c, l)
  BY DEF Sending, OwnWrites, Flying
<1> QED BY <1>1, <1>2, <1>3 DEF Held, Foreign, Flying

\* A data cache holds what the memory holds, but for a store of its own processor that is
\* on its way and for a write of another master whose address phase the snooping waits
\* for: no read brings an older line after the snooping, and no copy is left behind
\* (RequestThread, snoop, mem_access and its fifo).
THEOREM Coherence == Spec => []Coherent
<1>1. CInv => Coherent
  BY CopyFollows DEF Coherent
<1> QED BY <1>1, CoherenceInvariant, PTL

\* When the AHBIn raises its interrupt, nothing of its frame is left on the way to the
\* memory, and no cache has an older word of it (gen_frame returns from ahbaccess at
\* END_REQ, after the snooping).
THEOREM FramesAreVisible == Spec => []FrameVisible
<1>1. CInv => FrameVisible
  <2> SUFFICES ASSUME CInv, frame.state = "pulse" PROVE FrameVisible
    BY DEF FrameVisible
  <2>1. In \in Masters /\ ~Open(In)
    BY DEF Masters, Open
  <2>2. request[In] = NoTrans
    BY <2>1, Idle DEF CInv
  <2>3. ASSUME NEW t \in Flying, InAddressPhase(t) PROVE t.master # In
    BY <2>1, <2>3, PastPhase DEF CInv, IInv, Kinds, Flights
  <2>4. \A i \in DOMAIN FrameLines : FrameLines[i] \in Lines
    BY AhbBusAssumption
  <2>5. ASSUME NEW c \in CPUs, NEW i \in DOMAIN FrameLines
        PROVE  \/ copy[c][FrameLines[i]] \in {NoVal, mem[FrameLines[i]]}
               \/ OwnWrites(c, FrameLines[i])
               \/ \E j \in DOMAIN flight :
                     /\ flight[j].master \notin {c, In} /\ flight[j].line = FrameLines[i]
                     /\ InAddressPhase(flight[j])
    <3>1. PICK l \in Lines : l = FrameLines[i]
      BY <2>4
    <3> QED BY <2>3, <3>1, CopyFollows
  <2> QED BY <2>2, <2>5 DEF FrameVisible
<1> QED BY <1>1, CoherenceInvariant, PTL

-----------------------------------------------------------------------------
(* The order of the transfers                                              *)

\* what the masters have asked for, as AhbOrder sees it
Waiting == Accepted \cup {request[m] : m \in Wanted}

Asked(t) ==
    \/ t \in Trans /\ Decoded(t) /\ Event("accept", t) \in now \cup soon
    \/ \E m \in Masters : request[m] # NoTrans /\ t = request[m]

AskedWaits == \A t : t \in Waiting <=> Asked(t)

\* A transfer waits from its BEGIN_REQ on, and then in the request map.
LEMMA WaitingAsked == Places => AskedWaits
<1> SUFFICES ASSUME Places PROVE AskedWaits
  OBVIOUS
<1>1. ASSUME NEW t PROVE t \in Accepted <=> t \in Trans /\ Decoded(t) /\ Event("accept", t) \in now \cup soon
  <2>1. ASSUME t \in Accepted
        PROVE  t \in Trans /\ Decoded(t) /\ Event("accept", t) \in now \cup soon
    <3>1. PICK e \in now \cup soon : e.thread = "accept" /\ t = e.trans /\ Decoded(t)
      BY <2>1 DEF Accepted
    <3>2. PICK th \in Threads, u \in Trans : e = Event(th, u)
      BY DEF Places
    <3> QED BY <3>1, <3>2, EventFields
  <2>2. ASSUME t \in Trans, Decoded(t), Event("accept", t) \in now \cup soon
        PROVE  t \in Accepted
    BY <2>2, EventFields DEF Accepted
  <2> QED BY <2>1, <2>2
<1> QED BY <1>1 DEF AskedWaits, Waiting, Asked, Wanted

\* A step that leaves what waits and what is under way alone is none of AhbOrder.
LEMMA OrderStill ==
    ASSUME Waiting' = Waiting, UNCHANGED <<flight, locked, mem>>
    PROVE  [Bus!Next]_(Bus!vars)
BY DEF Bus!vars, Waiting

\* BEGIN_REQ is its Ask, or nothing where no slave has the address.
LEMMA OrderAsk ==
    ASSUME NEW t \in Trans, Waiting' = Waiting \/ Waiting' = Waiting \cup {t},
           UNCHANGED <<flight, locked, mem>>
    PROVE  [Bus!Next]_(Bus!vars)
BY OrderStill DEF Bus!Next, Bus!Ask, Waiting

\* END_RESP is its End, which may come with the next BEGIN_REQ.
LEMMA OrderEnd ==
    ASSUME flight # <<>>, flight' = Tail(flight), UNCHANGED <<locked, mem>>,
           Waiting' = Waiting \/ \E t \in Trans : Waiting' = Waiting \cup {t}
    PROVE  [Bus!Next]_(Bus!vars)
BY DEF Bus!Next, Bus!End, Bus!EndAndAsk, Waiting

\* The grant is its Grant.
LEMMA OrderGrant ==
    ASSUME NEW t \in Trans, t \in Waiting, Len(flight) < 2, locked \in {None, t.master},
           Waiting' = Waiting \ {t}, flight' = Append(flight, t),
           locked' = IF t.lock THEN t.master ELSE None,
           mem' = IF t.cmd = "write" /\ t.line \in Lines
                  THEN [mem EXCEPT ![t.line] = t.val] ELSE mem
    PROVE  [Bus!Next]_(Bus!vars)
BY DEF Bus!Next, Bus!Grant, Waiting

\* Where no transfer is asked for or granted, what waits stays as it is.
LEMMA WaitingSame ==
    ASSUME Places, Places', request' = request,
           \A u \in Trans : Event("accept", u) \in now' \cup soon' <=>
                            Event("accept", u) \in now \cup soon
    PROVE  Waiting' = Waiting
<1>1. AskedWaits /\ AskedWaits'
  BY WaitingAsked, PTL
<1>2. \A u : Asked(u)' <=> Asked(u)
  BY DEF Asked, Decoded
<1> QED BY <1>1, <1>2 DEF AskedWaits

\* A transfer that is asked for waits, if a slave has its address.
LEMMA WaitingMore ==
    ASSUME Places, Places', request' = request, NEW t \in Trans,
           \A u \in Trans : Event("accept", u) \in now' \cup soon' <=>
                            Event("accept", u) \in now \cup soon \/ u = t
    PROVE  Waiting' = Waiting \/ Waiting' = Waiting \cup {t}
<1>1. AskedWaits /\ AskedWaits'
  BY WaitingAsked, PTL
<1>2. CASE Decoded(t)
  <2>1. \A u : Asked(u)' <=> Asked(u) \/ u = t
    BY <1>2 DEF Asked, Decoded
  <2> QED BY <1>1, <2>1 DEF AskedWaits
<1>3. CASE ~Decoded(t)
  <2>1. \A u : Asked(u)' <=> Asked(u)
    BY <1>3 DEF Asked, Decoded
  <2> QED BY <1>1, <2>1 DEF AskedWaits
<1> QED BY <1>2, <1>3

\* AcceptThread puts a transfer that waits into the request map, where it waits on.
LEMMA AcceptOrder ==
    ASSUME IInv, IInv', NEW t \in Trans, Event("accept", t) \in now,
           Run(Event("accept", t)), AcceptThread(t)
    PROVE  [Bus!Next]_(Bus!vars)
<1>1. /\ now' = now \ {Event("accept", t)} /\ soon' = soon
      /\ request' = IF Decoded(t) THEN [request EXCEPT ![t.master] = t] ELSE request
      /\ UNCHANGED <<flight, locked, mem>>
  BY DEF Run, AcceptThread, arbiter
<1>2. /\ request[t.master] = NoTrans /\ Event("accept", t) \notin soon
      /\ request \in [Masters -> Trans \cup {NoTrans}]
  BY DEF IInv, Asks, Kinds, TypeOK
<1>3. t.master \in Masters /\ t # NoTrans
  BY AhbBusNothings DEF Trans
<1>4. \A u : Event("accept", u) \in now' \cup soon' <=> Event("accept", u) \in now \cup soon /\ u # t
  BY <1>1, <1>2, EventEq
<1>5. \A u : Asked(u)' <=> Asked(u)
  <2>1. CASE Decoded(t)
    <3>1. \A m \in Masters : request'[m] = IF m = t.master THEN t ELSE request[m]
      BY <1>1, <1>2, <2>1
    <3> QED BY <1>2, <1>3, <1>4, <2>1, <3>1 DEF Asked, Decoded
  <2>2. CASE ~Decoded(t)
    BY <1>1, <1>4, <2>2 DEF Asked, Decoded
  <2> QED BY <2>1, <2>2
<1>6. Places /\ Places'
  BY DEF IInv, Kinds
<1>7. AskedWaits /\ AskedWaits'
  BY <1>6, WaitingAsked, PTL
<1>8. Waiting' = Waiting
  BY <1>5, <1>7 DEF AskedWaits
<1> QED BY <1>1, <1>8, OrderStill

\* A transfer ends, the oldest under way; its master may ask for the next with it.
LEMMA MasterResponseOrder ==
    ASSUME IInv, IInv', NEW t \in Trans, Event("masterResponse", t) \in now,
           Run(Event("masterResponse", t)), MasterResponseThread(t)
    PROVE  [Bus!Next]_(Bus!vars)
<1>1. /\ now' = now \ {Event("masterResponse", t)} /\ flight' = Ended(t)
      /\ UNCHANGED <<request, locked, mem, later>>
  BY DEF Run, MasterResponseThread, arbiter
<1>2. /\ soon \subseteq soon'
      /\ \A e \in soon' \ soon : \E u : e \in {Event("accept", u), Event("endResponse", u)}
  BY DEF MasterResponseThread, Notify
<1>3. t \in Flying /\ Ending(t)
  BY <1>1, <1>2, MasterResponseMoves DEF IInv
<1>4. flight # <<>> /\ flight' = Tail(flight)
  BY <1>1, <1>3, EndedTail
<1>5. Places /\ Places'
  BY DEF IInv, Kinds
<1>6. CASE soon' = soon \cup {Event("endResponse", t)}
  <2>1. \A u \in Trans : Event("accept", u) \in now' \cup soon' <=>
                         Event("accept", u) \in now \cup soon
    BY <1>1, <1>6, EventEq
  <2>2. Waiting' = Waiting
    BY <1>1, <1>5, <2>1, WaitingSame
  <2> QED BY <1>1, <1>4, <2>2, OrderEnd
<1>7. ASSUME NEW next, soon' = soon \cup {Event("endResponse", t), Event("accept", next)}
      PROVE  [Bus!Next]_(Bus!vars)
  <2>1. next \in Trans
    BY <1>5, <1>7, EventEq DEF Places
  <2>2. \A u \in Trans : Event("accept", u) \in now' \cup soon' <=>
                         Event("accept", u) \in now \cup soon \/ u = next
    BY <1>1, <1>7, EventEq
  <2>3. Waiting' = Waiting \/ Waiting' = Waiting \cup {next}
    BY <1>1, <1>5, <2>1, <2>2, WaitingMore
  <2> QED BY <1>1, <1>4, <2>1, <2>3, OrderEnd
<1> QED BY <1>6, <1>7 DEF MasterResponseThread, Notify

\* The grant is one of a transfer that waits, and carries it out.
LEMMA GrantOrder ==
    ASSUME IInv, IInv', NEW m \in Masters, Grant(m), NEW t, t = request[m]
    PROVE  [Bus!Next]_(Bus!vars)
<1>1. /\ now = {} /\ soon = {} /\ soon' = {} /\ Advance(later \cup Answers(t))
      /\ request' = [request EXCEPT ![m] = NoTrans]
      /\ locked' = IF t.lock THEN m ELSE None
      /\ Carry(t) /\ flight' = Append(flight, t)
  BY DEF Grant, Granted
<1>2. t \in Trans /\ t.master = m /\ locked \in {None, m} /\ t # NoTrans
  BY GrantedAsked, AhbBusNothings
<1>3. Len(flight) < 2
  <2> DEFINE n == Len(flight)
  <2>1. n \in Nat
    BY DEF IInv, Kinds
  <2>2. n <= 1
    BY <1>1, AtClock
  <2> QED BY <2>1, <2>2
<1>4. Places /\ Places'
  BY DEF IInv, Kinds
<1>5. \A u : Event("accept", u) \notin now'
  <2> DEFINE pending == later \cup Answers(t)
  <2>1. pending \subseteq {At(Event(th, u), k) : th \in Delayed, u \in Trans, k \in Clocks}
    <3>1. Answers(t) \subseteq {At(e, k) : e \in {Event(th, t) : th \in Delayed}, k \in Clocks}
      BY <1>2, AnswersAt
    <3>2. later \subseteq {At(Event(th, u), k) : th \in Delayed, u \in Trans, k \in Clocks}
      BY <1>4 DEF Places
    <3> QED BY <1>2, <3>1, <3>2
  <2>2. Advance(pending)
    BY <1>1
  <2> HIDE DEF pending
  <2> QED BY <1>1, <2>1, <2>2, AdvancePlaces
<1>6. ASSUME NEW o \in Masters, request[o] = t PROVE o = m
  <2>1. Open(o) /\ t = Current(o)
    BY <1>2, <1>6 DEF IInv, Requests
  <2>2. t.master = o
    BY <2>1 DEF Open, Current, FrameTrans, IInv, Kinds, Masters
  <2> QED BY <1>2, <2>2
<1>7. \A u : Asked(u)' <=> Asked(u) /\ u # t
  <2>1. \A o \in Masters : request'[o] = IF o = m THEN NoTrans ELSE request[o]
    BY <1>1 DEF IInv, Kinds, TypeOK
  <2> QED BY <1>1, <1>5, <1>6, <2>1 DEF Asked
<1>8. AskedWaits /\ AskedWaits'
  BY <1>4, WaitingAsked, PTL
<1>9. t \in Waiting /\ Waiting' = Waiting \ {t}
  <2>1. Asked(t)
    BY <1>2 DEF Asked
  <2> QED BY <1>7, <1>8, <2>1 DEF AskedWaits
<1>10. mem' = IF t.cmd = "write" /\ t.line \in Lines
              THEN [mem EXCEPT ![t.line] = t.val] ELSE mem
  BY <1>1 DEF Carry
<1> QED BY <1>1, <1>2, <1>3, <1>9, <1>10, OrderGrant

\* Every thread does what AhbOrder allows, or nothing it sees.
LEMMA ThreadOrder ==
    ASSUME IInv, IInv', NEW e \in now, Thread(e)
    PROVE  [Bus!Next]_(Bus!vars)
<1>1. PICK th \in Threads, t \in Trans :
         /\ e = Event(th, t) /\ Event(th, t) \in now /\ Run(Event(th, t))
         /\ \/ th = "access" /\ AccessThread(t)
            \/ th = "accept" /\ AcceptThread(t)
            \/ th = "slaveRequest" /\ SlaveRequestThread(t)
            \/ th = "slaveResponse" /\ SlaveResponseThread(t)
            \/ th = "request" /\ RequestThread(t)
            \/ th = "response" /\ ResponseThread(t)
            \/ th = "endRequest" /\ EndRequest(t)
            \/ th = "masterResponse" /\ MasterResponseThread(t)
            \/ th = "endResponse" /\ EndResponseThread(t)
  BY Woken
<1>2. now' = now \ {Event(th, t)}
  BY <1>1 DEF Run
<1>3. Places /\ Places'
  BY DEF IInv, Kinds
<1>4. ASSUME NEW next \in Threads, next # "accept", th # "accept",
             soon' = soon \/ soon' = soon \cup {Event(next, t)},
             UNCHANGED <<request, flight, locked, mem>>
      PROVE  [Bus!Next]_(Bus!vars)
  <2>1. \A u \in Trans : Event("accept", u) \in now' \cup soon' <=>
                         Event("accept", u) \in now \cup soon
    BY <1>2, <1>4, EventEq
  <2>2. Waiting' = Waiting
    BY <1>3, <1>4, <2>1, WaitingSame
  <2> QED BY <1>4, <2>2, OrderStill
<1>5. ASSUME NEW u, th # "accept", soon' = soon \cup {Event("accept", u)},
             UNCHANGED <<request, flight, locked, mem>>
      PROVE  [Bus!Next]_(Bus!vars)
  <2>1. u \in Trans
    BY <1>3, <1>5, EventEq DEF Places
  <2>2. \A v \in Trans : Event("accept", v) \in now' \cup soon' <=>
                         Event("accept", v) \in now \cup soon \/ v = u
    BY <1>2, <1>5, EventEq
  <2>3. Waiting' = Waiting \/ Waiting' = Waiting \cup {u}
    BY <1>3, <1>5, <2>1, <2>2, WaitingMore
  <2> QED BY <1>5, <2>1, <2>3, OrderAsk
<1>6. CASE th = "access" /\ AccessThread(t)
  <2>1. /\ \E u : soon' = soon \cup {Event("accept", u)}
        /\ UNCHANGED <<request, flight, locked, mem>>
    BY <1>6 DEF AccessThread, Take, Notify, arbiter
  <2> QED BY <1>5, <1>6, <2>1
<1>7. CASE th = "accept" /\ AcceptThread(t)
  BY <1>1, <1>7, AcceptOrder
<1>8. CASE th = "slaveRequest" /\ SlaveRequestThread(t)
  <2>1. "request" \in Threads
    BY DEF Threads
  <2> QED BY <1>4, <1>8, <2>1 DEF SlaveRequestThread, Notify, arbiter
<1>9. CASE th = "slaveResponse" /\ SlaveResponseThread(t)
  <2>1. "response" \in Threads
    BY DEF Threads
  <2> QED BY <1>4, <1>9, <2>1 DEF SlaveResponseThread, Notify, arbiter
<1>10. CASE th = "request" /\ RequestThread(t)
  <2>1. "endRequest" \in Threads
    BY DEF Threads
  <2> QED BY <1>4, <1>10, <2>1 DEF RequestThread, Notify
<1>11. CASE th = "response" /\ ResponseThread(t)
  <2>1. "response" \in Threads
    BY DEF Threads
  <2> QED BY <1>4, <1>11, <2>1 DEF ResponseThread
<1>12. CASE th = "endRequest" /\ EndRequest(t)
  <2>1. /\ soon' = soon \/ \E u : soon' = soon \cup {Event("accept", u)}
        /\ UNCHANGED <<request, flight, locked, mem>>
    BY <1>12 DEF EndRequest, Notify, arbiter
  <2>2. "endRequest" \in Threads
    BY DEF Threads
  <2> QED BY <1>4, <1>5, <1>12, <2>1, <2>2
<1>13. CASE th = "masterResponse" /\ MasterResponseThread(t)
  BY <1>1, <1>13, MasterResponseOrder
<1>14. CASE th = "endResponse" /\ EndResponseThread(t)
  <2>1. "endResponse" \in Threads
    BY DEF Threads
  <2> QED BY <1>4, <1>14, <2>1 DEF EndResponseThread
<1> QED BY <1>1, <1>6, <1>7, <1>8, <1>9, <1>10, <1>11, <1>12, <1>13, <1>14

\* Every step is one that AhbOrder allows, or one that it does not see.
LEMMA StepOrder == IInv /\ IInv' /\ [Next]_vars => [Bus!Next]_(Bus!vars)
<1> SUFFICES ASSUME IInv, IInv', [Next]_vars PROVE [Bus!Next]_(Bus!vars)
  OBVIOUS
<1>1. Places /\ Places'
  BY DEF IInv, Kinds
<1>2. ASSUME UNCHANGED <<request, flight, locked, mem>>,
             \A u \in Trans : Event("accept", u) \in now' \cup soon' <=>
                              Event("accept", u) \in now \cup soon
      PROVE  [Bus!Next]_(Bus!vars)
  BY <1>1, <1>2, WaitingSame, OrderStill
<1>3. ASSUME NEW e \in now, Thread(e) PROVE [Bus!Next]_(Bus!vars)
  BY <1>3, ThreadOrder
<1>4. CASE Delta
  BY <1>2, <1>4 DEF Delta, arbiter
<1>5. ASSUME NEW m \in Masters, Grant(m) PROVE [Bus!Next]_(Bus!vars)
  <2>1. PICK t : t = request[m]
    OBVIOUS
  <2> QED BY <1>5, <2>1, GrantOrder
<1>6. CASE NoGrant
  <2>1. /\ now = {} /\ soon = {} /\ soon' = {} /\ Advance(later)
        /\ UNCHANGED <<request, flight, locked, mem>>
    BY <1>6 DEF NoGrant, arbiter
  <2>2. \A u : Event("accept", u) \notin now'
    BY <1>1, <2>1, AdvancePlaces DEF Places
  <2> QED BY <1>2, <2>1, <2>2
<1>7. ASSUME NEW c \in CPUs, Processor(c) PROVE [Bus!Next]_(Bus!vars)
  <2>1. ASSUME NEW cmd, NEW l, NEW val, NEW lock, Post(c, cmd, l, val, lock)
        PROVE  [Bus!Next]_(Bus!vars)
    <3>1. /\ now' = now /\ UNCHANGED <<request, flight, locked, mem>>
          /\ soon' = soon \/ \E u : soon' = soon \cup {Event("access", u)}
      BY <2>1 DEF Post, arbiter
    <3> QED BY <1>2, <3>1, EventEq
  <2> QED BY <1>7, <2>1 DEF Processor, LoadMiss, Store, SwapLoad, SwapStore, StoreThrough
<1>8. CASE NewFrame
  <2>1. PICK t : /\ soon' = soon \cup {Event("accept", t)} /\ now' = now
                 /\ UNCHANGED <<request, flight, locked, mem>>
    BY <1>8 DEF NewFrame, arbiter
  <2>2. t \in Trans
    BY <1>1, <2>1, EventEq DEF Places
  <2>3. \A u \in Trans : Event("accept", u) \in now' \cup soon' <=>
                         Event("accept", u) \in now \cup soon \/ u = t
    BY <2>1, EventEq
  <2>4. Waiting' = Waiting \/ Waiting' = Waiting \cup {t}
    BY <1>1, <2>1, <2>2, <2>3, WaitingMore
  <2> QED BY <2>1, <2>2, <2>4, OrderAsk
<1>9. CASE UNCHANGED vars
  BY <1>2, <1>9 DEF vars
<1> QED BY <1>3, <1>4, <1>5, <1>6, <1>7, <1>8, <1>9 DEF Next, Kernel

\* Whatever the timing of the slaves and the order in which threads wake, transfers take
\* effect and end in the order of the grants, two at most at a time, and a locked bus is
\* granted to its master only (AHBCtrl: arbitrate, RequestThread, ResponseThread).
THEOREM OrderImplemented == Spec => ImplementsOrder
<1>1. Init => Bus!Init
  <2> SUFFICES ASSUME Init PROVE Bus!Init
    OBVIOUS
  <2>1. now = {} /\ soon = {} /\ flight = <<>> /\ locked = None /\ mem \in [Lines -> Values]
    BY DEF Init
  <2>2. Accepted = {} /\ Wanted = {}
    BY <2>1 DEF Init, Accepted, Wanted
  <2> QED BY <2>1, <2>2 DEF Bus!Init
<1> QED BY <1>1, StepOrder, Invariant, PTL DEF Spec, ImplementsOrder, Bus!Spec
=============================================================================
