------------------------------- MODULE AhbBus -------------------------------
(***************************************************************************)
(* The AHB in its approximately timed (AT) form, with the masters and the  *)
(* slave at its ends.  A transfer is asked for (BEGIN_REQ), granted by     *)
(* the arbiter, carried out by its slave at the grant, given back its      *)
(* address bus (END_REQ), answered (BEGIN_RESP) and ended by its master    *)
(* (END_RESP), each by a thread of its own that a payload event queue      *)
(* wakes.  The next transfer may be granted once END_REQ has come, so two  *)
(* of them overlap.                                                        *)
(*                                                                         *)
(* The masters are mmu_caches, with one transfer at a time each, and an    *)
(* AHBIn, which asks for its next transfer at the END_REQ of the last.     *)
(*                                                                         *)
(* Time is the kernel's: an event is due now, in the next delta cycle, or  *)
(* some clocks later.  The arbiter runs a picosecond after each clock      *)
(* edge, when the delta cycles of the edge are over.                       *)
(*                                                                         *)
(* Left out: error responses, statistics, reference counts, splits, which  *)
(* the bus ignores, and response_map, which names the slave END_RESP is    *)
(* forwarded to: there it only drops a reference.                          *)
(***************************************************************************)
EXTENDS Integers, Sequences, FiniteSets

CONSTANTS
    CPUs, In,      \* bus numbers of the mmu_caches and of the AHBIn
    Lines,         \* cache lines of the memory behind the one slave
    Pnp, Unmapped, \* the plug and play area of the bus; an address of no slave
    Cached,        \* lines the m_cached mask lets be cached
    Used,          \* what the processors access
    Values,
    LineWords,     \* words of a line, which one burst reads
    WaitStates,    \* clocks the slave adds to those of the words
    RoundRobin,    \* g_rrobin
    FrameLines,    \* where the AHBIn puts the words of its frames
    NoTrans, NoVal, NoRmw, None

Masters == CPUs \cup {In}

ASSUME AhbBusAssumption ==
    /\ IsFiniteSet(Masters) /\ Masters = 0..(Cardinality(Masters) - 1) /\ In \notin CPUs
    /\ Cached \subseteq Lines /\ Used \subseteq Lines \cup {Pnp, Unmapped}
    /\ Pnp \notin Lines /\ Unmapped \notin Lines
    /\ LineWords \in Nat \ {0} /\ WaitStates \in Nat
    /\ RoundRobin \in BOOLEAN
    \* a frame has words, each at an address of its own
    /\ FrameLines \in Seq(Lines) \ {<<>>}
    /\ \A i, j \in DOMAIN FrameLines : FrameLines[i] = FrameLines[j] => i = j
    /\ NoVal \notin Values /\ None \notin Masters

VARIABLES
    copy,    \* the data cache of each processor: the value of a line, or NoVal
    fifo,    \* bus_in_fifo of each mmu_cache
    active,  \* the transfer its mem_access thread carries out
    phase,   \* where that thread waits: END_REQ, or ahb_response_event
    buf,     \* what the slave has put into the buffer of its read
    rmw,     \* the line and the value of the SWAP a processor is in, after its load
    frame,   \* AHBIn: what gen_frame does, the word it writes, its value
    request, \* the transfer that is TRANS_PENDING in request_map, or NoTrans
    owner, dataBus, robin,   \* the arbiter
    locked,  \* its lock_master if is_lock holds, or None
    mem,
    now, soon, later,  \* events: due in this delta cycle, in the next, in clocks
    flight   \* history: the transfers granted and not ended, in order

caches == <<copy, rmw>>
cpus == <<caches, fifo, active, phase>>
arbiter == <<owner, dataBus, locked, robin>>
vars == <<copy, fifo, active, phase, buf, rmw, frame, request, owner, dataBus,
          locked, robin, mem, now, soon, later, flight>>

Trans == [master : Masters, cmd : {"read", "write"}, line : Lines \cup {Pnp, Unmapped},
          val : Values \cup {NoVal}, lock : BOOLEAN, words : {1, LineWords}]

ASSUME AhbBusNothings ==
    NoTrans \notin Trans /\ NoRmw \notin [line : Lines, val : Values]

\* the threads that a payload event queue or an event wakes
Threads == {"access",       \* mem_access, by bus_in_fifo
            "accept",       \* AcceptThread
            "slaveRequest", "slaveResponse",    \* requestThread, responseThread
            "request", "response",              \* RequestThread, ResponseThread
            "endRequest",   \* ahbaccess of the master, by m_EndRequestEvent
            "masterResponse", "endResponse"}    \* ResponseThread, EndResponseThread

Event(thread, t) == [thread |-> thread, trans |-> t]
Events == [thread : Threads, trans : Trans \cup {NoTrans}]

Decoded(t) == t.line # Unmapped

\* the address bus of a transfer that is being carried out is taken up to END_REQ
Ends(t) == {Event(th, t) : th \in {"slaveRequest", "request"}}
Due == now \cup soon \cup {e.event : e \in later}
InAddressPhase(t) == Ends(t) \cap Due # {}

TypeOK ==
    /\ copy \in [CPUs -> [Lines -> Values \cup {NoVal}]]
    /\ \A c \in CPUs : Len(fifo[c]) <= 1 /\ \A i \in DOMAIN fifo[c] : fifo[c][i] \in Trans
    /\ active \in [CPUs -> Trans \cup {NoTrans}]
    /\ phase \in [CPUs -> {"request", "response"}]
    /\ buf \in [CPUs -> Values \cup {NoVal}]
    /\ rmw \in [CPUs -> [line : Lines, val : Values] \cup {NoRmw}]
    /\ frame \in [state : {"writing", "pulse", "waiting"},
                  word : DOMAIN FrameLines, val : Values \cup {NoVal}]
    /\ request \in [Masters -> Trans \cup {NoTrans}]
    /\ owner \in Masters \cup {None}
    /\ dataBus \in {"idle", "waitstates", "response"}
    /\ locked \in Masters \cup {None} /\ robin \in Masters
    /\ mem \in [Lines -> Values]
    /\ now \subseteq Events /\ soon \subseteq Events
    /\ \A e \in later : e.event \in Events /\ e.clocks \in 1..(LineWords + WaitStates)
    /\ Len(flight) <= 2

FrameTrans(f) ==
    [master |-> In, cmd |-> "write", line |-> FrameLines[f.word],
     val |-> f.val, lock |-> FALSE, words |-> 1]

Init ==
    /\ copy = [c \in CPUs |-> [l \in Lines |-> NoVal]]
    /\ fifo = [c \in CPUs |-> <<>>]
    /\ active = [c \in CPUs |-> NoTrans]
    /\ phase = [c \in CPUs |-> "request"]
    /\ buf = [c \in CPUs |-> NoVal]
    /\ rmw = [c \in CPUs |-> NoRmw]
    /\ frame = [state |-> "waiting", word |-> 1, val |-> NoVal]
    /\ request = [m \in Masters |-> NoTrans]
    /\ owner = None /\ dataBus = "idle"
    /\ locked = None /\ robin = 0
    /\ mem \in [Lines -> Values]
    /\ now = {} /\ soon = {} /\ later = {} /\ flight = <<>>

-----------------------------------------------------------------------------
(* The processors                                                          *)

Reading(c) ==
    \/ active[c] # NoTrans /\ active[c].cmd = "read"
    \/ \E i \in DOMAIN fifo[c] : fifo[c][i].cmd = "read"

\* a read blocks the processor; a write does if the fifo is full.  In each delta
\* cycle the processors run after the threads: the caches and the queues do not
\* tell one order from the other.
Runs(c) == now = {} /\ ~Reading(c) /\ fifo[c] = <<>>

\* mem_read and mem_write: put() wakes mem_access when it waits for the fifo
Post(c, cmd, l, val, lock) ==
    /\ fifo' = [fifo EXCEPT ![c] = <<[master |-> c, cmd |-> cmd, line |-> l, val |-> val,
                   lock |-> lock, words |-> IF cmd = "read" /\ l \in Cached
                                            THEN LineWords ELSE 1]>>]
    /\ soon' = IF active[c] = NoTrans
               THEN soon \cup {Event("access", fifo'[c][1])} ELSE soon
    /\ UNCHANGED <<active, phase, buf, frame, request, arbiter, mem, now, later, flight>>

\* a load that hits has no effect here
LoadMiss(c, l) ==
    /\ Runs(c) /\ rmw[c] = NoRmw
    /\ l \in Lines => copy[c][l] = NoVal
    /\ Post(c, "read", l, NoVal, FALSE)
    /\ UNCHANGED caches

\* the store updates the line it hits and goes to the memory
StoreThrough(c, l, val) ==
    /\ Runs(c)
    /\ copy' = IF copy[c][l] = NoVal THEN copy ELSE [copy EXCEPT ![c][l] = val]
    /\ Post(c, "write", l, val, FALSE)

Store(c, l, val) == rmw[c] = NoRmw /\ StoreThrough(c, l, val) /\ UNCHANGED rmw

\* SWAP: the load locks the bus if it misses, and then the store follows; with a
\* load that hits it is a store
SwapLoad(c, l, val) ==
    /\ Runs(c) /\ rmw[c] = NoRmw
    /\ copy[c][l] = NoVal
    /\ rmw' = [rmw EXCEPT ![c] = [line |-> l, val |-> val]]
    /\ Post(c, "read", l, NoVal, TRUE)
    /\ UNCHANGED copy

SwapStore(c) ==
    /\ rmw[c] # NoRmw
    /\ StoreThrough(c, rmw[c].line, rmw[c].val)
    /\ rmw' = [rmw EXCEPT ![c] = NoRmw]

Processor(c) ==
    \/ \E l \in Used : LoadMiss(c, l)
    \/ \E l \in Used \cap Lines, v \in Values : Store(c, l, v) \/ SwapLoad(c, l, v)
    \/ SwapStore(c)

\* the trigger reaches gen_frame only while it waits for it: else it is lost
NewFrame ==
    /\ now = {} /\ frame.state = "waiting"
    /\ \E v \in Values : frame' = [state |-> "writing", word |-> 1, val |-> v]
    /\ soon' = soon \cup {Event("accept", FrameTrans(frame'))}
    /\ UNCHANGED <<cpus, buf, request, arbiter, mem, now, later, flight>>

-----------------------------------------------------------------------------
(* The threads                                                             *)

Run(e) == now' = now \ {e}

Notify(es) == soon' = soon \cup es

\* BEGIN_REQ of the transfer mem_access takes out of the fifo
Take(c) ==
    /\ active' = [active EXCEPT ![c] = fifo[c][1]]
    /\ phase' = [phase EXCEPT ![c] = "request"]
    /\ fifo' = [fifo EXCEPT ![c] = <<>>]
    /\ Notify({Event("accept", fifo[c][1])})

AccessThread(t) ==
    /\ Take(t.master)
    /\ UNCHANGED <<caches, buf, frame, request, arbiter, mem, later, flight>>

\* an address of no slave is only reported: its master waits for END_REQ for ever
AcceptThread(t) ==
    /\ request' = IF Decoded(t)
                  THEN [request EXCEPT ![t.master] = t]
                  ELSE request
    /\ UNCHANGED <<cpus, buf, frame, arbiter, mem, soon, later, flight>>

SlaveRequestThread(t) ==
    /\ Notify({Event("request", t)})
    /\ UNCHANGED <<cpus, buf, frame, request, arbiter, mem, later, flight>>

SlaveResponseThread(t) ==
    /\ Notify({Event("response", t)})
    /\ UNCHANGED <<cpus, buf, frame, request, arbiter, mem, later, flight>>

\* Snooped that takes the AHBIn for a master that writes nothing cached
SnoopedOfCpus(t) ==
    IF t.cmd = "write" /\ t.line \in Lines /\ t.master \in CPUs
    THEN [c \in CPUs |-> IF c = t.master THEN copy[c]
                         ELSE [copy[c] EXCEPT ![t.line] = NoVal]]
    ELSE copy

\* the data caches of the other masters drop the line a write went to
Snooped(t) ==
    IF t.cmd = "write" /\ t.line \in Lines
    THEN [c \in CPUs |-> IF c = t.master THEN copy[c]
                         ELSE [copy[c] EXCEPT ![t.line] = NoVal]]
    ELSE copy

RequestThread(t) ==
    /\ copy' = Snooped(t)
    /\ owner' = None
    /\ dataBus' = IF dataBus # "response" THEN "waitstates" ELSE dataBus
    /\ Notify({Event("endRequest", t)})
    /\ UNCHANGED <<rmw, fifo, active, phase, buf, frame, request, locked,
                   robin, mem, later, flight>>

\* ResponseThread with a clock for the address before those of the words
ResponseThreadLate(t) ==
    /\ dataBus' = "response"
    /\ later' = later \cup {[event |-> Event("masterResponse", t), clocks |-> t.words + 1]}
    /\ UNCHANGED <<cpus, buf, frame, request, owner, locked, robin,
                   mem, soon, flight>>

\* BEGIN_RESP reaches the master, whose data phase takes a clock for each word
ResponseThread(t) ==
    /\ dataBus' = "response"
    /\ later' = later \cup {[event |-> Event("masterResponse", t), clocks |-> t.words]}
    /\ UNCHANGED <<cpus, buf, frame, request, owner, locked, robin,
                   mem, soon, flight>>

\* ahbaccess returns: mem_access waits for ahb_response_event, and gen_frame
\* writes the next word or raises the interrupt of the AHBIn
EndRequest(t) ==
    \/ /\ t.master \in CPUs
       /\ phase' = [phase EXCEPT ![t.master] = "response"]
       /\ UNCHANGED <<caches, fifo, active, frame, soon>>
       /\ UNCHANGED <<buf, request, arbiter, mem, later, flight>>
    \/ /\ t.master = In
       /\ \/ /\ frame.word < Len(FrameLines)
             /\ frame' = [frame EXCEPT !.word = @ + 1]
             /\ Notify({Event("accept", FrameTrans(frame'))})
          \/ /\ frame.word = Len(FrameLines)
             /\ frame' = [frame EXCEPT !.state = "pulse"]
             /\ UNCHANGED soon
       /\ UNCHANGED <<cpus, buf, request, arbiter, mem, later, flight>>

\* what a read has brought goes into the cache
Filled(t) ==
    IF t.cmd = "read" /\ t.line \in Cached
    THEN [copy EXCEPT ![t.master][t.line] = buf[t.master]] ELSE copy

\* the transfers under way when t has ended
Ended(t) ==
    LET at == CHOOSE i \in DOMAIN flight : flight[i] = t
    IN  IF \A i \in DOMAIN flight : flight[i] # t THEN flight
        ELSE SubSeq(flight, 1, at - 1) \o SubSeq(flight, at + 1, Len(flight))

\* response_callback notifies ahb_response_event: a thread that does not wait for
\* it then misses it.  mem_access completes the read and takes the next transfer.
MasterResponseThread(t) ==
    /\ flight' = Ended(t)
    /\ IF t.master \in CPUs /\ phase[t.master] = "response"
       THEN LET c == t.master
            IN  /\ copy' = Filled(t)
                /\ buf' = [buf EXCEPT ![c] = NoVal]
                /\ IF fifo[c] = <<>>
                   THEN /\ active' = [active EXCEPT ![c] = NoTrans]
                        /\ phase' = [phase EXCEPT ![c] = "request"]
                        /\ UNCHANGED fifo
                        /\ Notify({Event("endResponse", t)})
                   ELSE /\ active' = [active EXCEPT ![c] = fifo[c][1]]
                        /\ phase' = [phase EXCEPT ![c] = "request"]
                        /\ fifo' = [fifo EXCEPT ![c] = <<>>]
                        /\ Notify({Event("endResponse", t), Event("accept", fifo[c][1])})
       ELSE Notify({Event("endResponse", t)}) /\ UNCHANGED <<copy, buf, fifo, active, phase>>
    /\ UNCHANGED <<rmw, frame, request, arbiter, mem, later>>

EndResponseThread(t) ==
    /\ dataBus' = "idle"
    /\ UNCHANGED <<cpus, buf, frame, request, owner, locked, robin,
                   mem, soon, later, flight>>

Thread(e) ==
    LET t == e.trans
    IN  /\ Run(e)
        /\ \/ e.thread = "access" /\ AccessThread(t)
           \/ e.thread = "accept" /\ AcceptThread(t)
           \/ e.thread = "slaveRequest" /\ SlaveRequestThread(t)
           \/ e.thread = "slaveResponse" /\ SlaveResponseThread(t)
           \/ e.thread = "request" /\ RequestThread(t)
           \/ e.thread = "response" /\ ResponseThread(t)
           \/ e.thread = "endRequest" /\ EndRequest(t)
           \/ e.thread = "masterResponse" /\ MasterResponseThread(t)
           \/ e.thread = "endResponse" /\ EndResponseThread(t)

\* the next delta cycle of this clock edge
Delta ==
    /\ now = {} /\ soon # {}
    /\ now' = soon /\ soon' = {}
    /\ UNCHANGED <<cpus, buf, frame, request, arbiter, mem, later, flight>>

-----------------------------------------------------------------------------
(* The arbiter and the clock                                               *)

Wanted == {m \in Masters : request[m] # NoTrans}

\* Candidates that forget the lock
CandidatesUnlocked == Wanted

\* a locked bus is only granted to the master that has locked it
Candidates == IF locked = None THEN Wanted ELSE Wanted \cap {locked}

\* the masters after the last one that was granted, in turn; or the highest number
Distance(m) == (m - robin - 1) % Cardinality(Masters)
\* First that keeps to the priorities
FirstByPriority(ms) == CHOOSE m \in ms : \A o \in ms : m >= o
First(ms) ==
    IF RoundRobin THEN CHOOSE m \in ms : \A o \in ms : Distance(m) <= Distance(o)
    ELSE CHOOSE m \in ms : \A o \in ms : m >= o

\* BusFree that does not wait for END_REQ
BusFreeEarly == dataBus \in {"response", "idle"}
BusFree == owner = None /\ dataBus \in {"response", "idle"}

\* the events of a transfer, in clocks from its grant: END_REQ after the wait
\* states and the words, BEGIN_RESP early enough for a clock for each word
AddressDelay(t) == t.words + WaitStates
Answers(t) ==
    IF t.line = Pnp
    THEN {[event |-> Event("request", t), clocks |-> t.words],
          [event |-> Event("response", t), clocks |-> 1]}
    ELSE {[event |-> Event("slaveRequest", t), clocks |-> AddressDelay(t)],
          [event |-> Event("slaveResponse", t), clocks |-> AddressDelay(t) - (t.words - 1)]}

\* BEGIN_REQ goes to the slave, which carries the transfer out at once
Carry(t) ==
    /\ mem' = IF t.cmd = "write" /\ t.line \in Lines THEN [mem EXCEPT ![t.line] = t.val] ELSE mem
    /\ buf' = IF t.cmd = "read" THEN [buf EXCEPT ![t.master] =
                                        IF t.line \in Lines THEN mem[t.line] ELSE NoVal]
              ELSE buf

Granted(m) ==
    LET t == request[m]
    IN  /\ owner' = m
        /\ request' = [request EXCEPT ![m] = NoTrans]
        /\ locked' = IF t.lock THEN m ELSE None
        /\ robin' = IF RoundRobin /\ locked = None THEN m ELSE robin
        /\ Carry(t)
        /\ flight' = Append(flight, t)

\* a clock passes: what is due then is due now, and the interrupt of AHBIn ends
Advance(pending) ==
    /\ now' = {e.event : e \in {x \in pending : x.clocks = 1}}
    /\ later' = {[e EXCEPT !.clocks = @ - 1] : e \in {x \in pending : x.clocks > 1}}
    /\ frame' = IF frame.state = "pulse" THEN [state |-> "waiting", word |-> 1, val |-> NoVal]
                ELSE frame

Grant(m) ==
    /\ now = {} /\ soon = {}
    /\ BusFree /\ Candidates # {} /\ m = First(Candidates)
    /\ Granted(m)
    /\ Advance(later \cup Answers(request[m]))
    /\ UNCHANGED <<cpus, dataBus, soon>>

NoGrant ==
    /\ now = {} /\ soon = {}
    /\ ~(BusFree /\ Candidates # {})
    /\ Advance(later)
    /\ UNCHANGED <<cpus, buf, request, arbiter, mem, soon, flight>>

\* the kernel runs what is due
Kernel == (\E e \in now : Thread(e)) \/ Delta \/ (\E m \in Masters : Grant(m)) \/ NoGrant

Next == Kernel \/ (\E c \in CPUs : Processor(c)) \/ NewFrame

Spec == Init /\ [][Next]_vars

\* the kernel runs as long as something is due, and a SWAP goes on to its store
FairSpec == Spec /\ WF_vars(Kernel) /\ \A c \in CPUs : WF_vars(SwapStore(c))

-----------------------------------------------------------------------------
(* Properties                                                              *)

OwnWrites(c, l) ==
    \/ \E i \in DOMAIN fifo[c] : fifo[c][i].cmd = "write" /\ fifo[c][i].line = l
    \/ /\ active[c] # NoTrans /\ active[c].cmd = "write" /\ active[c].line = l
       /\ \A i \in DOMAIN flight : flight[i] # active[c]

\* What a data cache holds is what the memory holds, except a store of its own
\* processor that has not been granted the bus yet, and a write of another master
\* in its address phase, whose end the snooping waits for.
Coherent ==
    \A c \in CPUs, l \in Lines :
        \/ copy[c][l] = NoVal \/ OwnWrites(c, l) \/ copy[c][l] = mem[l]
        \/ \E i \in DOMAIN flight :
              /\ flight[i].master # c /\ flight[i].cmd = "write" /\ flight[i].line = l
              /\ InAddressPhase(flight[i])

\* When the AHBIn raises its interrupt, the whole frame can be read: no cache holds
\* an older word, nor is a word of it on its way to the memory.
FrameVisible ==
    frame.state = "pulse" =>
        /\ request[In] = NoTrans
        /\ \A c \in CPUs, i \in DOMAIN FrameLines :
              \/ copy[c][FrameLines[i]] \in {NoVal, mem[FrameLines[i]]}
              \/ OwnWrites(c, FrameLines[i])
              \/ \E j \in DOMAIN flight :
                    /\ flight[j].master \notin {c, In} /\ flight[j].line = FrameLines[i]
                    /\ InAddressPhase(flight[j])

\* Transfers take effect and end in the order of the grants, two at most at a time,
\* and a locked bus is granted to its master only.
Accepted == {t \in {e.trans : e \in {x \in now \cup soon : x.thread = "accept"}} : Decoded(t)}
Bus == INSTANCE AhbOrder WITH
    waiting <- Accepted \cup {request[m] : m \in Wanted},
    holder <- locked,
    NoMaster <- None
ImplementsOrder == Bus!Spec

\* Under round robin every transfer of an address some slave has comes to its end
\* and every frame to its interrupt: no answer is missed, no lock held for ever.
Served ==
    /\ \A c \in CPUs :
        /\ (active[c] # NoTrans /\ Decoded(active[c]) /\ phase[c] = "request")
              ~> (phase[c] = "response")
        /\ (phase[c] = "response") ~> (phase[c] = "request")
    /\ (frame.state = "writing") ~> (frame.state = "pulse")
=============================================================================
