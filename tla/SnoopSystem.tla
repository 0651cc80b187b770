---------------------------- MODULE SnoopSystem ----------------------------
(***************************************************************************)
(* Processors with a data cache each on one AHB, loosely timed (LT).  A    *)
(* store changes the line of its own cache at once and is posted to the    *)
(* fifo of its mmu_cache; the mem_access thread of that mmu_cache takes    *)
(* transactions out of the fifo one at a time and calls                    *)
(* AHBCtrl::b_transport, which waits until the bus is free and not locked  *)
(* by another master.  The slave answers when the transfer begins; the     *)
(* other caches are told of a write when it ends.  A load that misses is   *)
(* posted behind the stores and blocks its processor.                      *)
(*                                                                         *)
(* SWAP and LDSTUB are a load and a store of one processor.                *)
(*                                                                         *)
(* Left out: address translation (the MMU, where there is one, is in       *)
(* bypass), error responses, the clock.  All caches are enabled.           *)
(***************************************************************************)
EXTENDS VectorCache, Sequences

CONSTANTS
    CPUs,        \* the processors, each with its mmu_cache, an AHB master
    BusId,       \* the number of the ahbIN binding of each
    HIndex,      \* m_master_id of each mmu_cache, the hindex it is made with
    Cacheable,   \* tags the m_cached mask lets be cached
    Mmu,         \* mmu_en: the caches reach the bus through the tlb_adaptors
    Fetched,     \* addresses of instructions that are not in an instruction cache
    Atomics,     \* the read-modify-write instructions in use: see Rmw
    MaxPosted,   \* bound: 1 for what bus_in_fifo holds, 2 with what put() waits with
    NoTrans, NoRmw, NoLoad, NoVal   \* model values

ASSUME SnoopSystemAssumption ==
    /\ Cacheable \subseteq Tags
    /\ DOMAIN BusId = CPUs /\ DOMAIN HIndex = CPUs
    /\ Mmu \in BOOLEAN
    /\ Fetched \subseteq Tags \X Indices \X Words
    /\ Atomics \subseteq [lock : BOOLEAN, forced : BOOLEAN]
    /\ LineFetch
    /\ MaxPosted \in 1..2
    /\ NoVal \notin Values

VARIABLES
    cache,   \* the data cache of each processor
    rand,    \* its m_pseudo_rand
    fifo,    \* bus_in_fifo of each mmu_cache, and the transaction put() waits with
    active,  \* the transaction mem_access is carrying out
    rmw,     \* the SWAP or LDSTUB a processor is in
    busy, isLock, lockMaster,   \* AHBCtrl
    mem,     \* the memory behind the AHB
    seen     \* history: the last load of each processor and what it returned

vars == <<cache, rand, fifo, active, rmw, busy, isLock, lockMaster, mem, seen>>

Addresses == Tags \X Indices \X Words

\* a transaction; a write carries one word, a read brings a line, which goes into
\* the cache if fill holds, into the way it was found in if there is one
Trans == [cmd : {"read", "write"}, addr : Addresses, lock : BOOLEAN,
          val : Values \cup {NoVal},     \* what a write writes
          swapped : Values \cup {NoVal}, \* history: what the load of its SWAP or LDSTUB saw
          load : BOOLEAN, found : WayNrs \cup {NoWay}]

NoData == [w \in Words |-> NoVal]

\* mem_access waits in b_transport, then holds the bus, then has the answer of a
\* read; data is what the slave answered, and old what a write has replaced
Active == [trans : Trans, phase : {"wait", "bus", "answered"},
           data : Contents \cup {NoData}, old : Values \cup {NoVal}]

\* a SWAP or LDSTUB: the address, what it will write, what its load returned
Rmw == [addr : Addresses, val : Values, got : Values \cup {NoVal}]

ASSUME SnoopSystemNothings == NoTrans \notin Active /\ NoRmw \notin Rmw

TypeOK ==
    /\ cache \in [CPUs -> CacheType]
    /\ rand \in [CPUs -> WayNrs]
    /\ fifo \in [CPUs -> Seq(Trans)]
    /\ \A c \in CPUs : Len(fifo[c]) <= MaxPosted
    /\ active \in [CPUs -> Active \cup {NoTrans}]
    /\ rmw \in [CPUs -> Rmw \cup {NoRmw}]
    /\ busy \in BOOLEAN /\ isLock \in BOOLEAN /\ lockMaster \in CPUs
    /\ mem \in [Tags -> [Indices -> Contents]]
    /\ seen \in [CPUs -> (Addresses \X Values) \cup {NoLoad}]

Init ==
    /\ \E tag \in Tags, data \in Contents :
            cache = [c \in CPUs |-> EmptyCache(tag, data)]
    /\ rand = [c \in CPUs |-> 0]
    /\ fifo = [c \in CPUs |-> <<>>]
    /\ active = [c \in CPUs |-> NoTrans]
    /\ rmw = [c \in CPUs |-> NoRmw]
    /\ busy = FALSE /\ isLock = FALSE /\ lockMaster \in CPUs
    /\ mem \in [Tags -> [Indices -> Contents]]
    /\ seen = [c \in CPUs |-> NoLoad]

-----------------------------------------------------------------------------
(* The processor                                                           *)

Value(line, addr) == line.entry[addr[3]]

Locate(c, addr) == LocateLine(cache[c], addr[2], addr[1], addr[3])

\* mem_read and mem_write put a transaction into the fifo
Post(c, trans) == fifo' = [fifo EXCEPT ![c] = Append(@, trans)]

\* the processor waits for bus_read_completed
Reads(trans) == trans.cmd = "read"
Waits(c) ==
    \/ \E n \in DOMAIN fifo[c] : Reads(fifo[c][n])
    \/ active[c] # NoTrans /\ Reads(active[c].trans)

\* Runs when put() does not wait for room
RunsOn(c) == ~Waits(c)

\* it waits neither for a read nor in put(), the fifo having room for one
Runs(c) == ~Waits(c) /\ Len(fifo[c]) < MaxPosted

\* ReadTrans that forgets the lock
ReadTransUnlocked(addr, lock, load, found) ==
    [cmd |-> "read", addr |-> addr, lock |-> FALSE, val |-> NoVal,
     swapped |-> NoVal, load |-> load, found |-> found]

ReadTrans(addr, lock, load, found) ==
    [cmd |-> "read", addr |-> addr, lock |-> lock, val |-> NoVal,
     swapped |-> NoVal, load |-> load, found |-> found]

\* the load returns to the instruction that made it
Return(c, addr, val) ==
    /\ seen' = [seen EXCEPT ![c] = <<addr, val>>]
    /\ rmw' = IF rmw[c] = NoRmw THEN rmw ELSE [rmw EXCEPT ![c].got = val]

Hit(c, addr) ==
    LET way == Locate(c, addr)
    IN  /\ way # NoWay
        /\ cache' = [cache EXCEPT ![c] = Touch(@, addr[2], way)]
        /\ UNCHANGED <<rand, fifo, active, busy, isLock, lockMaster, mem>>

\* ASI 1 forces a miss
Miss(c, addr, lock, forced) ==
    /\ Locate(c, addr) = NoWay \/ forced
    /\ Post(c, ReadTrans(addr, lock, TRUE, Locate(c, addr)))
    /\ UNCHANGED <<cache, rand, active, busy, isLock, lockMaster, mem>>

Load(c, addr) ==
    /\ Runs(c) /\ rmw[c] = NoRmw
    /\ \/ Hit(c, addr) /\ Return(c, addr, Value(cache[c][addr[2]][Locate(c, addr)], addr))
       \/ Miss(c, addr, FALSE, FALSE) /\ UNCHANGED <<rmw, seen>>

\* an instruction the processor has to fetch from the memory
Fetch(c, addr) ==
    /\ Runs(c) /\ rmw[c] = NoRmw
    /\ Post(c, ReadTrans(addr, FALSE, FALSE, NoWay))
    /\ UNCHANGED <<cache, rand, active, rmw, busy, isLock, lockMaster, mem, seen>>

\* WriteLock that always locks
WriteLocks(lock) == TRUE

\* mem_write takes its last two arguments in the other order than the tlb_adaptor
\* passes them: there lock gets cacheable, which is true
WriteLock(lock) == IF Mmu THEN TRUE ELSE lock

\* StoreData that leaves the line it hits alone
StoreAround(c, addr, val, swapped) ==
    /\ Post(c, [cmd |-> "write", addr |-> addr, lock |-> WriteLock(FALSE),
                val |-> val, swapped |-> swapped, load |-> FALSE, found |-> NoWay])
    /\ UNCHANGED <<cache, rand, active, busy, isLock, lockMaster, mem, seen>>

StoreData(c, addr, val, swapped) ==
    LET way == Locate(c, addr)
    IN  /\ cache' = IF way = NoWay THEN cache
                    ELSE [cache EXCEPT ![c] = UpdateLine(@, addr[2], way, addr[1],
                                        {addr[3]}, [w \in Words |-> val])]
        /\ Post(c, [cmd |-> "write", addr |-> addr, lock |-> WriteLock(FALSE),
                    val |-> val, swapped |-> swapped, load |-> FALSE, found |-> NoWay])
        /\ UNCHANGED <<rand, active, busy, isLock, lockMaster, mem, seen>>

Store(c, addr, val) ==
    /\ Runs(c) /\ rmw[c] = NoRmw
    /\ StoreData(c, addr, val, NoVal)
    /\ UNCHANGED rmw

\* the load of a SWAP, which locks the bus, or of an LDSTUB, which does not
RmwLoad(c, addr, val, kind) ==
    LET start == [addr |-> addr, val |-> val, got |-> NoVal]
    IN  /\ Runs(c) /\ rmw[c] = NoRmw
        /\ \/ /\ ~kind.forced
              /\ Hit(c, addr)
              /\ LET got == Value(cache[c][addr[2]][Locate(c, addr)], addr)
                 IN  /\ seen' = [seen EXCEPT ![c] = <<addr, got>>]
                     /\ rmw' = [rmw EXCEPT ![c] = [start EXCEPT !.got = got]]
           \/ /\ Miss(c, addr, kind.lock, kind.forced)
              /\ rmw' = [rmw EXCEPT ![c] = start]
              /\ UNCHANGED seen

\* and its store
RmwStore(c) ==
    /\ Runs(c) /\ rmw[c] # NoRmw
    /\ StoreData(c, rmw[c].addr, rmw[c].val, rmw[c].got)
    /\ rmw' = [rmw EXCEPT ![c] = NoRmw]

-----------------------------------------------------------------------------
(* The mem_access thread and the bus                                       *)

MemLine(addr) == mem[addr[1]][addr[2]]

Serve(c) ==
    /\ active[c] = NoTrans /\ fifo[c] # <<>>
    /\ fifo' = [fifo EXCEPT ![c] = Tail(@)]
    /\ active' = [active EXCEPT ![c] =
                [trans |-> Head(fifo[c]), phase |-> "wait", data |-> NoData, old |-> NoVal]]
    /\ UNCHANGED <<cache, rand, rmw, busy, isLock, lockMaster, mem, seen>>

Free(c) == ~busy /\ (isLock => lockMaster = c)

\* act once the slave has answered a read, or taken a write
Transferring(act) ==
    LET line == MemLine(act.trans.addr)
    IN  IF Reads(act.trans)
        THEN [act EXCEPT !.phase = "bus", !.data = line]
        ELSE [act EXCEPT !.phase = "bus", !.old = line[act.trans.addr[3]]]

\* Begin(c) with its guard and the lock it leaves as parameters
BeginWith(c, granted, locked) ==
    /\ active[c] # NoTrans /\ active[c].phase = "wait"
    /\ granted
    /\ LET trans == active[c].trans
           addr  == trans.addr
       IN  /\ busy' = TRUE
           /\ isLock' = locked
           /\ lockMaster' = c
           /\ active' = [active EXCEPT ![c] = Transferring(@)]
           /\ mem' = IF Reads(trans) THEN mem
                     ELSE [mem EXCEPT ![addr[1]][addr[2]][addr[3]] = trans.val]
    /\ UNCHANGED <<cache, rand, fifo, rmw, seen>>

\* Begin while another transfer goes on
BeginBusy(c) == BeginWith(c, isLock => lockMaster = c, active[c].trans.lock)

\* Begin that never gives the lock up
BeginKeepsLock(c) == BeginWith(c, Free(c), isLock \/ active[c].trans.lock)

\* b_transport gets the bus, and the slave reads or writes
Begin(c) == BeginWith(c, Free(c), active[c].trans.lock)

\* Snooped where each cache takes the write for its own
SnoopedByNone(c, addr) == cache

\* snoop.write calls snoopingCallBack of every mmu_cache, with the binding number
\* of the master as its id
Snooped(c, addr) ==
    [d \in CPUs |-> IF HIndex[d] = BusId[c] THEN cache[d]
                    ELSE SnoopInvalidate(cache[d], addr[2], addr[1], addr[3])]

\* b_transport returns after one clock cycle at least, by which time a processor
\* that has been answered before has gone on
Finish(c) ==
    /\ active[c] # NoTrans /\ active[c].phase = "bus"
    /\ \A d \in CPUs : active[d] # NoTrans => active[d].phase # "answered"
    /\ busy' = FALSE
    /\ IF Reads(active[c].trans)
       THEN /\ active' = [active EXCEPT ![c].phase = "answered"]
            /\ UNCHANGED cache
       ELSE /\ active' = [active EXCEPT ![c] = NoTrans]
            /\ cache' = Snooped(c, active[c].trans.addr)
    /\ UNCHANGED <<rand, fifo, rmw, isLock, lockMaster, mem, seen>>

\* bus_read_completed: mem_read goes on in the processor's thread
Complete(c) ==
    /\ active[c] # NoTrans /\ active[c].phase = "answered"
    /\ LET trans == active[c].trans
           addr  == trans.addr
           way   == IF trans.found # NoWay THEN trans.found
                    ELSE AllocateWay(cache[c], addr[2], Words, rand[c])
       IN  /\ IF trans.load /\ (trans.found # NoWay \/ addr[1] \in Cacheable)
              THEN /\ cache' = [cache EXCEPT ![c] =
                        UpdateLine(@, addr[2], way, addr[1], Words, active[c].data)]
                   /\ rand' = IF trans.found # NoWay THEN rand
                              ELSE [rand EXCEPT ![c] = NextRand(cache[c], addr[2], Words, @)]
              ELSE UNCHANGED <<cache, rand>>
           /\ IF trans.load THEN Return(c, addr, active[c].data[addr[3]])
              ELSE UNCHANGED <<rmw, seen>>
    /\ active' = [active EXCEPT ![c] = NoTrans]
    /\ UNCHANGED <<fifo, busy, isLock, lockMaster, mem>>

-----------------------------------------------------------------------------
Processor(c) ==
    \/ \E addr \in Addresses :
          \/ Load(c, addr)
          \/ addr \in Fetched /\ Fetch(c, addr)
          \/ \E val \in Values : Store(c, addr, val)
          \/ \E val \in Values, kind \in Atomics : RmwLoad(c, addr, val, kind)
    \/ RmwStore(c)

Bus(c) == Serve(c) \/ Begin(c) \/ Finish(c) \/ Complete(c)

Next == \E c \in CPUs : Processor(c) \/ Bus(c)

Spec == Init /\ [][Next]_vars

\* a SystemC thread that can run does, and an instruction that is begun ends
Fairness == \A c \in CPUs : WF_vars(Bus(c)) /\ WF_vars(RmwStore(c))

FairSpec == Spec /\ Fairness

-----------------------------------------------------------------------------
(* Properties                                                              *)

Writes(c) == active[c] # NoTrans /\ ~Reads(active[c].trans)

\* the writes in the fifo: a read is its last transaction, the processor waits for it
Posted(c) ==
    LET n == Len(fifo[c]) IN IF n > 0 /\ Reads(fifo[c][n]) THEN n - 1 ELSE n

\* the writes of a processor that other processors cannot have seen, oldest first
Pending(c) ==
    IF Writes(c)
    THEN [n \in 1..(Posted(c) + 1) |-> IF n = 1 THEN active[c].trans ELSE fifo[c][n - 1]]
    ELSE [n \in 1..Posted(c) |-> fifo[c][n]]

\* the processors whose write to addr holds the bus
Writing(addr) ==
    {c \in CPUs : /\ active[c] # NoTrans /\ active[c].phase = "bus"
                  /\ ~Reads(active[c].trans) /\ active[c].trans.addr = addr}

\* the memory as of the transfers that have ended
Ended == [addr \in Addresses |->
            IF Writing(addr) = {} THEN MemLine(addr)[addr[3]]
            ELSE active[CHOOSE c \in Writing(addr) : TRUE].old]

Buffer(c) == [n \in DOMAIN Pending(c) |-> <<Pending(c)[n].addr, Pending(c)[n].val>>]

Promised == INSTANCE TSOMemory WITH
    memory <- Ended, buffer <- [c \in CPUs |-> Buffer(c)]

\* The processors cannot tell the system from a memory with store buffers: caches
\* filled, written and snooped at different moments of a transfer add no
\* behaviour (ahbctrl.cpp:602: "Snooping is too early (in address phase) which can
\* cause a coherence problem, snooping must be done later").
TotalStoreOrder == Promised!Spec

\* Every word of a valid line is what a load of that processor must return: its own
\* newest store on the way to the memory, or else the memory
\* (mmu_cache.md 1.4, snooping).
Coherent ==
    \A c \in CPUs, idx \in Indices, way \in WayNrs :
        LET line == cache[c][idx][way]
        IN  \A word \in GoodWords(line) :
                line.entry[word] = Promised!Newest(Buffer(c), <<line.atag, idx, word>>)

\* One transfer at a time: who holds the bus has set busy and is the lock master.
OneTransfer ==
    \A c \in CPUs :
        active[c] # NoTrans /\ active[c].phase = "bus" => busy /\ lockMaster = c

\* amba_lock "indicates that master requires locked access to bus"
\* (interconnect_method.md:30): the bus is kept from the others only between the
\* load and the store of a SWAP.
LockWanted ==
    isLock => \/ rmw[lockMaster] # NoRmw
              \/ \E n \in DOMAIN Pending(lockMaster) :
                    Pending(lockMaster)[n].swapped # NoVal

\* A SWAP or LDSTUB is atomic: what its store replaces in the memory is what its
\* load returned (grlib_tests/mptest.c takes its semaphore that way).
Atomic ==
    [][\A c \in CPUs :
          Begin(c) /\ active[c].trans.swapped # NoVal =>
              MemLine(active[c].trans.addr)[active[c].trans.addr[3]]
                  = active[c].trans.swapped]_vars

Quiet(c) == fifo[c] = <<>> /\ active[c] = NoTrans /\ rmw[c] = NoRmw

\* A transaction gets its turn, at the latest when the other processors leave the
\* bus alone: no lock is left behind and no thread waits for an event that has
\* passed.
Served ==
    \A c \in CPUs :
        <>[](\A d \in CPUs \ {c} : Quiet(d)) => []<>(active[c] = NoTrans)
=============================================================================
