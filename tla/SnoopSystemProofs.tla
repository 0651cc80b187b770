------------------------- MODULE SnoopSystemProofs -------------------------
(***************************************************************************)
(* Proofs about the processors on one AHB, for any number of them, any     *)
(* addresses and values: first of the bus, its locks and the SWAPs, then   *)
(* that the caches are coherent, and that the processors cannot tell the   *)
(* system from a memory with store buffers.  The latter needs that each    *)
(* cache takes for its own exactly the writes its own bus thread makes:    *)
(* hindex and the number of the AHB binding are the same (OwnIds).         *)
(***************************************************************************)
EXTENDS SnoopSystem, VectorCacheProofs, SequenceTheorems, TLAPS

\* what mem_access carries out is a record of these fields
ActiveShape ==
    /\ active = [c \in CPUs |-> active[c]]
    /\ \A c \in CPUs : active[c] # NoTrans =>
          active[c] = [trans |-> active[c].trans, phase |-> active[c].phase,
                       data |-> active[c].data, old |-> active[c].old]

\* The inductive invariant: the record shape is needed for the fields an EXCEPT keeps.
Inv == ActiveShape /\ OneTransfer

\* An instruction posts to the fifo and leaves the bus to mem_access.
LEMMA ProcessorsWait ==
    ASSUME NEW c \in CPUs, Processor(c)
    PROVE  UNCHANGED <<active, busy, lockMaster>>
<1>1. ASSUME NEW addr \in Addresses, Load(c, addr) PROVE UNCHANGED <<active, busy, lockMaster>>
  BY <1>1 DEF Load, Hit, Miss
<1>2. ASSUME NEW addr \in Addresses, Fetch(c, addr) PROVE UNCHANGED <<active, busy, lockMaster>>
  BY <1>2 DEF Fetch
<1>3. ASSUME NEW addr \in Addresses, NEW val \in Values, Store(c, addr, val)
      PROVE  UNCHANGED <<active, busy, lockMaster>>
  BY <1>3 DEF Store, StoreData
<1>4. ASSUME NEW addr \in Addresses, NEW val \in Values, NEW kind \in Atomics,
             RmwLoad(c, addr, val, kind)
      PROVE  UNCHANGED <<active, busy, lockMaster>>
  BY <1>4 DEF RmwLoad, Hit, Miss
<1>5. CASE RmwStore(c)
  BY <1>5 DEF RmwStore, StoreData
<1> QED BY <1>1, <1>2, <1>3, <1>4, <1>5 DEF Processor

\* A transfer begins when the bus is free, and ends as the only one.
LEMMA InvKept == Inv /\ [Next]_vars => Inv'
<1> SUFFICES ASSUME Inv, [Next]_vars PROVE Inv'
  OBVIOUS
<1> USE DEF Inv, ActiveShape, OneTransfer
<1>1. ASSUME NEW c \in CPUs, Processor(c) PROVE Inv'
  BY <1>1, ProcessorsWait
<1>2. ASSUME NEW c \in CPUs, Serve(c) PROVE Inv'
  <2> DEFINE new == [trans |-> Head(fifo[c]), phase |-> "wait", data |-> NoData, old |-> NoVal]
  <2>1. active' = [active EXCEPT ![c] = new] /\ busy' = busy /\ lockMaster' = lockMaster
    BY <1>2 DEF Serve
  <2>2. new.phase # "bus"
    OBVIOUS
  <2>3. new = [trans |-> new.trans, phase |-> new.phase, data |-> new.data, old |-> new.old]
    OBVIOUS
  <2> HIDE DEF new
  <2> QED BY <2>1, <2>2, <2>3
<1>3. ASSUME NEW c \in CPUs, Begin(c) PROVE Inv'
  <2> DEFINE new == Transferring(active[c])
  <2>1. /\ active[c] # NoTrans /\ ~busy
        /\ active' = [active EXCEPT ![c] = new] /\ busy' = TRUE /\ lockMaster' = c
    BY <1>3 DEF Begin, BeginWith, Free
  <2>2. new = [trans |-> new.trans, phase |-> new.phase, data |-> new.data, old |-> new.old]
    <3> DEFINE act == active[c]
    <3>1. act = [trans |-> act.trans, phase |-> act.phase, data |-> act.data, old |-> act.old]
      BY <2>1
    <3> HIDE DEF act
    <3>2. Transferring(act) = [trans |-> Transferring(act).trans, phase |-> Transferring(act).phase,
                               data |-> Transferring(act).data, old |-> Transferring(act).old]
      BY <3>1 DEF Transferring
    <3> QED BY <3>2 DEF act
  <2> HIDE DEF new
  <2> QED BY <2>1, <2>2
<1>4. ASSUME NEW c \in CPUs, Finish(c) PROVE Inv'
  <2>1. /\ active[c] # NoTrans /\ active[c].phase = "bus"
        /\ busy' = FALSE /\ lockMaster' = lockMaster
    BY <1>4 DEF Finish
  <2>2. \A d \in CPUs \ {c} : ~(active[d] # NoTrans /\ active[d].phase = "bus")
    BY <2>1
  <2>3. CASE Reads(active[c].trans)
    <3> DEFINE act == active[c]
               new == [act EXCEPT !.phase = "answered"]
    <3>1. act = [trans |-> act.trans, phase |-> act.phase, data |-> act.data, old |-> act.old]
      BY <2>1
    <3>2. active' = [active EXCEPT ![c] = new]
      BY <1>4, <2>3 DEF Finish
    <3> HIDE DEF act
    <3>3. /\ new.phase # "bus"
          /\ new = [trans |-> new.trans, phase |-> new.phase, data |-> new.data, old |-> new.old]
      BY <3>1
    <3> HIDE DEF new
    <3> QED BY <2>1, <2>2, <3>2, <3>3
  <2>4. CASE ~Reads(active[c].trans)
    <3>1. active' = [active EXCEPT ![c] = NoTrans]
      BY <1>4, <2>4 DEF Finish
    <3> QED BY <2>1, <2>2, <3>1
  <2> QED BY <2>3, <2>4
<1>5. ASSUME NEW c \in CPUs, Complete(c) PROVE Inv'
  <2>1. active' = [active EXCEPT ![c] = NoTrans] /\ busy' = busy /\ lockMaster' = lockMaster
    BY <1>5 DEF Complete
  <2> QED BY <2>1
<1>6. CASE UNCHANGED vars
  BY <1>6 DEF vars
<1> QED BY <1>1, <1>2, <1>3, <1>4, <1>5, <1>6 DEF Next, Bus

\* Transfers of different masters never overlap: AHBCtrl tests and sets busy without
\* waiting in between, and only the thread that set it clears it.
THEOREM TransfersAreSerial == Spec => []OneTransfer
<1>1. Init => Inv
  BY DEF Init, Inv, ActiveShape, OneTransfer
<1>2. Inv /\ [Next]_vars => Inv'
  BY InvKept
<1>3. Inv => OneTransfer
  BY DEF Inv
<1> QED BY <1>1, <1>2, <1>3, PTL DEF Spec

-----------------------------------------------------------------------------
(* Types                                                                   *)

\* a write carries a value, and no load waits for it; only a write is part of a swap
Proper(t) == IF Reads(t) THEN t.swapped = NoVal ELSE t.val \in Values /\ ~t.load

\* a slave that has answered has answered with values
Answered(act) ==
    act.phase # "wait" => IF Reads(act.trans) THEN act.data \in Contents ELSE act.old \in Values

CachesOK ==
    /\ cache \in [CPUs -> CacheType]
    /\ rand \in [CPUs -> WayNrs]
    /\ \A c \in CPUs : Sane(cache[c])

FifosOK ==
    /\ fifo \in [CPUs -> Seq(Trans)]
    /\ \A c \in CPUs : Len(fifo[c]) <= MaxPosted
    /\ \A c \in CPUs : \A n \in 1..Len(fifo[c]) : Proper(fifo[c][n])

ActiveOK ==
    /\ active \in [CPUs -> Active \cup {NoTrans}]
    /\ \A c \in CPUs : active[c] # NoTrans => Proper(active[c].trans) /\ Answered(active[c])

RmwOK == rmw \in [CPUs -> Rmw \cup {NoRmw}]

SeenOK == seen \in [CPUs -> (Addresses \X Values) \cup {NoLoad}]

BusOK ==
    /\ busy \in BOOLEAN /\ isLock \in BOOLEAN /\ lockMaster \in CPUs
    /\ mem \in [Tags -> [Indices -> Contents]]

\* the types, what is true of each cache as a value, and the values under way
Sorts == CachesOK /\ FifosOK /\ ActiveOK /\ RmwOK /\ SeenOK /\ BusOK

LEMMA SortsAreTypes == Sorts => TypeOK
BY DEF Sorts, TypeOK, CachesOK, FifosOK, ActiveOK, RmwOK, SeenOK, BusOK

LEMMA AddressFacts ==
    ASSUME NEW addr \in Addresses
    PROVE  /\ addr[1] \in Tags /\ addr[2] \in Indices /\ addr[3] \in Words
           /\ addr = <<addr[1], addr[2], addr[3]>>
BY DEF Addresses

LEMMA SaneTogether ==
    ASSUME cache' \in [CPUs -> CacheType], rand' \in [CPUs -> WayNrs],
           \A c \in CPUs : Sane(cache'[c])
    PROVE  CachesOK'
BY DEF CachesOK, Sane, WholeLines, Marks, Unlocked

LEMMA TransFields ==
    ASSUME NEW t \in Trans
    PROVE  /\ t.cmd \in {"read", "write"} /\ t.addr \in Addresses /\ t.lock \in BOOLEAN
           /\ t.val \in Values \cup {NoVal} /\ t.swapped \in Values \cup {NoVal}
           /\ t.load \in BOOLEAN /\ t.found \in WayNrs \cup {NoWay}
BY DEF Trans

LEMMA ActiveFields ==
    ASSUME NEW act \in Active
    PROVE  /\ act.trans \in Trans /\ act.phase \in {"wait", "bus", "answered"}
           /\ act.data \in Contents \cup {NoData} /\ act.old \in Values \cup {NoVal}
           /\ act # NoTrans
           /\ act = [trans |-> act.trans, phase |-> act.phase, data |-> act.data, old |-> act.old]
BY SnoopSystemNothings DEF Active

LEMMA ActiveOf ==
    ASSUME NEW t \in Trans, NEW ph \in {"wait", "bus", "answered"},
           NEW d \in Contents \cup {NoData}, NEW o \in Values \cup {NoVal}
    PROVE  LET act == [trans |-> t, phase |-> ph, data |-> d, old |-> o]
           IN  /\ act \in Active /\ act # NoTrans
               /\ act.trans = t /\ act.phase = ph /\ act.data = d /\ act.old = o
BY SnoopSystemNothings DEF Active

\* put(): the transaction goes behind the others of its processor.
LEMMA PostTypes ==
    ASSUME Sorts, NEW c \in CPUs, NEW t \in Trans, Proper(t), Post(c, t), Len(fifo[c]) < MaxPosted
    PROVE  /\ fifo' \in [CPUs -> Seq(Trans)]
           /\ fifo'[c] = Append(fifo[c], t)
           /\ Len(fifo'[c]) = Len(fifo[c]) + 1
           /\ \A n \in 1..Len(fifo[c]) : fifo'[c][n] = fifo[c][n]
           /\ fifo'[c][Len(fifo[c]) + 1] = t
           /\ \A d \in CPUs \ {c} : fifo'[d] = fifo[d]
           /\ \A d \in CPUs : Len(fifo'[d]) <= MaxPosted
           /\ \A d \in CPUs : \A n \in 1..Len(fifo'[d]) : Proper(fifo'[d][n])
<1>1. fifo \in [CPUs -> Seq(Trans)] /\ fifo[c] \in Seq(Trans)
  BY DEF Sorts, FifosOK
<1>2. fifo' = [fifo EXCEPT ![c] = Append(fifo[c], t)]
  BY DEF Post
<1>3. /\ Append(fifo[c], t) \in Seq(Trans)
      /\ Len(Append(fifo[c], t)) = Len(fifo[c]) + 1
      /\ \A n \in 1..Len(fifo[c]) : Append(fifo[c], t)[n] = fifo[c][n]
      /\ Append(fifo[c], t)[Len(fifo[c]) + 1] = t
  BY <1>1, AppendProperties
<1>4. MaxPosted \in Nat /\ Len(fifo[c]) \in Nat
  BY <1>1, SnoopSystemAssumption, LenProperties
<1>5. /\ fifo' \in [CPUs -> Seq(Trans)]
      /\ fifo'[c] = Append(fifo[c], t)
      /\ \A d \in CPUs \ {c} : fifo'[d] = fifo[d]
  BY <1>1, <1>2, <1>3
<1>6. ASSUME NEW d \in CPUs PROVE Len(fifo'[d]) <= MaxPosted
  <2>1. CASE d # c
    BY <1>5, <2>1 DEF Sorts, FifosOK
  <2>2. CASE d = c
    BY <1>3, <1>4, <1>5, <2>2
  <2> QED BY <2>1, <2>2
<1>7. ASSUME NEW d \in CPUs, NEW n \in 1..Len(fifo'[d]) PROVE Proper(fifo'[d][n])
  <2>1. CASE d # c
    BY <1>5, <1>7, <2>1 DEF Sorts, FifosOK
  <2>2. CASE d = c
    <3>1. n \in 1..Len(fifo[c]) \/ n = Len(fifo[c]) + 1
      BY <1>3, <1>4, <1>5, <1>7, <2>2
    <3> QED BY <1>3, <1>5, <2>2, <3>1 DEF Sorts, FifosOK
  <2> QED BY <2>1, <2>2
<1> QED BY <1>3, <1>5, <1>6, <1>7

\* locate_line finds a word of the line it names.
LEMMA LocateFacts ==
    ASSUME Sorts, NEW c \in CPUs, NEW addr \in Addresses
    PROVE  /\ Locate(c, addr) \in WayNrs \cup {NoWay}
           /\ Locate(c, addr) # NoWay =>
                  LET line == cache[c][addr[2]][Locate(c, addr)]
                  IN  /\ Locate(c, addr) \in WayNrs
                      /\ line.atag = addr[1]
                      /\ addr[3] \in GoodWords(line)
                      /\ Value(line, addr) \in Values
           /\ Locate(c, addr) = NoWay =>
                  \A w \in WayNrs : cache[c][addr[2]][w].atag = addr[1] =>
                                       addr[3] \notin GoodWords(cache[c][addr[2]][w])
<1>1. cache[c] \in CacheType
  BY DEF Sorts, CachesOK
<1>2. addr[1] \in Tags /\ addr[2] \in Indices /\ addr[3] \in Words
  BY AddressFacts
<1>3. \A w \in WayNrs : cache[c][addr[2]][w].entry[addr[3]] \in Values
  BY <1>1, <1>2 DEF CacheType, Line, Contents
<1> QED BY <1>1, <1>2, <1>3, Located DEF Locate, Value

LEMMA HitTypes ==
    ASSUME Sorts, NEW c \in CPUs, NEW addr \in Addresses, Hit(c, addr)
    PROVE  /\ Locate(c, addr) # NoWay
           /\ Locate(c, addr) \in WayNrs
           /\ cache' \in [CPUs -> CacheType]
           /\ \A d \in CPUs : Sane(cache'[d])
           /\ \A d \in CPUs \ {c} : cache'[d] = cache[d]
           /\ \A i \in Indices, w \in WayNrs : SameLine(cache'[c][i][w], cache[c][i][w])
<1> DEFINE way == Locate(c, addr)
<1>1. way \in WayNrs /\ addr[2] \in Indices /\ way # NoWay
  BY LocateFacts, AddressFacts DEF Hit
<1>2. cache' = [cache EXCEPT ![c] = Touch(cache[c], addr[2], way)]
  BY DEF Hit
<1>3. /\ Sane(Touch(cache[c], addr[2], way))
      /\ \A i \in Indices, w \in WayNrs : SameLine(Touch(cache[c], addr[2], way)[i][w], cache[c][i][w])
  BY <1>1, TouchSane DEF Sorts, CachesOK
<1>4. cache \in [CPUs -> CacheType] /\ Touch(cache[c], addr[2], way) \in CacheType
  BY <1>3 DEF Sorts, CachesOK, Sane
<1> HIDE DEF way
<1> QED BY <1>1, <1>2, <1>3, <1>4 DEF Sorts, CachesOK, way

LEMMA ReadTransType ==
    ASSUME NEW addr \in Addresses, NEW lock \in BOOLEAN, NEW load \in BOOLEAN,
           NEW found \in WayNrs \cup {NoWay}
    PROVE  /\ ReadTrans(addr, lock, load, found) \in Trans
           /\ Reads(ReadTrans(addr, lock, load, found))
           /\ Proper(ReadTrans(addr, lock, load, found))
           /\ ReadTrans(addr, lock, load, found).addr = addr
           /\ ReadTrans(addr, lock, load, found).lock = lock
           /\ ReadTrans(addr, lock, load, found).load = load
           /\ ReadTrans(addr, lock, load, found).found = found
           /\ ReadTrans(addr, lock, load, found).swapped = NoVal
BY DEF ReadTrans, Trans, Reads, Proper

\* what mem_write posts
WriteTrans(addr, val, swapped) ==
    [cmd |-> "write", addr |-> addr, lock |-> WriteLock(FALSE),
     val |-> val, swapped |-> swapped, load |-> FALSE, found |-> NoWay]

LEMMA WriteTransType ==
    ASSUME NEW addr \in Addresses, NEW val \in Values, NEW swapped \in Values \cup {NoVal}
    PROVE  /\ WriteTrans(addr, val, swapped) \in Trans
           /\ ~Reads(WriteTrans(addr, val, swapped))
           /\ Proper(WriteTrans(addr, val, swapped))
           /\ WriteTrans(addr, val, swapped).addr = addr
           /\ WriteTrans(addr, val, swapped).val = val
           /\ WriteTrans(addr, val, swapped).swapped = swapped
           /\ WriteTrans(addr, val, swapped).lock => Mmu
BY DEF WriteTrans, WriteLock, Trans, Reads, Proper

LEMMA RmwFields ==
    ASSUME NEW r \in Rmw
    PROVE  /\ r.addr \in Addresses /\ r.val \in Values /\ r.got \in Values \cup {NoVal}
           /\ r # NoRmw
           /\ \A v \in Values : [r EXCEPT !.got = v] \in Rmw
BY SnoopSystemNothings DEF Rmw

LEMMA ReturnTypes ==
    ASSUME Sorts, NEW c \in CPUs, NEW addr \in Addresses, NEW val \in Values,
           Return(c, addr, val)
    PROVE  SeenOK' /\ RmwOK'
<1>1. rmw[c] # NoRmw => [rmw[c] EXCEPT !.got = val] \in Rmw
  BY RmwFields DEF Sorts, RmwOK
<1> QED BY <1>1 DEF Return, Sorts, RmwOK, SeenOK

LEMMA MissTypes ==
    ASSUME Sorts, NEW c \in CPUs, NEW addr \in Addresses, NEW lock \in BOOLEAN,
           NEW forced, Len(fifo[c]) < MaxPosted, Miss(c, addr, lock, forced)
    PROVE  CachesOK' /\ FifosOK' /\ ActiveOK' /\ BusOK'
<1> DEFINE t == ReadTrans(addr, lock, TRUE, Locate(c, addr))
<1>1. t \in Trans /\ Proper(t)
  BY LocateFacts, ReadTransType
<1>2. Post(c, t)
  BY DEF Miss
<1> HIDE DEF t
<1>3. FifosOK'
  BY <1>1, <1>2, PostTypes DEF FifosOK
<1> QED
  BY <1>3 DEF Miss, Sorts, CachesOK, ActiveOK, BusOK

\* A store: the line it hits gets its word, and the write goes into the fifo.
LEMMA StoreTypes ==
    ASSUME Sorts, NEW c \in CPUs, NEW addr \in Addresses, NEW val \in Values,
           NEW swapped \in Values \cup {NoVal}, Len(fifo[c]) < MaxPosted,
           StoreData(c, addr, val, swapped)
    PROVE  /\ CachesOK' /\ FifosOK' /\ ActiveOK' /\ SeenOK' /\ BusOK'
           /\ \A d \in CPUs \ {c} : cache'[d] = cache[d]
           /\ Locate(c, addr) = NoWay => cache'[c] = cache[c]
           /\ Locate(c, addr) # NoWay =>
                  cache'[c] = Stored(cache[c], addr[2], addr[1], addr[3], val)
<1> DEFINE t == WriteTrans(addr, val, swapped)
           new == UpdateLine(cache[c], addr[2], Locate(c, addr), addr[1],
                             {addr[3]}, [w \in Words |-> val])
<1>1. t \in Trans /\ Proper(t)
  BY WriteTransType
<1>2. Post(c, t)
  BY DEF StoreData, WriteTrans
<1>3. FifosOK'
  <2> HIDE DEF t
  <2> QED BY <1>1, <1>2, PostTypes DEF FifosOK
<1>4. cache' = IF Locate(c, addr) = NoWay THEN cache ELSE [cache EXCEPT ![c] = new]
  BY DEF StoreData
<1>5. Locate(c, addr) # NoWay => Sane(new)
  <2>1. [w \in Words |-> val] \in Contents
    BY DEF Contents
  <2>2. /\ addr[1] \in Tags /\ addr[2] \in Indices /\ {addr[3]} \in SUBSET Words
        /\ Locate(c, addr) # NoWay => Locate(c, addr) \in WayNrs
    BY AddressFacts, LocateFacts
  <2>3. Sane(cache[c])
    BY DEF Sorts, CachesOK
  <2> QED BY <2>1, <2>2, <2>3, Updated
<1>6. rand' = rand
  BY DEF StoreData
<1> HIDE DEF new
<1>7. /\ cache' \in [CPUs -> CacheType]
      /\ \A d \in CPUs : Sane(cache'[d])
      /\ \A d \in CPUs \ {c} : cache'[d] = cache[d]
      /\ Locate(c, addr) = NoWay => cache'[c] = cache[c]
      /\ Locate(c, addr) # NoWay => cache'[c] = new
  BY <1>4, <1>5 DEF Sorts, CachesOK, Sane
<1>8. CachesOK'
  BY <1>6, <1>7, SaneTogether DEF Sorts, CachesOK
<1>9. ActiveOK' /\ SeenOK' /\ BusOK'
  BY DEF StoreData, Sorts, ActiveOK, SeenOK, BusOK
<1>10. new = Stored(cache[c], addr[2], addr[1], addr[3], val)
  BY DEF new, Stored, Locate
<1> QED BY <1>3, <1>7, <1>8, <1>9, <1>10

\* Every step of a processor keeps the types.
LEMMA ProcessorSorts ==
    ASSUME Sorts, NEW c \in CPUs, Processor(c)
    PROVE  Sorts'
<1>1. ASSUME NEW addr \in Addresses, Load(c, addr) PROVE Sorts'
  <2>1. Len(fifo[c]) < MaxPosted
    BY <1>1 DEF Load, Runs
  <2>2. CASE Hit(c, addr) /\ Return(c, addr, Value(cache[c][addr[2]][Locate(c, addr)], addr))
    <3>1. Value(cache[c][addr[2]][Locate(c, addr)], addr) \in Values
      BY <2>2, LocateFacts DEF Hit
    <3>2. SeenOK' /\ RmwOK'
      BY <2>2, <3>1, ReturnTypes
    <3>3. CachesOK'
      BY <2>2, HitTypes, SaneTogether DEF Hit, Sorts, CachesOK
    <3> QED BY <2>2, <3>2, <3>3 DEF Hit, Sorts, FifosOK, ActiveOK, BusOK
  <2>3. CASE Miss(c, addr, FALSE, FALSE) /\ UNCHANGED <<rmw, seen>>
    BY <2>1, <2>3, MissTypes DEF Sorts, RmwOK, SeenOK
  <2> QED BY <1>1, <2>2, <2>3 DEF Load
<1>2. ASSUME NEW addr \in Addresses, Fetch(c, addr) PROVE Sorts'
  <2> DEFINE t == ReadTrans(addr, FALSE, FALSE, NoWay)
  <2>1. t \in Trans /\ Proper(t)
    BY ReadTransType
  <2>2. Post(c, t) /\ Len(fifo[c]) < MaxPosted
    BY <1>2 DEF Fetch, Runs
  <2> HIDE DEF t
  <2>3. FifosOK'
    BY <2>1, <2>2, PostTypes DEF FifosOK
  <2> QED BY <1>2, <2>3 DEF Fetch, Sorts, CachesOK, ActiveOK, RmwOK, SeenOK, BusOK
<1>3. ASSUME NEW addr \in Addresses, NEW val \in Values, Store(c, addr, val) PROVE Sorts'
  BY <1>3, StoreTypes DEF Store, Runs, Sorts, RmwOK
<1>4. ASSUME NEW addr \in Addresses, NEW val \in Values, NEW kind \in Atomics,
             RmwLoad(c, addr, val, kind)
      PROVE  Sorts'
  <2> DEFINE start == [addr |-> addr, val |-> val, got |-> NoVal]
             got   == Value(cache[c][addr[2]][Locate(c, addr)], addr)
  <2>1. Len(fifo[c]) < MaxPosted
    BY <1>4 DEF RmwLoad, Runs
  <2>2. start \in Rmw
    BY DEF Rmw
  <2>3. CASE /\ Hit(c, addr)
             /\ seen' = [seen EXCEPT ![c] = <<addr, got>>]
             /\ rmw' = [rmw EXCEPT ![c] = [start EXCEPT !.got = got]]
    <3>1. got \in Values
      BY <2>3, LocateFacts DEF Hit
    <3> HIDE DEF got, start
    <3>2. [start EXCEPT !.got = got] \in Rmw
      BY <2>2, <3>1, RmwFields
    <3>3. SeenOK' /\ RmwOK'
      BY <2>3, <3>1, <3>2 DEF Sorts, SeenOK, RmwOK
    <3>4. CachesOK'
      BY <2>3, HitTypes, SaneTogether DEF Hit, Sorts, CachesOK
    <3> QED BY <2>3, <3>3, <3>4 DEF Hit, Sorts, FifosOK, ActiveOK, BusOK
  <2>4. CASE /\ Miss(c, addr, kind.lock, kind.forced)
             /\ rmw' = [rmw EXCEPT ![c] = start]
             /\ UNCHANGED seen
    <3>1. kind.lock \in BOOLEAN
      BY SnoopSystemAssumption
    <3> HIDE DEF start
    <3> QED BY <2>1, <2>2, <2>4, <3>1, MissTypes DEF Sorts, RmwOK, SeenOK
  <2> QED BY <1>4, <2>3, <2>4 DEF RmwLoad
<1>5. CASE RmwStore(c)
  <2>1. rmw[c] \in Rmw /\ Len(fifo[c]) < MaxPosted
    BY <1>5 DEF RmwStore, Runs, Sorts, RmwOK
  <2>2. RmwOK'
    BY <1>5 DEF RmwStore, Sorts, RmwOK
  <2> QED BY <1>5, <2>1, <2>2, RmwFields, StoreTypes DEF RmwStore, Sorts
<1> QED BY <1>1, <1>2, <1>3, <1>4, <1>5 DEF Processor

LEMMA MemLineType ==
    ASSUME Sorts, NEW addr \in Addresses
    PROVE  /\ MemLine(addr) \in Contents
           /\ MemLine(addr)[addr[3]] \in Values
BY AddressFacts DEF MemLine, Sorts, BusOK, Contents

\* mem_access takes the oldest transaction.
LEMMA ServeTypes ==
    ASSUME Sorts, NEW c \in CPUs, Serve(c)
    PROVE  /\ Sorts'
           /\ Head(fifo[c]) = fifo[c][1] /\ Len(fifo[c]) \in Nat \ {0}
           /\ Len(fifo'[c]) = Len(fifo[c]) - 1
           /\ \A n \in 1..Len(fifo'[c]) : fifo'[c][n] = fifo[c][n + 1]
           /\ \A d \in CPUs \ {c} : fifo'[d] = fifo[d] /\ active'[d] = active[d]
           /\ active'[c] # NoTrans /\ active'[c].trans = fifo[c][1]
           /\ active'[c].phase = "wait"
<1> DEFINE new == [trans |-> Head(fifo[c]), phase |-> "wait", data |-> NoData, old |-> NoVal]
<1>1. /\ fifo \in [CPUs -> Seq(Trans)] /\ fifo[c] \in Seq(Trans) /\ fifo[c] # <<>>
      /\ active \in [CPUs -> Active \cup {NoTrans}]
  BY DEF Serve, Sorts, FifosOK, ActiveOK
<1>2. /\ Len(fifo[c]) \in Nat \ {0}
      /\ Head(fifo[c]) = fifo[c][1]
      /\ fifo[c][1] \in Trans
      /\ Tail(fifo[c]) \in Seq(Trans)
      /\ Len(Tail(fifo[c])) = Len(fifo[c]) - 1
      /\ \A n \in 1..Len(Tail(fifo[c])) : Tail(fifo[c])[n] = fifo[c][n + 1]
  BY <1>1, HeadTailProperties, LenProperties, EmptySeq, ElementOfSeq
<1>3. /\ new \in Active /\ new # NoTrans /\ new.trans = fifo[c][1] /\ new.phase = "wait"
  <2>1. NoData \in Contents \cup {NoData} /\ NoVal \in Values \cup {NoVal}
    OBVIOUS
  <2> QED BY <1>2, <2>1, ActiveOf
<1> HIDE DEF new
<1>4. /\ fifo' = [fifo EXCEPT ![c] = Tail(fifo[c])]
      /\ active' = [active EXCEPT ![c] = new]
  BY DEF Serve, new
<1>5. /\ fifo' \in [CPUs -> Seq(Trans)] /\ fifo'[c] = Tail(fifo[c])
      /\ \A d \in CPUs \ {c} : fifo'[d] = fifo[d]
      /\ active' \in [CPUs -> Active \cup {NoTrans}] /\ active'[c] = new
      /\ \A d \in CPUs \ {c} : active'[d] = active[d]
  BY <1>1, <1>2, <1>3, <1>4
<1>6. MaxPosted \in Nat
  BY SnoopSystemAssumption
<1>7. Proper(fifo[c][1])
  BY <1>2 DEF Sorts, FifosOK
<1>8. FifosOK'
  <2>1. ASSUME NEW d \in CPUs
        PROVE  /\ Len(fifo'[d]) <= MaxPosted
               /\ \A n \in 1..Len(fifo'[d]) : Proper(fifo'[d][n])
    <3>1. CASE d # c
      BY <1>5, <3>1 DEF Sorts, FifosOK
    <3>2. CASE d = c
      <4>1. Len(fifo[c]) <= MaxPosted /\ \A n \in 1..Len(fifo[c]) : Proper(fifo[c][n])
        BY DEF Sorts, FifosOK
      <4>2. Len(fifo'[c]) = Len(fifo[c]) - 1
        BY <1>2, <1>5
      <4>3. \A n \in 1..Len(fifo'[c]) : fifo'[c][n] = fifo[c][n + 1] /\ n + 1 \in 1..Len(fifo[c])
        BY <1>2, <1>5
      <4> QED BY <1>2, <1>6, <3>2, <4>1, <4>2, <4>3
    <3> QED BY <3>1, <3>2
  <2> QED BY <1>5, <2>1 DEF FifosOK
<1>9. ActiveOK'
  <2>1. Answered(new)
    BY <1>3 DEF Answered
  <2> QED BY <1>3, <1>5, <1>7, <2>1 DEF Sorts, ActiveOK
<1>10. Sorts'
  BY <1>8, <1>9 DEF Serve, Sorts, CachesOK, RmwOK, SeenOK, BusOK
<1> QED BY <1>2, <1>3, <1>5, <1>10

\* The slave has answered with what it holds, or replaced it.
LEMMA TransferringFacts ==
    ASSUME Sorts, NEW act \in Active, Proper(act.trans)
    PROVE  LET new == Transferring(act)
               line == MemLine(act.trans.addr)
           IN  /\ new \in Active /\ new # NoTrans
               /\ new.trans = act.trans /\ new.phase = "bus"
               /\ Reads(act.trans) => new.data = line
               /\ ~Reads(act.trans) => new.old = line[act.trans.addr[3]]
               /\ Answered(new)
<1>1. act.trans.addr \in Addresses
  BY ActiveFields, TransFields
<1>2. /\ MemLine(act.trans.addr) \in Contents
      /\ MemLine(act.trans.addr)[act.trans.addr[3]] \in Values
  BY <1>1, MemLineType
<1> DEFINE line == MemLine(act.trans.addr)
           word == line[act.trans.addr[3]]
           new  == Transferring(act)
<1>3. act = [trans |-> act.trans, phase |-> act.phase, data |-> act.data, old |-> act.old]
      /\ act.trans \in Trans /\ act.data \in Contents \cup {NoData} /\ act.old \in Values \cup {NoVal}
  BY ActiveFields
<1>4. new = IF Reads(act.trans) THEN [act EXCEPT !.phase = "bus", !.data = line]
            ELSE [act EXCEPT !.phase = "bus", !.old = word]
  BY DEF Transferring
<1> HIDE DEF line, word, new
<1>5. new = [trans |-> act.trans, phase |-> "bus",
             data |-> IF Reads(act.trans) THEN line ELSE act.data,
             old  |-> IF Reads(act.trans) THEN act.old ELSE word]
  BY <1>3, <1>4
<1>6. line \in Contents /\ word \in Values
  BY <1>2 DEF line, word
<1>7. new \in Active /\ new # NoTrans
  BY <1>3, <1>5, <1>6, ActiveOf
<1> QED BY <1>5, <1>6, <1>7 DEF Answered, line, word, new

LEMMA BeginTypes ==
    ASSUME Sorts, NEW c \in CPUs, Begin(c)
    PROVE  /\ Sorts'
           /\ active[c] \in Active /\ active[c] # NoTrans /\ active[c].phase = "wait"
           /\ active'[c] = Transferring(active[c])
           /\ active'[c] # NoTrans /\ active'[c].phase = "bus"
           /\ active'[c].trans = active[c].trans
           /\ \A d \in CPUs \ {c} : active'[d] = active[d]
           /\ active[c].trans \in Trans /\ active[c].trans.addr \in Addresses
           /\ Proper(active[c].trans)
<1>1. active[c] # NoTrans /\ active[c].phase = "wait"
  BY DEF Begin, BeginWith
<1>2. active[c] \in Active /\ Proper(active[c].trans)
  BY <1>1 DEF Sorts, ActiveOK
<1>3. active[c].trans \in Trans /\ active[c].trans.addr \in Addresses
  BY <1>2, ActiveFields, TransFields
<1> DEFINE new == Transferring(active[c])
<1>4. /\ new \in Active /\ new # NoTrans /\ new.trans = active[c].trans /\ new.phase = "bus"
      /\ Answered(new)
  BY <1>2, TransferringFacts
<1>5. active' = [active EXCEPT ![c] = new]
  BY DEF Begin, BeginWith
<1> HIDE DEF new
<1>6. /\ ActiveOK' /\ active'[c] = new
      /\ \A d \in CPUs \ {c} : active'[d] = active[d]
  BY <1>2, <1>4, <1>5 DEF Sorts, ActiveOK
<1>7. BusOK'
  <2>1. active[c].trans.lock \in BOOLEAN /\ busy' = TRUE /\ isLock' = active[c].trans.lock
        /\ lockMaster' = c
    BY <1>3, TransFields DEF Begin, BeginWith
  <2>2. mem' \in [Tags -> [Indices -> Contents]]
    <3>1. CASE Reads(active[c].trans)
      BY <3>1 DEF Begin, BeginWith, Sorts, BusOK
    <3>2. CASE ~Reads(active[c].trans)
      <4> DEFINE addr == active[c].trans.addr
                 val  == active[c].trans.val
                 line == [mem[addr[1]][addr[2]] EXCEPT ![addr[3]] = val]
      <4>1. mem' = [mem EXCEPT ![addr[1]] = [mem[addr[1]] EXCEPT ![addr[2]] = line]]
        BY <3>2 DEF Begin, BeginWith
      <4>2. val \in Values /\ addr[1] \in Tags /\ addr[2] \in Indices /\ addr[3] \in Words
        BY <1>2, <1>3, <3>2, AddressFacts DEF Proper
      <4> HIDE DEF addr, val
      <4>3. line \in Contents
        BY <4>2 DEF Sorts, BusOK, Contents
      <4> HIDE DEF line
      <4> QED BY <4>1, <4>2, <4>3 DEF Sorts, BusOK
    <3> QED BY <3>1, <3>2
  <2> QED BY <2>1, <2>2 DEF BusOK
<1>8. Sorts'
  BY <1>6, <1>7 DEF Begin, BeginWith, Sorts, CachesOK, FifosOK, RmwOK, SeenOK
<1> QED BY <1>1, <1>2, <1>3, <1>4, <1>6, <1>8 DEF new

\* A cache that is told of a write loses at most words.
LEMMA SnoopTypes ==
    ASSUME Sorts, NEW c \in CPUs, NEW addr \in Addresses
    PROVE  /\ Snooped(c, addr) \in [CPUs -> CacheType]
           /\ \A d \in CPUs : /\ Sane(Snooped(c, addr)[d])
                              /\ Fewer(Snooped(c, addr)[d], cache[d])
<1>1. addr[1] \in Tags /\ addr[2] \in Indices /\ addr[3] \in Words
  BY AddressFacts
<1>2. ASSUME NEW d \in CPUs
      PROVE  /\ Sane(SnoopInvalidate(cache[d], addr[2], addr[1], addr[3]))
             /\ Fewer(SnoopInvalidate(cache[d], addr[2], addr[1], addr[3]), cache[d])
             /\ Sane(cache[d]) /\ Fewer(cache[d], cache[d])
  <2>1. Sane(cache[d])
    BY DEF Sorts, CachesOK
  <2> QED BY <1>1, <2>1, Snoops DEF Fewer
<1> QED BY <1>2 DEF Snooped, Sane

LEMMA FinishTypes ==
    ASSUME Sorts, NEW c \in CPUs, Finish(c)
    PROVE  /\ Sorts'
           /\ active[c] \in Active /\ active[c].phase = "bus"
           /\ active[c].trans \in Trans /\ active[c].trans.addr \in Addresses
           /\ \A d \in CPUs \ {c} : active'[d] = active[d]
           /\ Reads(active[c].trans) =>
                 /\ active'[c] # NoTrans /\ active'[c].phase = "answered"
                 /\ active'[c].trans = active[c].trans /\ active'[c].data = active[c].data
           /\ ~Reads(active[c].trans) => active'[c] = NoTrans
<1>1. active[c] # NoTrans /\ active[c].phase = "bus"
  BY DEF Finish
<1>2. active[c] \in Active
  BY <1>1 DEF Sorts, ActiveOK
<1>3. active[c].trans \in Trans /\ active[c].trans.addr \in Addresses
  BY <1>2, ActiveFields, TransFields
<1> DEFINE act == active[c]
           new == [act EXCEPT !.phase = "answered"]
<1>4. /\ new \in Active /\ new # NoTrans /\ new.phase = "answered"
      /\ new.trans = act.trans /\ new.data = act.data /\ new.old = act.old
  <2>1. act \in Active
    BY <1>2
  <2> HIDE DEF act
  <2>2. act = [trans |-> act.trans, phase |-> act.phase, data |-> act.data, old |-> act.old]
        /\ act.trans \in Trans /\ act.data \in Contents \cup {NoData} /\ act.old \in Values \cup {NoVal}
    BY <2>1, ActiveFields
  <2>3. new = [trans |-> act.trans, phase |-> "answered", data |-> act.data, old |-> act.old]
    BY <2>2
  <2> QED BY <2>2, <2>3, ActiveOf
<1>5. active' = [active EXCEPT ![c] = IF Reads(active[c].trans) THEN new ELSE NoTrans]
  BY DEF Finish
<1>6. Proper(act.trans) /\ Answered(act)
  BY <1>1 DEF Sorts, ActiveOK
<1> HIDE DEF new, act
<1>7. Proper(new.trans) /\ Answered(new)
  BY <1>1, <1>4, <1>6 DEF Answered, act
<1>8. /\ ActiveOK'
      /\ \A d \in CPUs \ {c} : active'[d] = active[d]
      /\ active'[c] = IF Reads(active[c].trans) THEN new ELSE NoTrans
  BY <1>4, <1>5, <1>7 DEF Sorts, ActiveOK
<1>9. CachesOK'
  <2>1. CASE Reads(active[c].trans)
    BY <2>1 DEF Finish, Sorts, CachesOK
  <2>2. CASE ~Reads(active[c].trans)
    BY <1>3, <2>2, SnoopTypes, SaneTogether DEF Finish, Sorts, CachesOK
  <2> QED BY <2>1, <2>2
<1>10. Sorts'
  BY <1>8, <1>9 DEF Finish, Sorts, FifosOK, RmwOK, SeenOK, BusOK
<1> QED BY <1>1, <1>2, <1>3, <1>4, <1>8, <1>10 DEF act

\* The way a line that was read goes into.
FillWay(c) ==
    IF active[c].trans.found # NoWay THEN active[c].trans.found
    ELSE AllocateWay(cache[c], active[c].trans.addr[2], Words, rand[c])

\* the line that was read is cached
Fills(c) ==
    /\ active[c].trans.load
    /\ active[c].trans.found # NoWay \/ active[c].trans.addr[1] \in Cacheable

LEMMA CompleteTypes ==
    ASSUME Repl = 2 => ~SetLock, Sorts, NEW c \in CPUs, Complete(c)
    PROVE  /\ Sorts'
           /\ active[c] # NoTrans /\ active[c] \in Active /\ active[c].phase = "answered"
           /\ active[c].trans \in Trans /\ active[c].trans.addr \in Addresses
           /\ active[c].trans.load => active[c].data \in Contents
           /\ FillWay(c) \in WayNrs
           /\ \A d \in CPUs \ {c} : cache'[d] = cache[d] /\ active'[d] = active[d]
           /\ active'[c] = NoTrans
           /\ cache'[c] = IF Fills(c)
                          THEN UpdateLine(cache[c], active[c].trans.addr[2], FillWay(c),
                                          active[c].trans.addr[1], Words, active[c].data)
                          ELSE cache[c]
<1> DEFINE trans == active[c].trans
           addr  == trans.addr
           data  == active[c].data
           new   == UpdateLine(cache[c], addr[2], FillWay(c), addr[1], Words, data)
           next  == NextRand(cache[c], addr[2], Words, rand[c])
<1>1. active[c] # NoTrans /\ active[c].phase = "answered"
  BY DEF Complete
<1>2. active[c] \in Active /\ Proper(trans) /\ Answered(active[c])
  BY <1>1 DEF Sorts, ActiveOK
<1>3. trans \in Trans /\ addr \in Addresses /\ trans.load \in BOOLEAN
      /\ trans.found \in WayNrs \cup {NoWay}
  BY <1>2, ActiveFields, TransFields
<1>4. trans.load => data \in Contents
  BY <1>1, <1>2 DEF Proper, Answered
<1>5. Sane(cache[c]) /\ rand[c] \in WayNrs
  BY DEF Sorts, CachesOK
<1>6. addr[1] \in Tags /\ addr[2] \in Indices /\ addr[3] \in Words
  BY <1>3, AddressFacts
<1>7. FillWay(c) \in WayNrs /\ next \in WayNrs
  BY <1>3, <1>5, <1>6, AllocatedWay DEF FillWay
<1>8. Fills(c) => Sane(new)
  <2> HIDE DEF trans, addr, data, new
  <2>1. Fills(c) => data \in Contents
    BY <1>4 DEF Fills, trans
  <2> QED BY <2>1, <1>5, <1>6, <1>7, Updated DEF new
<1>9. /\ cache' = IF Fills(c) THEN [cache EXCEPT ![c] = new] ELSE cache
      /\ rand' = rand \/ rand' = [rand EXCEPT ![c] = next]
  BY DEF Complete, Fills, FillWay
<1>10. trans.load => Return(c, addr, data[addr[3]])
  BY DEF Complete
<1>11. ~trans.load => UNCHANGED <<rmw, seen>>
  BY DEF Complete
<1>12. active' = [active EXCEPT ![c] = NoTrans]
  BY DEF Complete
<1> HIDE DEF trans, addr, data, new, next
<1>13. /\ cache' \in [CPUs -> CacheType] /\ rand' \in [CPUs -> WayNrs]
       /\ \A d \in CPUs : Sane(cache'[d])
       /\ \A d \in CPUs \ {c} : cache'[d] = cache[d]
       /\ cache'[c] = IF Fills(c) THEN new ELSE cache[c]
  BY <1>7, <1>8, <1>9 DEF Sorts, CachesOK, Sane
<1>14. CachesOK'
  BY <1>13, SaneTogether
<1>15. SeenOK' /\ RmwOK'
  <2>1. CASE trans.load
    <3>1. data[addr[3]] \in Values
      BY <1>4, <1>6, <2>1 DEF Contents
    <3> QED BY <1>3, <1>10, <2>1, <3>1, ReturnTypes
  <2>2. CASE ~trans.load
    BY <1>11, <2>2 DEF Sorts, SeenOK, RmwOK
  <2> QED BY <2>1, <2>2
<1>16. /\ ActiveOK' /\ active'[c] = NoTrans
       /\ \A d \in CPUs \ {c} : active'[d] = active[d]
  BY <1>12 DEF Sorts, ActiveOK
<1>17. FifosOK' /\ BusOK'
  BY DEF Complete, Sorts, FifosOK, BusOK
<1>18. Sorts'
  BY <1>14, <1>15, <1>16, <1>17 DEF Sorts
<1> QED BY <1>1, <1>2, <1>3, <1>4, <1>7, <1>13, <1>16, <1>18 DEF trans, addr, data, new

LEMMA InitSorts == Init => Sorts
<1> SUFFICES ASSUME Init PROVE Sorts
  OBVIOUS
<1>1. PICK tag \in Tags, data \in Contents : cache = [c \in CPUs |-> EmptyCache(tag, data)]
  BY DEF Init
<1>2. Sane(EmptyCache(tag, data))
  BY Emptied
<1>3. CachesOK
  <2>1. \A c \in CPUs : cache[c] = EmptyCache(tag, data)
    BY <1>1
  <2>2. rand = [c \in CPUs |-> 0] /\ 0 \in WayNrs
    BY VectorCacheAssumption DEF Init, WayNrs
  <2> QED BY <1>1, <1>2, <2>1, <2>2 DEF CachesOK, Sane
<1>4. FifosOK
  <2>1. <<>> \in Seq(Trans) /\ Len(<<>>) = 0
    BY EmptySeq
  <2>2. fifo = [c \in CPUs |-> <<>>] /\ MaxPosted \in Nat
    BY SnoopSystemAssumption DEF Init
  <2> QED BY <2>1, <2>2 DEF FifosOK
<1>5. ActiveOK /\ RmwOK /\ SeenOK /\ BusOK
  BY DEF Init, ActiveOK, RmwOK, SeenOK, BusOK
<1> QED BY <1>3, <1>4, <1>5 DEF Sorts

LEMMA SortsKept ==
    ASSUME Repl = 2 => ~SetLock
    PROVE  Sorts /\ [Next]_vars => Sorts'
<1> SUFFICES ASSUME Sorts, [Next]_vars PROVE Sorts'
  OBVIOUS
<1>1. ASSUME NEW c \in CPUs, Processor(c) \/ Bus(c) PROVE Sorts'
  BY <1>1, ProcessorSorts, ServeTypes, BeginTypes, FinishTypes, CompleteTypes DEF Bus
<1>2. CASE UNCHANGED vars
  BY <1>2 DEF vars, Sorts, CachesOK, FifosOK, ActiveOK, RmwOK, SeenOK, BusOK
<1> QED BY <1>1, <1>2 DEF Next

\* Every value stays of its kind: fifos of one transaction and one that put() waits
\* with, replacement within the set, answers that are lines.  With LRR replacement
\* lines must not be lockable, or replacement_selector leaves the set.
THEOREM SnoopSystemTypes ==
    ASSUME Repl = 2 => ~SetLock
    PROVE  Spec => []TypeOK
<1>1. Sorts /\ [Next]_vars => Sorts'
  BY SortsKept
<1> QED BY <1>1, InitSorts, SortsAreTypes, PTL DEF Spec

-----------------------------------------------------------------------------
(* What an instruction does to the fifo, and the order within it           *)

\* A load that hits, of any instruction.
NoPost(c) ==
    /\ fifo' = fifo
    /\ rmw[c] = NoRmw
    /\ \/ rmw'[c] = NoRmw
       \/ /\ rmw'[c] \in Rmw /\ rmw'[c].got \in Values
          /\ \E kind \in Atomics : ~kind.forced

\* A load, an instruction fetch or a store.
PlainPost(c, t) ==
    /\ rmw[c] = NoRmw /\ rmw'[c] = NoRmw
    /\ t.lock => Mmu /\ ~Reads(t)
    /\ t.swapped = NoVal

\* The load of a SWAP or LDSTUB.
SwapReads(c, t) ==
    /\ rmw[c] = NoRmw
    /\ rmw'[c] \in Rmw /\ rmw'[c].got = NoVal /\ rmw'[c].addr = t.addr
    /\ Reads(t) /\ t.load
    /\ (\A kind \in Atomics : kind.lock) => t.lock

\* Its store.
SwapWrites(c, t) ==
    /\ rmw[c] \in Rmw /\ rmw'[c] = NoRmw
    /\ ~Reads(t) /\ t.addr = rmw[c].addr /\ t.swapped = rmw[c].got
    /\ t.lock => Mmu

\* An instruction posts at most one transaction, when its processor does not wait.
LEMMA ProcessorSteps ==
    ASSUME Sorts, NEW c \in CPUs, Processor(c)
    PROVE  /\ UNCHANGED <<active, busy, isLock, lockMaster, mem>>
           /\ ~Waits(c)
           /\ \A d \in CPUs \ {c} : rmw'[d] = rmw[d]
           /\ \/ NoPost(c)
              \/ \E t \in Trans : /\ Proper(t) /\ Post(c, t) /\ Len(fifo[c]) < MaxPosted
                                  /\ PlainPost(c, t) \/ SwapReads(c, t) \/ SwapWrites(c, t)
<1> DEFINE Goal ==
           /\ UNCHANGED <<active, busy, isLock, lockMaster, mem>>
           /\ ~Waits(c)
           /\ \A d \in CPUs \ {c} : rmw'[d] = rmw[d]
           /\ \/ NoPost(c)
              \/ \E t \in Trans : /\ Proper(t) /\ Post(c, t) /\ Len(fifo[c]) < MaxPosted
                                  /\ PlainPost(c, t) \/ SwapReads(c, t) \/ SwapWrites(c, t)
<1>1. ASSUME NEW addr \in Addresses, Load(c, addr) PROVE Goal
  <2>1. ~Waits(c) /\ Len(fifo[c]) < MaxPosted /\ rmw[c] = NoRmw
    BY <1>1 DEF Load, Runs
  <2>2. CASE Hit(c, addr) /\ Return(c, addr, Value(cache[c][addr[2]][Locate(c, addr)], addr))
    BY <2>1, <2>2 DEF Hit, Return, NoPost
  <2>3. CASE Miss(c, addr, FALSE, FALSE) /\ UNCHANGED <<rmw, seen>>
    <3> DEFINE t == ReadTrans(addr, FALSE, TRUE, Locate(c, addr))
    <3>1. t \in Trans /\ Proper(t) /\ Reads(t) /\ ~t.lock /\ t.swapped = NoVal
      BY LocateFacts, ReadTransType DEF ReadTrans
    <3>2. Post(c, t) /\ UNCHANGED <<active, busy, isLock, lockMaster, mem>>
      BY <2>3 DEF Miss
    <3> HIDE DEF t
    <3> QED BY <2>1, <2>3, <3>1, <3>2 DEF PlainPost
  <2> QED BY <1>1, <2>2, <2>3 DEF Load
<1>2. ASSUME NEW addr \in Addresses, Fetch(c, addr) PROVE Goal
  <2> DEFINE t == ReadTrans(addr, FALSE, FALSE, NoWay)
  <2>1. t \in Trans /\ Proper(t) /\ Reads(t) /\ ~t.lock /\ t.swapped = NoVal
    BY ReadTransType DEF ReadTrans
  <2>2. /\ Post(c, t) /\ ~Waits(c) /\ Len(fifo[c]) < MaxPosted /\ rmw[c] = NoRmw
        /\ UNCHANGED <<active, busy, isLock, lockMaster, mem, rmw>>
    BY <1>2 DEF Fetch, Runs
  <2> HIDE DEF t
  <2> QED BY <2>1, <2>2 DEF PlainPost
<1>3. ASSUME NEW addr \in Addresses, NEW val \in Values, Store(c, addr, val) PROVE Goal
  <2> DEFINE t == WriteTrans(addr, val, NoVal)
  <2>1. t \in Trans /\ Proper(t) /\ ~Reads(t) /\ (t.lock => Mmu) /\ t.swapped = NoVal
    <3>1. NoVal \in Values \cup {NoVal}
      OBVIOUS
    <3> QED BY <3>1, WriteTransType
  <2>2. /\ Post(c, t) /\ ~Waits(c) /\ Len(fifo[c]) < MaxPosted /\ rmw[c] = NoRmw
        /\ UNCHANGED <<active, busy, isLock, lockMaster, mem, rmw>>
    BY <1>3 DEF Store, StoreData, WriteTrans, Runs
  <2> HIDE DEF t
  <2> QED BY <2>1, <2>2 DEF PlainPost
<1>4. ASSUME NEW addr \in Addresses, NEW val \in Values, NEW kind \in Atomics,
             RmwLoad(c, addr, val, kind)
      PROVE  Goal
  <2> DEFINE start == [addr |-> addr, val |-> val, got |-> NoVal]
             got   == Value(cache[c][addr[2]][Locate(c, addr)], addr)
  <2>1. /\ ~Waits(c) /\ Len(fifo[c]) < MaxPosted /\ rmw[c] = NoRmw
        /\ rmw \in [CPUs -> Rmw \cup {NoRmw}]
    BY <1>4 DEF RmwLoad, Runs, Sorts, RmwOK
  <2>2. start \in Rmw /\ start.got = NoVal /\ start.addr = addr
    BY DEF Rmw
  <2>3. CASE /\ ~kind.forced /\ Hit(c, addr)
             /\ rmw' = [rmw EXCEPT ![c] = [start EXCEPT !.got = got]]
    <3>1. got \in Values
      BY <2>3, LocateFacts DEF Hit
    <3> HIDE DEF got
    <3>2. [start EXCEPT !.got = got] \in Rmw /\ [start EXCEPT !.got = got].got = got
      BY <3>1 DEF Rmw
    <3> HIDE DEF start
    <3> QED BY <2>1, <2>3, <3>1, <3>2 DEF Hit, NoPost
  <2>4. CASE /\ Miss(c, addr, kind.lock, kind.forced)
             /\ rmw' = [rmw EXCEPT ![c] = start]
    <3> DEFINE t == ReadTrans(addr, kind.lock, TRUE, Locate(c, addr))
    <3>1. kind.lock \in BOOLEAN
      BY SnoopSystemAssumption
    <3>2. t \in Trans /\ Proper(t) /\ Reads(t) /\ t.load /\ (kind.lock => t.lock) /\ t.addr = addr
      <4>1. Locate(c, addr) \in WayNrs \cup {NoWay} /\ TRUE \in BOOLEAN
        BY LocateFacts
      <4>2. ASSUME kind.lock PROVE t.lock
        BY <4>2 DEF ReadTrans
      <4>3. t \in Trans /\ Proper(t)
        BY <3>1, <4>1, ReadTransType
      <4>4. Reads(t) /\ t.load /\ t.addr = addr
        BY DEF ReadTrans, Reads
      <4> HIDE DEF t
      <4> QED BY <4>2, <4>3, <4>4
    <3>3. Post(c, t) /\ UNCHANGED <<active, busy, isLock, lockMaster, mem>>
      BY <2>4 DEF Miss
    <3> HIDE DEF t, start
    <3>4. rmw'[c] = start /\ \A d \in CPUs \ {c} : rmw'[d] = rmw[d]
      BY <2>1, <2>4
    <3>5. SwapReads(c, t)
      BY <2>1, <2>2, <3>2, <3>4 DEF SwapReads
    <3> QED BY <2>1, <3>2, <3>3, <3>4, <3>5
  <2> QED BY <1>4, <2>3, <2>4 DEF RmwLoad
<1>5. ASSUME RmwStore(c) PROVE Goal
  <2> DEFINE t == WriteTrans(rmw[c].addr, rmw[c].val, rmw[c].got)
  <2>1. rmw \in [CPUs -> Rmw \cup {NoRmw}] /\ rmw[c] \in Rmw
    BY <1>5 DEF RmwStore, Sorts, RmwOK
  <2>2. /\ t \in Trans /\ Proper(t) /\ ~Reads(t) /\ (t.lock => Mmu)
        /\ t.addr = rmw[c].addr /\ t.swapped = rmw[c].got
    <3>1. rmw[c].addr \in Addresses /\ rmw[c].val \in Values /\ rmw[c].got \in Values \cup {NoVal}
      BY <2>1, RmwFields
    <3> QED BY <3>1, WriteTransType
  <2>3. /\ Post(c, t) /\ ~Waits(c) /\ Len(fifo[c]) < MaxPosted
        /\ rmw' = [rmw EXCEPT ![c] = NoRmw]
        /\ UNCHANGED <<active, busy, isLock, lockMaster, mem>>
    BY <1>5 DEF RmwStore, StoreData, WriteTrans, Runs
  <2> HIDE DEF t
  <2>4. SwapWrites(c, t)
    BY <2>1, <2>2, <2>3 DEF SwapWrites
  <2> QED BY <2>1, <2>2, <2>3, <2>4
<1> QED BY <1>1, <1>2, <1>3, <1>4, <1>5 DEF Processor

\* A read is the last transaction of its processor, which waits for it; only a read
\* is answered later than it is carried out.
Ordered(c) ==
    /\ \A n \in 1..Len(fifo[c]) : Reads(fifo[c][n]) => n = Len(fifo[c])
    /\ active[c] # NoTrans /\ Reads(active[c].trans) => Len(fifo[c]) = 0
    /\ active[c] # NoTrans /\ active[c].phase = "answered" => Reads(active[c].trans)

Queues == \A c \in CPUs : Ordered(c)

LEMMA WaitsFor ==
    ASSUME Sorts, NEW c \in CPUs
    PROVE  /\ Len(fifo[c]) \in Nat
           /\ Waits(c) <=> \/ \E n \in 1..Len(fifo[c]) : Reads(fifo[c][n])
                           \/ active[c] # NoTrans /\ Reads(active[c].trans)
<1>1. fifo[c] \in Seq(Trans)
  BY DEF Sorts, FifosOK
<1>2. DOMAIN fifo[c] = 1..Len(fifo[c]) /\ Len(fifo[c]) \in Nat
  BY <1>1, LenProperties
<1> QED BY <1>2 DEF Waits

LEMMA QueuesKept ==
    ASSUME Repl = 2 => ~SetLock, Sorts, Queues, [Next]_vars
    PROVE  Queues'
<1>1. ASSUME NEW c \in CPUs, Processor(c) PROVE Queues'
  <2>1. active' = active /\ ~Waits(c)
    BY <1>1, ProcessorSteps
  <2>2. CASE fifo' = fifo
    BY <2>1, <2>2 DEF Queues, Ordered
  <2>3. ASSUME NEW t \in Trans, Proper(t), Post(c, t), Len(fifo[c]) < MaxPosted
        PROVE  Queues'
    <3>1. /\ Len(fifo'[c]) = Len(fifo[c]) + 1 /\ Len(fifo[c]) \in Nat
          /\ \A n \in 1..Len(fifo[c]) : fifo'[c][n] = fifo[c][n] /\ ~Reads(fifo[c][n])
          /\ \A d \in CPUs \ {c} : fifo'[d] = fifo[d]
          /\ ~(active[c] # NoTrans /\ Reads(active[c].trans))
      BY <2>1, <2>3, PostTypes, WaitsFor
    <3>2. \A n \in 1..Len(fifo'[c]) : n = Len(fifo'[c]) \/ n \in 1..Len(fifo[c])
      BY <3>1
    <3>3. Ordered(c)'
      BY <2>1, <3>1, <3>2 DEF Queues, Ordered
    <3> QED BY <2>1, <3>1, <3>3 DEF Queues, Ordered
  <2>4. \/ fifo' = fifo
        \/ \E t \in Trans : Proper(t) /\ Post(c, t) /\ Len(fifo[c]) < MaxPosted
    BY <1>1, ProcessorSteps DEF NoPost
  <2> QED BY <2>2, <2>3, <2>4
<1>2. ASSUME NEW c \in CPUs, Serve(c) PROVE Queues'
  <2>1. /\ Len(fifo[c]) \in Nat \ {0} /\ Len(fifo'[c]) = Len(fifo[c]) - 1
        /\ \A n \in 1..Len(fifo'[c]) : fifo'[c][n] = fifo[c][n + 1]
        /\ \A d \in CPUs \ {c} : fifo'[d] = fifo[d] /\ active'[d] = active[d]
        /\ active'[c].trans = fifo[c][1] /\ active'[c].phase = "wait"
    BY <1>2, ServeTypes
  <2>2. /\ 1 \in 1..Len(fifo[c])
        /\ \A n \in 1..Len(fifo'[c]) : n + 1 \in 1..Len(fifo[c])
    BY <2>1
  <2>3. Ordered(c)
    BY DEF Queues
  <2>4. \A n \in 1..Len(fifo'[c]) : Reads(fifo'[c][n]) => n = Len(fifo'[c])
    BY <2>1, <2>2, <2>3 DEF Ordered
  <2>5. Reads(fifo[c][1]) => Len(fifo'[c]) = 0
    <3>1. Reads(fifo[c][1]) => 1 = Len(fifo[c])
      BY <2>2, <2>3 DEF Ordered
    <3> QED BY <2>1, <3>1
  <2>6. Ordered(c)'
    BY <2>1, <2>4, <2>5 DEF Ordered
  <2>7. ASSUME NEW d \in CPUs \ {c} PROVE Ordered(d)'
    <3>1. Ordered(d) /\ fifo'[d] = fifo[d] /\ active'[d] = active[d]
      BY <2>1 DEF Queues
    <3> QED BY <3>1 DEF Ordered
  <2> QED BY <2>6, <2>7 DEF Queues
<1>3. ASSUME NEW c \in CPUs, Begin(c) PROVE Queues'
  <2>1. fifo' = fifo
    BY <1>3 DEF Begin, BeginWith
  <2> QED BY <1>3, <2>1, BeginTypes DEF Queues, Ordered
<1>4. ASSUME NEW c \in CPUs, Finish(c) PROVE Queues'
  <2>1. fifo' = fifo
    BY <1>4 DEF Finish
  <2>2. ASSUME NEW d \in CPUs \ {c} PROVE Ordered(d)'
    <3>1. Ordered(d) /\ fifo'[d] = fifo[d] /\ active'[d] = active[d]
      BY <1>4, <2>1, FinishTypes DEF Queues
    <3> QED BY <3>1 DEF Ordered
  <2>3. Ordered(c) /\ fifo'[c] = fifo[c] /\ active[c] # NoTrans
    BY <1>4, <2>1 DEF Queues, Finish
  <2>4. \/ active'[c] = NoTrans
        \/ Reads(active[c].trans) /\ active'[c].trans = active[c].trans
    BY <1>4, FinishTypes
  <2>5. Ordered(c)'
    BY <2>3, <2>4 DEF Ordered
  <2> QED BY <2>2, <2>5 DEF Queues
<1>5. ASSUME NEW c \in CPUs, Complete(c) PROVE Queues'
  <2>1. fifo' = fifo
    BY <1>5 DEF Complete
  <2> QED BY <1>5, <2>1, CompleteTypes DEF Queues, Ordered
<1>6. CASE UNCHANGED vars
  BY <1>6 DEF vars, Queues, Ordered
<1> QED BY <1>1, <1>2, <1>3, <1>4, <1>5, <1>6 DEF Next, Bus

LEMMA InitQueues == Init => Queues
<1> SUFFICES ASSUME Init PROVE Queues
  OBVIOUS
<1>1. \A c \in CPUs : Len(fifo[c]) = 0 /\ active[c] = NoTrans
  BY EmptySeq DEF Init
<1> QED BY <1>1 DEF Queues, Ordered

-----------------------------------------------------------------------------
(* Locks                                                                   *)

\* t is in the fifo or with mem_access
UnderWay(c, t) ==
    \/ \E n \in 1..Len(fifo[c]) : fifo[c][n] = t
    \/ active[c] # NoTrans /\ active[c].trans = t

LEMMA UnderWayTypes ==
    ASSUME Sorts, NEW c \in CPUs
    PROVE  /\ \A t : UnderWay(c, t) => t \in Trans /\ Proper(t)
           /\ Waits(c) <=> \E t \in Trans : UnderWay(c, t) /\ Reads(t)
<1>1. ASSUME NEW n \in 1..Len(fifo[c]) PROVE fifo[c][n] \in Trans /\ Proper(fifo[c][n])
  <2>1. fifo[c] \in Seq(Trans)
    BY DEF Sorts, FifosOK
  <2> QED BY <2>1, ElementOfSeq DEF Sorts, FifosOK
<1>2. active[c] # NoTrans => active[c].trans \in Trans /\ Proper(active[c].trans)
  BY ActiveFields DEF Sorts, ActiveOK
<1>3. \A t : UnderWay(c, t) => t \in Trans /\ Proper(t)
  BY <1>1, <1>2 DEF UnderWay
<1>4. Waits(c) <=> \E t \in Trans : UnderWay(c, t) /\ Reads(t)
  BY <1>1, <1>2, WaitsFor DEF UnderWay
<1> QED BY <1>3, <1>4

LEMMA UnderWayPost ==
    ASSUME Sorts, NEW c \in CPUs, NEW t \in Trans, Proper(t), Post(c, t),
           Len(fifo[c]) < MaxPosted, active' = active
    PROVE  /\ \A x : UnderWay(c, x)' <=> UnderWay(c, x) \/ x = t
           /\ \A d \in CPUs \ {c} : \A x : UnderWay(d, x)' <=> UnderWay(d, x)
<1>1. /\ Len(fifo'[c]) = Len(fifo[c]) + 1 /\ Len(fifo[c]) \in Nat
      /\ \A n \in 1..Len(fifo[c]) : fifo'[c][n] = fifo[c][n]
      /\ fifo'[c][Len(fifo[c]) + 1] = t
      /\ \A d \in CPUs \ {c} : fifo'[d] = fifo[d]
  BY PostTypes, WaitsFor
<1>2. \A n : n \in 1..Len(fifo'[c]) <=> n = Len(fifo[c]) + 1 \/ n \in 1..Len(fifo[c])
  BY <1>1
<1>3. \A x : (\E n \in 1..Len(fifo'[c]) : fifo'[c][n] = x)
               <=> (\E n \in 1..Len(fifo[c]) : fifo[c][n] = x) \/ x = t
  BY <1>1, <1>2
<1> QED BY <1>1, <1>3 DEF UnderWay

LEMMA UnderWayServe ==
    ASSUME Sorts, NEW c \in CPUs, Serve(c)
    PROVE  \A d \in CPUs : \A x : UnderWay(d, x)' <=> UnderWay(d, x)
<1>1. /\ Len(fifo[c]) \in Nat \ {0} /\ Len(fifo'[c]) = Len(fifo[c]) - 1
      /\ \A n \in 1..Len(fifo'[c]) : fifo'[c][n] = fifo[c][n + 1]
      /\ \A d \in CPUs \ {c} : fifo'[d] = fifo[d] /\ active'[d] = active[d]
      /\ active'[c] # NoTrans /\ active'[c].trans = fifo[c][1]
      /\ active[c] = NoTrans
  BY ServeTypes DEF Serve
<1>2. ASSUME NEW x, NEW n \in 1..Len(fifo[c]), fifo[c][n] = x
      PROVE  (\E k \in 1..Len(fifo'[c]) : fifo'[c][k] = x) \/ fifo[c][1] = x
  <2>1. n = 1 \/ n - 1 \in 1..Len(fifo'[c])
    BY <1>1
  <2>2. n - 1 \in 1..Len(fifo'[c]) => fifo'[c][n - 1] = fifo[c][n]
    BY <1>1
  <2> QED BY <1>2, <2>1, <2>2
<1>3. ASSUME NEW x, NEW n \in 1..Len(fifo'[c]), fifo'[c][n] = x
      PROVE  \E k \in 1..Len(fifo[c]) : fifo[c][k] = x
  <2>1. n + 1 \in 1..Len(fifo[c]) /\ fifo[c][n + 1] = x
    BY <1>1, <1>3
  <2> QED BY <2>1
<1>4. 1 \in 1..Len(fifo[c])
  BY <1>1
<1>5. ASSUME NEW x PROVE UnderWay(c, x)' <=> UnderWay(c, x)
  <2>1. UnderWay(c, x)' => UnderWay(c, x)
    BY <1>1, <1>3, <1>4 DEF UnderWay
  <2>2. UnderWay(c, x) => UnderWay(c, x)'
    BY <1>1, <1>2 DEF UnderWay
  <2> QED BY <2>1, <2>2
<1>6. ASSUME NEW d \in CPUs \ {c}, NEW x PROVE UnderWay(d, x)' <=> UnderWay(d, x)
  BY <1>1 DEF UnderWay
<1> QED BY <1>5, <1>6

LEMMA UnderWayBegin ==
    ASSUME Sorts, NEW c \in CPUs, Begin(c)
    PROVE  \A d \in CPUs : \A x : UnderWay(d, x)' <=> UnderWay(d, x)
<1>1. fifo' = fifo
  BY DEF Begin, BeginWith
<1> QED BY <1>1, BeginTypes DEF UnderWay

LEMMA UnderWayFinish ==
    ASSUME Sorts, NEW c \in CPUs, Finish(c)
    PROVE  /\ UnderWay(c, active[c].trans)
           /\ \A d \in CPUs \ {c} : \A x : UnderWay(d, x)' <=> UnderWay(d, x)
           /\ \A x : UnderWay(c, x)' => UnderWay(c, x)
           /\ \A x : UnderWay(c, x) => UnderWay(c, x)' \/ x = active[c].trans
           /\ Reads(active[c].trans) => \A x : UnderWay(c, x)' <=> UnderWay(c, x)
<1>1. fifo' = fifo /\ active[c] # NoTrans
  BY DEF Finish
<1> QED BY <1>1, FinishTypes DEF UnderWay

LEMMA UnderWayComplete ==
    ASSUME Repl = 2 => ~SetLock, Sorts, NEW c \in CPUs, Complete(c)
    PROVE  /\ UnderWay(c, active[c].trans)
           /\ \A d \in CPUs \ {c} : \A x : UnderWay(d, x)' <=> UnderWay(d, x)
           /\ \A x : UnderWay(c, x)' => UnderWay(c, x)
           /\ \A x : UnderWay(c, x) => UnderWay(c, x)' \/ x = active[c].trans
<1>1. fifo' = fifo
  BY DEF Complete
<1> QED BY <1>1, CompleteTypes DEF UnderWay

\* A SWAP or LDSTUB waits for its own load only, and only its load may be locked;
\* once the load has returned there is a value.
Swapping(c) ==
    /\ \A t \in Trans : UnderWay(c, t) /\ Reads(t) /\ rmw[c] # NoRmw => t.load
    /\ \A t \in Trans : UnderWay(c, t) /\ t.lock => Reads(t) /\ rmw[c] # NoRmw
    /\ rmw[c] # NoRmw =>
          \/ rmw[c].got \in Values
          \/ \E t \in Trans : UnderWay(c, t) /\ Reads(t)

Swaps == \A c \in CPUs : Swapping(c)

LEMMA SwapsKept ==
    ASSUME ~Mmu, Repl = 2 => ~SetLock, Sorts, Swaps, [Next]_vars
    PROVE  Swaps'
<1>1. ASSUME NEW c \in CPUs, Processor(c) PROVE Swaps'
  <2>1. active' = active /\ ~Waits(c) /\ \A d \in CPUs \ {c} : rmw'[d] = rmw[d]
    BY <1>1, ProcessorSteps
  <2>2. Swapping(c) /\ \A t \in Trans : UnderWay(c, t) => ~Reads(t)
    BY <2>1, UnderWayTypes DEF Swaps
  <2>3. CASE NoPost(c)
    <3>1. \A d \in CPUs : \A x : UnderWay(d, x)' <=> UnderWay(d, x)
      BY <2>1, <2>3 DEF NoPost, UnderWay
    <3>2. Swapping(c)'
      BY <2>2, <2>3, <3>1 DEF NoPost, Swapping
    <3> QED BY <2>1, <3>1, <3>2 DEF Swaps, Swapping
  <2>4. ASSUME NEW t \in Trans, Proper(t), Post(c, t), Len(fifo[c]) < MaxPosted,
               PlainPost(c, t) \/ SwapReads(c, t) \/ SwapWrites(c, t)
        PROVE  Swaps'
    <3>1. /\ \A x : UnderWay(c, x)' <=> UnderWay(c, x) \/ x = t
          /\ \A d \in CPUs \ {c} : \A x : UnderWay(d, x)' <=> UnderWay(d, x)
      BY <2>1, <2>4, UnderWayPost
    <3>2. Swapping(c)'
      <4>1. CASE PlainPost(c, t)
        BY <2>2, <3>1, <4>1 DEF PlainPost, Swapping
      <4>2. CASE SwapReads(c, t)
        <5>1. rmw'[c] # NoRmw
          BY <4>2, RmwFields DEF SwapReads
        <5> QED BY <2>2, <3>1, <4>2, <5>1 DEF SwapReads, Swapping
      <4>3. CASE SwapWrites(c, t)
        BY <2>2, <3>1, <4>3 DEF SwapWrites, Swapping
      <4> QED BY <2>4, <4>1, <4>2, <4>3
    <3> QED BY <2>1, <3>1, <3>2 DEF Swaps, Swapping
  <2> QED BY <1>1, <2>3, <2>4, ProcessorSteps
<1>2. ASSUME NEW c \in CPUs, Serve(c) PROVE Swaps'
  <2>1. rmw' = rmw
    BY <1>2 DEF Serve
  <2> QED BY <1>2, <2>1, UnderWayServe DEF Swaps, Swapping
<1>3. ASSUME NEW c \in CPUs, Begin(c) PROVE Swaps'
  <2>1. rmw' = rmw
    BY <1>3 DEF Begin, BeginWith
  <2> QED BY <1>3, <2>1, UnderWayBegin DEF Swaps, Swapping
<1>4. ASSUME NEW c \in CPUs, Finish(c) PROVE Swaps'
  <2>1. rmw' = rmw
    BY <1>4 DEF Finish
  <2>2. Swapping(c)'
    BY <1>4, <2>1, UnderWayFinish DEF Swaps, Swapping
  <2> QED BY <1>4, <2>1, <2>2, UnderWayFinish DEF Swaps, Swapping
<1>5. ASSUME NEW c \in CPUs, Complete(c) PROVE Swaps'
  <2> DEFINE t == active[c].trans
  <2>1. t \in Trans /\ UnderWay(c, t) /\ Swapping(c)
    BY <1>5, CompleteTypes, UnderWayComplete DEF Swaps
  <2>2. /\ rmw \in [CPUs -> Rmw \cup {NoRmw}]
        /\ \A d \in CPUs \ {c} : rmw'[d] = rmw[d]
        /\ rmw[c] = NoRmw <=> rmw'[c] = NoRmw
        /\ rmw[c] # NoRmw => \/ rmw'[c] = rmw[c] /\ ~t.load
                             \/ rmw'[c].got \in Values
    <3>1. rmw \in [CPUs -> Rmw \cup {NoRmw}]
      BY DEF Sorts, RmwOK
    <3>2. CASE t.load
      <4> DEFINE val == active[c].data[t.addr[3]]
      <4>1. val \in Values
        BY <1>5, <3>2, CompleteTypes, AddressFacts DEF Contents
      <4>2. Return(c, t.addr, val)
        BY <1>5, <3>2 DEF Complete
      <4> HIDE DEF t, val
      <4>3. CASE rmw[c] = NoRmw
        BY <3>1, <4>2, <4>3 DEF Return
      <4>4. CASE rmw[c] # NoRmw
        <5> DEFINE new == [rmw[c] EXCEPT !.got = val]
        <5>1. new \in Rmw /\ new # NoRmw /\ new.got = val
          <6>1. rmw[c] \in Rmw
            BY <3>1, <4>4
          <6> QED BY <4>1, <6>1, RmwFields DEF Rmw
        <5>2. rmw' = [rmw EXCEPT ![c] = new]
          BY <4>2, <4>4 DEF Return
        <5> HIDE DEF new
        <5> QED BY <3>1, <4>1, <4>4, <5>1, <5>2
      <4> QED BY <4>3, <4>4
    <3>3. CASE ~t.load
      BY <1>5, <3>1, <3>3 DEF Complete
    <3> QED BY <3>2, <3>3
  <2>3. Reads(t) \/ ~t.load
    BY <2>1, UnderWayTypes DEF Proper
  <2>4. Swapping(c)'
    <3> HIDE DEF t
    <3>1. \A x : UnderWay(c, x)' => UnderWay(c, x)
      BY <1>5, UnderWayComplete
    <3>2. \A x : UnderWay(c, x) => UnderWay(c, x)' \/ x = t
      BY <1>5, UnderWayComplete DEF t
    <3>3. /\ \A x \in Trans : UnderWay(c, x)' /\ Reads(x) /\ rmw'[c] # NoRmw => x.load
          /\ \A x \in Trans : UnderWay(c, x)' /\ x.lock => Reads(x) /\ rmw'[c] # NoRmw
      BY <2>1, <2>2, <3>1 DEF Swapping
    <3>4. rmw'[c] # NoRmw => \/ rmw'[c].got \in Values
                             \/ \E x \in Trans : UnderWay(c, x)' /\ Reads(x)
      BY <2>1, <2>2, <2>3, <3>2 DEF Swapping
    <3> QED BY <3>3, <3>4 DEF Swapping
  <2> QED BY <1>5, <2>2, <2>4, UnderWayComplete DEF Swaps, Swapping
<1>6. CASE UNCHANGED vars
  BY <1>6 DEF vars, Swaps, Swapping, UnderWay
<1> QED BY <1>1, <1>2, <1>3, <1>4, <1>5, <1>6 DEF Next, Bus

\* The lock is what the transfer asked for, and is held for a SWAP from its load on
\* until its store begins.
Locking(c) ==
    /\ active[c] # NoTrans /\ active[c].phase = "bus" => (isLock <=> active[c].trans.lock)
    /\ isLock /\ lockMaster = c =>
          \/ rmw[c] # NoRmw
          \/ \E t \in Trans : UnderWay(c, t) /\ ~Reads(t) /\ t.swapped # NoVal

Locks == \A c \in CPUs : Locking(c)

LEMMA LocksKept ==
    ASSUME ~Mmu, Repl = 2 => ~SetLock, Inv, Sorts, Queues, Swaps, Locks, [Next]_vars
    PROVE  Locks'
<1>1. ASSUME NEW c \in CPUs, Processor(c) PROVE Locks'
  <2>1. /\ active' = active /\ isLock' = isLock /\ lockMaster' = lockMaster /\ ~Waits(c)
        /\ \A d \in CPUs \ {c} : rmw'[d] = rmw[d]
    BY <1>1, ProcessorSteps
  <2>2. \A t \in Trans : UnderWay(c, t) => ~Reads(t)
    BY <2>1, UnderWayTypes
  <2>3. CASE NoPost(c)
    <3>1. \A d \in CPUs : \A x : UnderWay(d, x)' <=> UnderWay(d, x)
      BY <2>1, <2>3 DEF NoPost, UnderWay
    <3> QED BY <2>1, <2>3, <3>1 DEF NoPost, Locks, Locking
  <2>4. ASSUME NEW t \in Trans, Proper(t), Post(c, t), Len(fifo[c]) < MaxPosted,
               PlainPost(c, t) \/ SwapReads(c, t) \/ SwapWrites(c, t)
        PROVE  Locks'
    <3>1. /\ \A x : UnderWay(c, x)' <=> UnderWay(c, x) \/ x = t
          /\ \A d \in CPUs \ {c} : \A x : UnderWay(d, x)' <=> UnderWay(d, x)
      BY <2>1, <2>4, UnderWayPost
    <3>2. rmw[c] # NoRmw => rmw'[c] # NoRmw \/ (~Reads(t) /\ t.swapped # NoVal)
      <4>1. CASE PlainPost(c, t) \/ SwapReads(c, t)
        BY <4>1 DEF PlainPost, SwapReads
      <4>2. CASE SwapWrites(c, t)
        <5>1. rmw[c].got \in Values
          BY <2>2, <4>2, RmwFields DEF SwapWrites, Swaps, Swapping
        <5> QED BY <4>2, <5>1, SnoopSystemAssumption DEF SwapWrites
      <4> QED BY <2>4, <4>1, <4>2
    <3>3. Locking(c)'
      BY <2>1, <3>1, <3>2 DEF Locks, Locking
    <3> QED BY <2>1, <3>1, <3>3 DEF Locks, Locking
  <2> QED BY <1>1, <2>3, <2>4, ProcessorSteps
<1>2. ASSUME NEW c \in CPUs, Serve(c) PROVE Locks'
  <2>1. rmw' = rmw /\ isLock' = isLock /\ lockMaster' = lockMaster
    BY <1>2 DEF Serve
  <2>2. active'[c].phase # "bus" /\ \A d \in CPUs \ {c} : active'[d] = active[d]
    BY <1>2, ServeTypes
  <2> QED BY <1>2, <2>1, <2>2, UnderWayServe DEF Locks, Locking
<1>3. ASSUME NEW c \in CPUs, Begin(c) PROVE Locks'
  <2> DEFINE t == active[c].trans
  <2>1. /\ rmw' = rmw /\ (isLock' <=> t.lock) /\ lockMaster' = c /\ ~busy
    BY <1>3 DEF Begin, BeginWith, Free
  <2>2. /\ active'[c].trans = t /\ \A d \in CPUs \ {c} : active'[d] = active[d]
        /\ t \in Trans /\ active[c] # NoTrans
    BY <1>3, BeginTypes
  <2>3. UnderWay(c, t)
    BY <2>2 DEF UnderWay
  <2> HIDE DEF t
  <2>4. t.lock => rmw[c] # NoRmw
    BY <2>2, <2>3 DEF Swaps, Swapping
  <2>5. \A d \in CPUs : ~(active[d] # NoTrans /\ active[d].phase = "bus")
    BY <2>1 DEF Inv, OneTransfer
  <2>6. Locking(c)'
    BY <2>1, <2>2, <2>4 DEF Locking
  <2>7. ASSUME NEW d \in CPUs \ {c} PROVE Locking(d)'
    BY <2>1, <2>2, <2>5 DEF Locking
  <2> QED BY <2>6, <2>7 DEF Locks
<1>4. ASSUME NEW c \in CPUs, Finish(c) PROVE Locks'
  <2> DEFINE t == active[c].trans
  <2>1. rmw' = rmw /\ isLock' = isLock /\ lockMaster' = lockMaster
    BY <1>4 DEF Finish
  <2>2. /\ \A d \in CPUs \ {c} : active'[d] = active[d]
        /\ active'[c] # NoTrans => active'[c].phase = "answered"
        /\ t \in Trans /\ active[c] # NoTrans /\ active[c].phase = "bus"
    BY <1>4, FinishTypes DEF Finish
  <2>3. UnderWay(c, t) /\ (isLock <=> t.lock)
    BY <1>4, <2>2, UnderWayFinish DEF Locks, Locking
  <2> HIDE DEF t
  <2>4. isLock => rmw[c] # NoRmw
    BY <2>2, <2>3 DEF Swaps, Swapping
  <2>5. Locking(c)'
    BY <2>1, <2>2, <2>4 DEF Locking
  <2>6. ASSUME NEW d \in CPUs \ {c} PROVE Locking(d)'
    BY <1>4, <2>1, <2>2, UnderWayFinish DEF Locks, Locking
  <2> QED BY <2>5, <2>6 DEF Locks
<1>5. ASSUME NEW c \in CPUs, Complete(c) PROVE Locks'
  <2> DEFINE t == active[c].trans
  <2>1. isLock' = isLock /\ lockMaster' = lockMaster
    BY <1>5 DEF Complete
  <2>2. /\ \A d \in CPUs \ {c} : active'[d] = active[d]
        /\ active'[c] = NoTrans
    BY <1>5, CompleteTypes
  <2>3. t \in Trans /\ Reads(t)
    BY <1>5, CompleteTypes DEF Queues, Ordered
  <2>4. /\ \A d \in CPUs \ {c} : rmw'[d] = rmw[d]
        /\ rmw[c] # NoRmw => rmw'[c] # NoRmw
    <3>1. rmw \in [CPUs -> Rmw \cup {NoRmw}]
      BY DEF Sorts, RmwOK
    <3>2. CASE t.load
      <4> DEFINE val == active[c].data[t.addr[3]]
      <4>1. val \in Values
        BY <1>5, <3>2, CompleteTypes, AddressFacts DEF Contents
      <4>2. Return(c, t.addr, val)
        BY <1>5, <3>2 DEF Complete
      <4> HIDE DEF t, val
      <4>3. rmw[c] # NoRmw => [rmw[c] EXCEPT !.got = val] \in Rmw
        BY <3>1, <4>1, RmwFields
      <4> QED BY <3>1, <4>2, <4>3, SnoopSystemNothings DEF Return
    <3>3. CASE ~t.load
      BY <1>5, <3>1, <3>3 DEF Complete
    <3> QED BY <3>2, <3>3
  <2> HIDE DEF t
  <2>5. \A x : UnderWay(c, x) => UnderWay(c, x)' \/ x = t
    BY <1>5, UnderWayComplete DEF t
  <2>6. Locking(c)'
    BY <2>1, <2>2, <2>3, <2>4, <2>5 DEF Locks, Locking
  <2>7. ASSUME NEW d \in CPUs \ {c} PROVE Locking(d)'
    BY <1>5, <2>1, <2>2, <2>4, UnderWayComplete DEF Locks, Locking
  <2> QED BY <2>6, <2>7 DEF Locks
<1>6. CASE UNCHANGED vars
  BY <1>6 DEF vars, Locks, Locking, UnderWay
<1> QED BY <1>1, <1>2, <1>3, <1>4, <1>5, <1>6 DEF Next, Bus

LEMMA InitLocks == Init => Swaps /\ Locks
<1> SUFFICES ASSUME Init PROVE Swaps /\ Locks
  OBVIOUS
<1>1. \A c \in CPUs : Len(fifo[c]) = 0 /\ active[c] = NoTrans /\ rmw[c] = NoRmw
  BY EmptySeq DEF Init
<1>2. isLock = FALSE
  BY DEF Init
<1> QED BY <1>1, <1>2 DEF Swaps, Swapping, Locks, Locking, UnderWay

\* A write that is under way is pending.
LEMMA WritesArePending ==
    ASSUME Sorts, NEW c \in CPUs, NEW t \in Trans, UnderWay(c, t), ~Reads(t)
    PROVE  \E n \in DOMAIN Pending(c) : Pending(c)[n] = t
<1>1. Len(fifo[c]) \in Nat
  BY WaitsFor
<1>2. Posted(c) \in Nat
  BY <1>1 DEF Posted
<1>3. CASE active[c] # NoTrans /\ active[c].trans = t
  <2>1. Writes(c) /\ 1 \in 1..(Posted(c) + 1)
    BY <1>2, <1>3 DEF Writes
  <2> QED BY <1>3, <2>1 DEF Pending
<1>4. ASSUME NEW n \in 1..Len(fifo[c]), fifo[c][n] = t
      PROVE  \E k \in DOMAIN Pending(c) : Pending(c)[k] = t
  <2>1. n \in 1..Posted(c)
    BY <1>1, <1>4 DEF Posted
  <2>2. CASE Writes(c)
    <3>1. n + 1 \in 1..(Posted(c) + 1) /\ n + 1 # 1 /\ n + 1 - 1 = n
      BY <1>2, <2>1
    <3> QED BY <1>4, <2>2, <3>1 DEF Pending
  <2>3. CASE ~Writes(c)
    BY <1>4, <2>1, <2>3 DEF Pending
  <2> QED BY <2>2, <2>3
<1> QED BY <1>3, <1>4 DEF UnderWay

\* Without the MMU the bus is kept from the other masters between the load and the
\* store of a SWAP only: the lock of the load is given up by the store at the latest.
THEOREM LocksAreWanted ==
    ASSUME ~Mmu, Repl = 2 => ~SetLock
    PROVE  Spec => []LockWanted
<1> DEFINE IInv == Inv /\ Sorts /\ Queues /\ Swaps /\ Locks
<1>1. Init => IInv
  BY InitSorts, InitQueues, InitLocks DEF Init, Inv, ActiveShape, OneTransfer
<1>2. IInv /\ [Next]_vars => IInv'
  BY InvKept, SortsKept, QueuesKept, SwapsKept, LocksKept
<1>3. IInv => LockWanted
  <2> SUFFICES ASSUME IInv, isLock, rmw[lockMaster] = NoRmw
               PROVE  \E n \in DOMAIN Pending(lockMaster) :
                          Pending(lockMaster)[n].swapped # NoVal
    BY DEF LockWanted
  <2>1. lockMaster \in CPUs
    BY DEF Sorts, BusOK
  <2>2. PICK t \in Trans : UnderWay(lockMaster, t) /\ ~Reads(t) /\ t.swapped # NoVal
    BY <2>1 DEF Locks, Locking
  <2> QED BY <2>1, <2>2, WritesArePending
<1> HIDE DEF IInv
<1> QED BY <1>1, <1>2, <1>3, PTL DEF Spec

-----------------------------------------------------------------------------
(* Atomic instructions                                                     *)

Held(c) == isLock /\ lockMaster = c

MemAt(addr) == MemLine(addr)[addr[3]]

\* the store of a SWAP or LDSTUB whose load has returned
Swap(t) == ~Reads(t) /\ t.swapped # NoVal

\* From the answer to the load of a SWAP until its store begins, the bus is its own
\* and the word in memory is the one the load returned: no older store of the
\* processor is left to give the lock up.
Exclusive(c) ==
    /\ \A t \in Trans :
          UnderWay(c, t) /\ Reads(t) /\ rmw[c] # NoRmw =>
              t.lock /\ t.load /\ t.addr = rmw[c].addr
    /\ /\ rmw[c] # NoRmw /\ active[c] # NoTrans
       /\ active[c].phase # "wait" /\ Reads(active[c].trans)
       => Held(c) /\ active[c].data = MemLine(active[c].trans.addr)
    /\ rmw[c] # NoRmw /\ rmw[c].got # NoVal =>
          /\ Held(c) /\ Len(fifo[c]) = 0 /\ active[c] = NoTrans
          /\ MemAt(rmw[c].addr) = rmw[c].got
    /\ \A n \in 1..Len(fifo[c]) :
          Swap(fifo[c][n]) =>
              /\ n = 1 /\ active[c] = NoTrans
              /\ Held(c) /\ MemAt(fifo[c][n].addr) = fifo[c][n].swapped
    /\ active[c] # NoTrans /\ active[c].phase = "wait" /\ Swap(active[c].trans) =>
          Held(c) /\ MemAt(active[c].trans.addr) = active[c].trans.swapped

Exclusives == \A c \in CPUs : Exclusive(c)

\* What Exclusive looks at.
LEMMA ExclusiveFrame ==
    ASSUME NEW c \in CPUs, Exclusive(c), fifo'[c] = fifo[c], active'[c] = active[c],
           rmw'[c] = rmw[c], isLock' = isLock, lockMaster' = lockMaster, mem' = mem
    PROVE  Exclusive(c)'
BY DEF Exclusive, UnderWay, Held, MemAt, MemLine

LEMMA ExclusivePost ==
    ASSUME \A kind \in Atomics : kind.lock /\ kind.forced,
           Sorts, Queues, Exclusives, NEW c \in CPUs, Processor(c)
    PROVE  Exclusive(c)'
<1>1. /\ active' = active /\ isLock' = isLock /\ lockMaster' = lockMaster /\ mem' = mem
      /\ ~Waits(c)
  BY ProcessorSteps
<1>2. Exclusive(c) /\ \A t \in Trans : UnderWay(c, t) => ~Reads(t)
  BY <1>1, UnderWayTypes DEF Exclusives
<1>3. active[c] # NoTrans => ~Reads(active[c].trans)
  BY <1>1, WaitsFor
<1>4. CASE NoPost(c)
  BY <1>1, <1>2, <1>4, ExclusiveFrame DEF NoPost
<1>5. ASSUME NEW t \in Trans, Proper(t), Post(c, t), Len(fifo[c]) < MaxPosted,
             PlainPost(c, t) \/ SwapReads(c, t) \/ SwapWrites(c, t)
      PROVE  Exclusive(c)'
  <2>1. \A x : UnderWay(c, x)' <=> UnderWay(c, x) \/ x = t
    BY <1>1, <1>5, UnderWayPost
  <2>2. /\ Len(fifo'[c]) = Len(fifo[c]) + 1 /\ Len(fifo[c]) \in Nat
        /\ \A n \in 1..Len(fifo[c]) : fifo'[c][n] = fifo[c][n]
        /\ fifo'[c][Len(fifo[c]) + 1] = t
    BY <1>5, PostTypes, WaitsFor
  <2>3. \A n \in 1..Len(fifo'[c]) : n = Len(fifo[c]) + 1 \/ n \in 1..Len(fifo[c])
    BY <2>2
  <2>5. \A n \in 1..Len(fifo[c]) :
            Swap(fifo[c][n]) =>
                /\ n = 1 /\ active[c] = NoTrans
                /\ Held(c) /\ MemAt(fifo[c][n].addr) = fifo[c][n].swapped
    BY <1>2 DEF Exclusive
  <2>6. Swap(t) =>
            /\ Len(fifo[c]) = 0 /\ active[c] = NoTrans
            /\ Held(c) /\ MemAt(t.addr) = t.swapped
    BY <1>2, <1>5, RmwFields DEF Swap, PlainPost, SwapReads, SwapWrites, Exclusive
  <2>7. ASSUME NEW n \in 1..Len(fifo'[c])
        PROVE  (Swap(fifo[c][n]) =>
                   /\ n = 1 /\ active[c] = NoTrans
                   /\ Held(c) /\ MemAt(fifo[c][n].addr) = fifo[c][n].swapped)'
    <3>1. CASE n \in 1..Len(fifo[c])
      <4>1. fifo'[c][n] = fifo[c][n]
        BY <2>2, <3>1
      <4>2. Swap(fifo[c][n]) =>
                /\ n = 1 /\ active[c] = NoTrans
                /\ Held(c) /\ MemAt(fifo[c][n].addr) = fifo[c][n].swapped
        BY <2>5, <3>1
      <4> QED BY <1>1, <4>1, <4>2 DEF Held, MemAt, MemLine, Swap
    <3>2. CASE n = Len(fifo[c]) + 1
      <4>1. fifo'[c][n] = t /\ active' = active
        BY <1>1, <2>2, <3>2
      <4>2. Held(c)' <=> Held(c)
        BY <1>1 DEF Held
      <4>3. \A a : MemAt(a)' = MemAt(a)
        BY <1>1 DEF MemAt, MemLine
      <4>4. Swap(fifo'[c][n]) =>
                /\ n = 1 /\ active'[c] = NoTrans
                /\ Held(c) /\ MemAt(fifo'[c][n].addr) = fifo'[c][n].swapped
        BY <2>2, <2>6, <3>2, <4>1
      <4> QED BY <4>2, <4>3, <4>4 DEF Swap
    <3> QED BY <2>3, <3>1, <3>2
  <2>8. \A x \in Trans :
            UnderWay(c, x)' /\ Reads(x) /\ rmw'[c] # NoRmw =>
                x.lock /\ x.load /\ x.addr = rmw'[c].addr
    BY <1>2, <1>5, <2>1 DEF PlainPost, SwapReads, SwapWrites
  <2>9. rmw'[c] # NoRmw => rmw'[c].got = NoVal
    BY <1>5 DEF PlainPost, SwapReads, SwapWrites
  <2>10. active'[c] # NoTrans /\ active'[c].phase = "wait" /\ Swap(active'[c].trans) =>
            (Held(c) /\ MemAt(active[c].trans.addr) = active[c].trans.swapped)'
    BY <1>1, <1>2 DEF Exclusive, Held, MemAt, MemLine, Swap
  <2> QED BY <1>1, <1>3, <2>7, <2>8, <2>9, <2>10 DEF Exclusive
<1>6. NoPost(c) \/ \E t \in Trans : /\ Proper(t) /\ Post(c, t) /\ Len(fifo[c]) < MaxPosted
                                    /\ PlainPost(c, t) \/ SwapReads(c, t) \/ SwapWrites(c, t)
  BY ProcessorSteps
<1> QED BY <1>4, <1>5, <1>6

LEMMA ExclusiveServe ==
    ASSUME Sorts, Exclusives, NEW c \in CPUs, Serve(c)
    PROVE  Exclusive(c)'
<1>1. /\ isLock' = isLock /\ lockMaster' = lockMaster /\ mem' = mem /\ rmw' = rmw
      /\ active[c] = NoTrans
  BY DEF Serve
<1>2. /\ Len(fifo[c]) \in Nat \ {0} /\ Len(fifo'[c]) = Len(fifo[c]) - 1
      /\ \A n \in 1..Len(fifo'[c]) : fifo'[c][n] = fifo[c][n + 1]
      /\ active'[c] # NoTrans /\ active'[c].trans = fifo[c][1] /\ active'[c].phase = "wait"
  BY ServeTypes
<1>3. Exclusive(c)
  BY DEF Exclusives
<1>4. \A n \in 1..Len(fifo'[c]) : n + 1 \in 1..Len(fifo[c]) /\ n + 1 # 1
  BY <1>2
<1>5. \A n \in 1..Len(fifo'[c]) : ~Swap(fifo'[c][n])
  <2>1. \A n \in 1..Len(fifo[c]) : n # 1 => ~Swap(fifo[c][n])
    BY <1>3 DEF Exclusive
  <2> QED BY <1>2, <1>4, <2>1
<1>6. Swap(fifo[c][1]) => Held(c) /\ MemAt(fifo[c][1].addr) = fifo[c][1].swapped
  <2>1. 1 \in 1..Len(fifo[c])
    BY <1>2
  <2> QED BY <1>3, <2>1 DEF Exclusive
<1>7. rmw[c] # NoRmw => rmw[c].got = NoVal
  BY <1>2, <1>3 DEF Exclusive
<1>8. Swap(fifo[c][1]) =>
          (Held(c) /\ MemAt(active[c].trans.addr) = active[c].trans.swapped)'
  BY <1>1, <1>2, <1>6 DEF MemAt, MemLine, Held
<1>9. \A t \in Trans :
          UnderWay(c, t)' /\ Reads(t) /\ rmw'[c] # NoRmw =>
              t.lock /\ t.load /\ t.addr = rmw'[c].addr
  BY <1>1, <1>3, UnderWayServe DEF Exclusive
<1> QED BY <1>1, <1>2, <1>5, <1>7, <1>8, <1>9 DEF Exclusive, Swap

LEMMA ExclusiveBegin ==
    ASSUME Sorts, Exclusives, NEW c \in CPUs, Begin(c)
    PROVE  Exclusives'
<1> DEFINE t == active[c].trans
<1>1. /\ rmw' = rmw /\ fifo' = fifo /\ lockMaster' = c
      /\ isLock' <=> t.lock
      /\ isLock => lockMaster = c
      /\ Reads(t) => mem' = mem
  BY DEF Begin, BeginWith, Free
<1>2. /\ active[c] # NoTrans /\ active[c].phase = "wait" /\ t \in Trans
      /\ active[c] \in Active /\ Proper(t)
      /\ active'[c] # NoTrans /\ active'[c].phase = "bus" /\ active'[c].trans = t
      /\ active'[c] = Transferring(active[c])
      /\ \A d \in CPUs \ {c} : active'[d] = active[d]
  BY BeginTypes
<1>3. Reads(t) => active'[c].data = MemLine(t.addr)
  BY <1>2, TransferringFacts
<1>4. \A d \in CPUs : \A x : UnderWay(d, x)' <=> UnderWay(d, x)
  BY UnderWayBegin
<1>5. UnderWay(c, t)
  BY <1>2 DEF UnderWay
<1> HIDE DEF t
<1>6. Exclusive(c)'
  <2>1. Exclusive(c)
    BY DEF Exclusives
  <2>2. rmw[c] # NoRmw /\ Reads(t) => t.lock
    BY <1>2, <1>5, <2>1 DEF Exclusive
  <2>3. Reads(t) => (active[c].data = MemLine(active[c].trans.addr))'
    BY <1>1, <1>2, <1>3 DEF MemLine
  <2>4. /\ \A x \in Trans :
              UnderWay(c, x)' /\ Reads(x) /\ rmw'[c] # NoRmw =>
                  x.lock /\ x.load /\ x.addr = rmw'[c].addr
        /\ ~(rmw'[c] # NoRmw /\ rmw'[c].got # NoVal)
        /\ \A n \in 1..Len(fifo'[c]) : ~Swap(fifo'[c][n])
    BY <1>1, <1>2, <1>4, <2>1 DEF Exclusive
  <2>5. rmw'[c] # NoRmw /\ Reads(t) => Held(c)'
    BY <1>1, <2>2 DEF Held
  <2> QED BY <1>2, <2>3, <2>4, <2>5 DEF Exclusive, Swap
<1>7. ASSUME NEW d \in CPUs \ {c} PROVE Exclusive(d)'
  <2>1. Exclusive(d) /\ ~Held(d)
    BY <1>1 DEF Exclusives, Held
  <2> QED BY <1>1, <1>2, <1>4, <2>1 DEF Exclusive, Swap
<1> QED BY <1>6, <1>7 DEF Exclusives

LEMMA ExclusiveFinish ==
    ASSUME Sorts, Exclusives, NEW c \in CPUs, Finish(c)
    PROVE  Exclusive(c)'
<1>1. /\ isLock' = isLock /\ lockMaster' = lockMaster /\ mem' = mem /\ rmw' = rmw
      /\ fifo' = fifo /\ active[c] # NoTrans /\ active[c].phase = "bus"
  BY DEF Finish
<1>2. /\ Reads(active[c].trans) =>
            /\ active'[c].phase = "answered"
            /\ active'[c].trans = active[c].trans /\ active'[c].data = active[c].data
      /\ ~Reads(active[c].trans) => active'[c] = NoTrans
      /\ \A x : UnderWay(c, x)' => UnderWay(c, x)
  BY FinishTypes, UnderWayFinish
<1>3. Exclusive(c)
  BY DEF Exclusives
<1>4. ~(rmw[c] # NoRmw /\ rmw[c].got # NoVal) /\ \A n \in 1..Len(fifo[c]) : ~Swap(fifo[c][n])
  BY <1>1, <1>3 DEF Exclusive
<1>5. rmw[c] # NoRmw /\ Reads(active[c].trans) =>
          (Held(c) /\ active[c].data = MemLine(active[c].trans.addr))'
  BY <1>1, <1>2, <1>3 DEF Exclusive, Held, MemLine
<1>6. \A x \in Trans :
          UnderWay(c, x)' /\ Reads(x) /\ rmw'[c] # NoRmw =>
              x.lock /\ x.load /\ x.addr = rmw'[c].addr
  BY <1>1, <1>2, <1>3 DEF Exclusive
<1> QED BY <1>1, <1>2, <1>4, <1>5, <1>6 DEF Exclusive, Swap

LEMMA ExclusiveComplete ==
    ASSUME Repl = 2 => ~SetLock, Sorts, Queues, Exclusives, NEW c \in CPUs, Complete(c)
    PROVE  Exclusive(c)' /\ \A d \in CPUs \ {c} : rmw'[d] = rmw[d]
<1> DEFINE t == active[c].trans
           val == active[c].data[t.addr[3]]
<1>1. /\ isLock' = isLock /\ lockMaster' = lockMaster /\ mem' = mem /\ fifo' = fifo
  BY DEF Complete
<1>2. /\ active[c] # NoTrans /\ active[c].phase = "answered" /\ active'[c] = NoTrans
      /\ t \in Trans /\ t.addr \in Addresses /\ (t.load => active[c].data \in Contents)
  BY CompleteTypes
<1>3. Reads(t) /\ Len(fifo[c]) = 0 /\ UnderWay(c, t)
  BY <1>2, UnderWayComplete DEF Queues, Ordered
<1>4. Exclusive(c)
  BY DEF Exclusives
<1>6. rmw[c] # NoRmw =>
          /\ t.load /\ t.addr = rmw[c].addr /\ Held(c)
          /\ active[c].data = MemLine(t.addr)
  BY <1>2, <1>3, <1>4 DEF Exclusive
<1>7. rmw \in [CPUs -> Rmw \cup {NoRmw}]
  BY DEF Sorts, RmwOK
<1>8. t.load => Return(c, t.addr, val)
  BY DEF Complete
<1>9. ~t.load => rmw' = rmw
  BY DEF Complete
<1>10. t.load => val \in Values
  BY <1>2, AddressFacts DEF Contents
<1>11. rmw[c] # NoRmw => val = MemAt(rmw[c].addr)
  BY <1>6 DEF MemAt
<1>12. \A x : UnderWay(c, x)' => UnderWay(c, x)
  BY UnderWayComplete
<1> HIDE DEF t, val
<1>13. CASE rmw[c] = NoRmw
  <2>1. rmw' = rmw
    BY <1>8, <1>9, <1>13 DEF Return
  <2> QED BY <1>1, <1>2, <1>3, <1>13, <2>1 DEF Exclusive
<1>14. CASE rmw[c] # NoRmw
  <2> DEFINE new == [rmw[c] EXCEPT !.got = val]
  <2>1. new \in Rmw /\ new.got = val /\ new.addr = rmw[c].addr
    <3>1. rmw[c] \in Rmw
      BY <1>7, <1>14
    <3> QED BY <1>6, <1>10, <1>14, <3>1 DEF Rmw
  <2>2. rmw' = [rmw EXCEPT ![c] = new]
    BY <1>6, <1>8, <1>14 DEF Return
  <2> HIDE DEF new
  <2>3. rmw'[c] = new /\ \A d \in CPUs \ {c} : rmw'[d] = rmw[d]
    BY <1>7, <2>1, <2>2
  <2>4. \A x \in Trans :
            UnderWay(c, x)' /\ Reads(x) /\ rmw'[c] # NoRmw =>
                x.lock /\ x.load /\ x.addr = rmw'[c].addr
    BY <1>4, <1>12, <1>14, <2>1, <2>3 DEF Exclusive
  <2>5. (Held(c) /\ MemAt(rmw[c].addr) = rmw[c].got)'
    BY <1>1, <1>6, <1>11, <1>14, <2>1, <2>3 DEF Held, MemAt, MemLine
  <2> QED BY <1>1, <1>2, <1>3, <2>3, <2>4, <2>5 DEF Exclusive
<1> QED BY <1>13, <1>14

LEMMA ExclusiveKept ==
    ASSUME \A kind \in Atomics : kind.lock /\ kind.forced, Repl = 2 => ~SetLock,
           Sorts, Queues, Exclusives, [Next]_vars
    PROVE  Exclusives'
<1>1. ASSUME NEW c \in CPUs, Processor(c) PROVE Exclusives'
  <2>1. ASSUME NEW d \in CPUs \ {c} PROVE Exclusive(d)'
    <3>1. /\ UNCHANGED <<active, isLock, lockMaster, mem>> /\ rmw'[d] = rmw[d]
          /\ fifo'[d] = fifo[d]
      BY <1>1, ProcessorSteps, PostTypes DEF NoPost
    <3> QED BY <3>1, ExclusiveFrame DEF Exclusives
  <2> QED BY <1>1, <2>1, ExclusivePost DEF Exclusives
<1>2. ASSUME NEW c \in CPUs, Serve(c) PROVE Exclusives'
  <2>1. ASSUME NEW d \in CPUs \ {c} PROVE Exclusive(d)'
    BY <1>2, ServeTypes, ExclusiveFrame DEF Exclusives, Serve
  <2> QED BY <1>2, <2>1, ExclusiveServe DEF Exclusives
<1>3. ASSUME NEW c \in CPUs, Finish(c) PROVE Exclusives'
  <2>1. ASSUME NEW d \in CPUs \ {c} PROVE Exclusive(d)'
    BY <1>3, FinishTypes, ExclusiveFrame DEF Exclusives, Finish
  <2> QED BY <1>3, <2>1, ExclusiveFinish DEF Exclusives
<1>4. ASSUME NEW c \in CPUs, Complete(c) PROVE Exclusives'
  <2>1. ASSUME NEW d \in CPUs \ {c} PROVE Exclusive(d)'
    BY <1>4, CompleteTypes, ExclusiveComplete, ExclusiveFrame DEF Exclusives, Complete
  <2> QED BY <1>4, <2>1, ExclusiveComplete DEF Exclusives
<1>5. CASE UNCHANGED vars
  BY <1>5, ExclusiveFrame DEF vars, Exclusives
<1> QED BY <1>1, <1>2, <1>3, <1>4, <1>5, ExclusiveBegin DEF Next, Bus

\* A SWAP that locks the bus with its load, and whose load is not taken from the
\* cache, is atomic: what its store replaces is what its load returned.  The MMU does
\* not matter here.
THEOREM SwapsAreAtomic ==
    ASSUME \A kind \in Atomics : kind.lock /\ kind.forced, Repl = 2 => ~SetLock
    PROVE  Spec => Atomic
<1> DEFINE IInv == Sorts /\ Queues /\ Exclusives
           Act  == \A c \in CPUs :
                      Begin(c) /\ active[c].trans.swapped # NoVal =>
                          MemLine(active[c].trans.addr)[active[c].trans.addr[3]]
                              = active[c].trans.swapped
<1>1. Init => IInv
  <2>1. Init => Exclusives
    <3> SUFFICES ASSUME Init PROVE Exclusives
      OBVIOUS
    <3>1. \A c \in CPUs : Len(fifo[c]) = 0 /\ active[c] = NoTrans /\ rmw[c] = NoRmw
      BY EmptySeq DEF Init
    <3> QED BY <3>1 DEF Exclusives, Exclusive, UnderWay
  <2> QED BY <2>1, InitSorts, InitQueues
<1>2. IInv /\ [Next]_vars => IInv'
  BY SortsKept, QueuesKept, ExclusiveKept
<1>3. IInv => Act
  <2> SUFFICES ASSUME IInv, NEW c \in CPUs, Begin(c), active[c].trans.swapped # NoVal
               PROVE  MemAt(active[c].trans.addr) = active[c].trans.swapped
    BY DEF MemAt
  <2>1. active[c] # NoTrans /\ active[c].phase = "wait"
    BY BeginTypes
  <2>2. ~Reads(active[c].trans)
    BY BeginTypes DEF Proper
  <2> QED BY <2>1, <2>2 DEF Exclusives, Exclusive, Swap
<1>4. IInv /\ [Next]_vars => [Act]_vars
  BY <1>3
<1> HIDE DEF IInv
<1> QED BY <1>1, <1>2, <1>4, PTL DEF Spec, Atomic

-----------------------------------------------------------------------------
(* The newest store of a buffer                                            *)

Stores == Addresses \X Values

\* TSOMemory's Newest, of memory m
NewestIn(m, b, a) ==
    IF {n \in DOMAIN b : b[n][1] = a} = {} THEN m[a]
    ELSE b[CHOOSE n \in {k \in DOMAIN b : b[k][1] = a} :
              \A k \in {j \in DOMAIN b : b[j][1] = a} : k <= n][2]

LEMMA NewestIsIn ==
    \A b, a : Promised!Newest(b, a) = NewestIn(Ended, b, a)
BY DEF Promised!Newest, Promised!StoresTo, NewestIn

\* a store to a comes last
LastAt(b, a, k) ==
    /\ k \in 1..Len(b) /\ b[k][1] = a
    /\ \A n \in 1..Len(b) : n > k => b[n][1] # a

\* A buffer of at most three stores has a last one to an address, or none.
LEMMA LastExists ==
    ASSUME NEW b \in Seq(Stores), Len(b) <= 3, NEW a
    PROVE  \/ \A n \in 1..Len(b) : b[n][1] # a
           \/ \E k \in 1..Len(b) : LastAt(b, a, k)
<1> DEFINE S == {n \in 1..Len(b) : b[n][1] = a}
<1>1. Len(b) \in Nat
  BY LenProperties
<1>2. S \subseteq 1..3
  BY <1>1
<1>3. S = {} \/ \E k \in S : \A n \in S : n <= k
  <2>1. S # {} => 1 \in S \/ 2 \in S \/ 3 \in S
    <3>1. \A n \in 1..3 : n = 1 \/ n = 2 \/ n = 3
      OBVIOUS
    <3> QED BY <1>2, <3>1
  <2> QED BY <1>2, <2>1
<1> QED BY <1>1, <1>3 DEF LastAt

LEMMA NewestNone ==
    ASSUME NEW m, NEW b \in Seq(Stores), NEW a, \A n \in 1..Len(b) : b[n][1] # a
    PROVE  NewestIn(m, b, a) = m[a]
BY LenProperties DEF NewestIn

LEMMA NewestLast ==
    ASSUME NEW m, NEW b \in Seq(Stores), NEW a, NEW k, LastAt(b, a, k)
    PROVE  NewestIn(m, b, a) = b[k][2]
<1> DEFINE S == {n \in DOMAIN b : b[n][1] = a}
<1>1. DOMAIN b = 1..Len(b) /\ Len(b) \in Nat
  BY LenProperties
<1>2. k \in S /\ S \subseteq Nat /\ \A n \in S : n <= k
  BY <1>1 DEF LastAt
<1>3. NewestIn(m, b, a) =
          IF S = {} THEN m[a] ELSE b[CHOOSE n \in S : \A j \in S : j <= n][2]
  BY DEF NewestIn
<1> HIDE DEF S
<1>4. \A n \in S : (\A j \in S : j <= n) => n = k
  BY <1>2
<1>5. (CHOOSE n \in S : \A j \in S : j <= n) = k
  BY <1>2, <1>4
<1> QED BY <1>2, <1>3, <1>5

\* A store goes in: it is the newest at its address.
LEMMA NewestAppend ==
    ASSUME NEW m, NEW b \in Seq(Stores), Len(b) <= 2, NEW s \in Stores, NEW a
    PROVE  NewestIn(m, Append(b, s), a) = IF a = s[1] THEN s[2] ELSE NewestIn(m, b, a)
<1> DEFINE b2 == Append(b, s)
           N  == Len(b)
<1>1. /\ b2 \in Seq(Stores) /\ Len(b2) = N + 1 /\ N \in Nat /\ N <= 2 /\ Len(b2) <= 3
      /\ \A n \in 1..N : b2[n] = b[n]
      /\ b2[N + 1] = s
  BY AppendProperties, LenProperties
<1> HIDE DEF b2, N
<1>2. \A n \in 1..(N + 1) : n = N + 1 \/ n \in 1..N
  BY <1>1
<1>3. CASE a = s[1]
  <2>1. LastAt(b2, a, N + 1) /\ N + 1 \in 1..Len(b2)
    BY <1>1, <1>3 DEF LastAt
  <2>2. NewestIn(m, b2, a) = b2[N + 1][2]
    BY <1>1, <2>1, LastExists, NewestNone, NewestLast
  <2> QED BY <1>1, <1>3, <2>2 DEF b2
<1>4. CASE a # s[1]
  <2>1. CASE \A n \in 1..N : b[n][1] # a
    <3>1. \A n \in 1..Len(b2) : b2[n][1] # a
      BY <1>1, <1>2, <1>4, <2>1
    <3>2. NewestIn(m, b2, a) = m[a]
      BY <1>1, <3>1, LastExists, NewestNone, NewestLast
    <3>3. NewestIn(m, b, a) = m[a]
      BY <1>1, <2>1, LastExists, NewestNone, NewestLast DEF N
    <3> QED BY <1>4, <3>2, <3>3 DEF b2
  <2>2. ASSUME NEW k \in 1..N, LastAt(b, a, k)
        PROVE  NewestIn(m, b2, a) = NewestIn(m, b, a)
    <3>1. LastAt(b2, a, k) /\ k \in 1..Len(b2)
      <4>1. k \in 1..Len(b2) /\ b2[k] = b[k]
        BY <1>1
      <4>2. ASSUME NEW n \in 1..Len(b2), n > k PROVE b2[n][1] # a
        BY <1>1, <1>2, <1>4, <2>2, <4>2 DEF LastAt, N
      <4> QED BY <2>2, <4>1, <4>2 DEF LastAt
    <3>2. NewestIn(m, b2, a) = b2[k][2]
      BY <1>1, <3>1, LastExists, NewestNone, NewestLast
    <3>3. NewestIn(m, b, a) = b[k][2]
      <4>1. Len(b) <= 3
        BY <1>1 DEF N
      <4> QED BY <2>2, <4>1, LastExists, NewestNone, NewestLast DEF N
    <3> QED BY <1>1, <3>2, <3>3
  <2>3. (\A n \in 1..N : b[n][1] # a) \/ \E k \in 1..N : LastAt(b, a, k)
    <3>1. Len(b) <= 3
      BY <1>1 DEF N
    <3> QED BY <3>1, LastExists, NewestNone, NewestLast DEF N
  <2> QED BY <1>4, <2>1, <2>2, <2>3 DEF b2
<1> QED BY <1>3, <1>4

\* The oldest store goes to the memory: its processor sees no difference.
LEMMA NewestCommit ==
    ASSUME NEW m1, NEW m2, NEW b \in Seq(Stores), b # <<>>, Len(b) <= 3, NEW a \in Addresses,
           m2[a] = IF a = b[1][1] THEN b[1][2] ELSE m1[a]
    PROVE  NewestIn(m2, Tail(b), a) = NewestIn(m1, b, a)
<1> DEFINE t == Tail(b)
           N == Len(t)
<1>1. /\ t \in Seq(Stores) /\ N \in Nat /\ Len(b) = N + 1 /\ N <= 3
      /\ \A n \in 1..N : t[n] = b[n + 1]
  BY HeadTailProperties, LenProperties, EmptySeq
<1> HIDE DEF t
<1>2. \A n \in 1..Len(b) : n = 1 \/ (n - 1 \in 1..N /\ t[n - 1] = b[n])
  BY <1>1
<1>3. \A n \in 1..N : n + 1 \in 1..Len(b) /\ t[n] = b[n + 1]
  BY <1>1
<1>4. 1 \in 1..Len(b)
  BY <1>1
<1> HIDE DEF N
<1>5. CASE \A n \in 1..N : t[n][1] # a
  <2>1. NewestIn(m2, t, a) = m2[a]
    BY <1>1, <1>5, LastExists, NewestNone, NewestLast DEF N
  <2>2. CASE a = b[1][1]
    <3>1. LastAt(b, a, 1)
      <4>1. ASSUME NEW n \in 1..Len(b), n > 1 PROVE b[n][1] # a
        BY <1>2, <1>5, <4>1
      <4> QED BY <1>4, <2>2, <4>1 DEF LastAt
    <3>2. NewestIn(m1, b, a) = b[1][2]
      BY <1>4, <3>1, LastExists, NewestNone, NewestLast
    <3> QED BY <2>1, <2>2, <3>2 DEF t
  <2>3. CASE a # b[1][1]
    <3>1. \A n \in 1..Len(b) : b[n][1] # a
      BY <1>2, <1>5, <2>3
    <3>2. NewestIn(m1, b, a) = m1[a]
      BY <3>1, LastExists, NewestNone, NewestLast
    <3> QED BY <2>1, <2>3, <3>2 DEF t
  <2> QED BY <2>2, <2>3
<1>6. ASSUME NEW k \in 1..N, LastAt(t, a, k)
      PROVE  NewestIn(m2, t, a) = NewestIn(m1, b, a)
  <2>1. NewestIn(m2, t, a) = t[k][2]
    BY <1>1, <1>6, LastExists, NewestNone, NewestLast DEF N
  <2>2. k + 1 \in 1..Len(b) /\ t[k] = b[k + 1]
    BY <1>3
  <2>3. LastAt(b, a, k + 1)
    <3>1. ASSUME NEW n \in 1..Len(b), n > k + 1 PROVE b[n][1] # a
      <4>1. n - 1 \in 1..N /\ t[n - 1] = b[n] /\ n - 1 > k
        BY <1>1, <1>2, <3>1
      <4> QED BY <1>6, <4>1 DEF LastAt, N
    <3> QED BY <1>6, <2>2, <3>1 DEF LastAt
  <2>4. NewestIn(m1, b, a) = b[k + 1][2]
    BY <2>2, <2>3, LastExists, NewestNone, NewestLast
  <2> QED BY <2>1, <2>2, <2>4
<1>7. (\A n \in 1..N : t[n][1] # a) \/ \E k \in 1..N : LastAt(t, a, k)
  BY <1>1, LastExists, NewestNone, NewestLast DEF N
<1> QED BY <1>5, <1>6, <1>7 DEF t

\* It is seen by the others unless they have a newer store of their own.
LEMMA NewestElsewhere ==
    ASSUME NEW m1, NEW m2, NEW b \in Seq(Stores), Len(b) <= 3, NEW a, m2[a] = m1[a]
    PROVE  NewestIn(m2, b, a) = NewestIn(m1, b, a)
<1>1. (\A n \in 1..Len(b) : b[n][1] # a) \/ \E k \in 1..Len(b) : LastAt(b, a, k)
  BY LastExists, NewestNone, NewestLast
<1> QED BY <1>1, LastExists, NewestNone, NewestLast

LEMMA NewestType ==
    ASSUME NEW m \in [Addresses -> Values], NEW b \in Seq(Stores), Len(b) <= 3,
           NEW a \in Addresses
    PROVE  /\ NewestIn(m, b, a) \in Values
           /\ Len(b) = 0 => NewestIn(m, b, a) = m[a]
<1>1. \A k \in 1..Len(b) : b[k][2] \in Values
  BY ElementOfSeq DEF Stores
<1>2. (\A n \in 1..Len(b) : b[n][1] # a) \/ \E k \in 1..Len(b) : LastAt(b, a, k)
  BY LastExists, NewestNone, NewestLast
<1>3. NewestIn(m, b, a) \in Values
  BY <1>1, <1>2, LastExists, NewestNone, NewestLast
<1>4. ASSUME Len(b) = 0 PROVE NewestIn(m, b, a) = m[a]
  <2>1. \A n \in 1..Len(b) : b[n][1] # a
    BY <1>4
  <2> QED BY <2>1, LastExists, NewestNone, NewestLast
<1> QED BY <1>3, <1>4

-----------------------------------------------------------------------------
(* The buffer of a processor                                               *)

LEMMA FunctionIsSeq ==
    ASSUME NEW S, NEW N \in Nat, NEW s \in [1..N -> S]
    PROVE  s \in Seq(S) /\ Len(s) = N
<1>1. s \in Seq(S)
  BY SeqDef
<1>2. Len(s) \in Nat /\ 1..Len(s) = 1..N
  BY <1>1, LenProperties
<1>3. Len(s) <= N
  <2>1. Len(s) > 0 => Len(s) \in 1..Len(s)
    BY <1>2
  <2> QED BY <1>2, <2>1
<1>4. N <= Len(s)
  <2>1. N > 0 => N \in 1..N
    OBVIOUS
  <2> QED BY <1>2, <2>1
<1> QED BY <1>1, <1>2, <1>3, <1>4

\* how many writes are pending, and which is the n-th
Count(c) == IF Writes(c) THEN Posted(c) + 1 ELSE Posted(c)

Nth(c, n) ==
    IF Writes(c) THEN IF n = 1 THEN active[c].trans ELSE fifo[c][n - 1] ELSE fifo[c][n]

LEMMA PendingShape ==
    ASSUME Sorts, Queues, NEW c \in CPUs
    PROVE  /\ Posted(c) \in Nat /\ Posted(c) <= Len(fifo[c]) /\ Count(c) \in Nat /\ Count(c) <= 3
           /\ \A n \in 1..Posted(c) : n \in 1..Len(fifo[c]) /\ ~Reads(fifo[c][n])
           /\ \A n \in 1..Len(fifo[c]) : ~Reads(fifo[c][n]) => n \in 1..Posted(c)
           /\ Pending(c) \in Seq(Trans) /\ Len(Pending(c)) = Count(c)
           /\ \A n \in 1..Count(c) : /\ Pending(c)[n] = Nth(c, n)
                                     /\ UnderWay(c, Nth(c, n)) /\ ~Reads(Nth(c, n))
                                     /\ Nth(c, n) \in Trans /\ Nth(c, n).val \in Values
<1>1. Len(fifo[c]) \in Nat /\ Len(fifo[c]) <= 2
  <2>1. MaxPosted = 1 \/ MaxPosted = 2
    BY SnoopSystemAssumption
  <2>2. Len(fifo[c]) \in Nat /\ Len(fifo[c]) <= MaxPosted
    BY WaitsFor DEF Sorts, FifosOK
  <2> QED BY <2>1, <2>2
<1>2. Posted(c) \in Nat /\ Posted(c) <= Len(fifo[c])
  BY <1>1 DEF Posted
<1>3. Count(c) \in Nat /\ Count(c) <= 3
  BY <1>1, <1>2 DEF Count
<1>4. \A n \in 1..Posted(c) : n \in 1..Len(fifo[c]) /\ ~Reads(fifo[c][n])
  BY <1>1, <1>2 DEF Posted, Queues, Ordered
<1>5. \A n \in 1..Len(fifo[c]) : ~Reads(fifo[c][n]) => n \in 1..Posted(c)
  BY <1>1 DEF Posted
<1>6. Pending(c) = [n \in 1..Count(c) |-> Nth(c, n)]
  BY DEF Pending, Count, Nth
<1>7. ASSUME NEW n \in 1..Count(c)
      PROVE  UnderWay(c, Nth(c, n)) /\ ~Reads(Nth(c, n))
  <2>1. CASE Writes(c) /\ n = 1
    BY <2>1 DEF Nth, Writes, UnderWay
  <2>2. CASE Writes(c) /\ n # 1
    <3>1. n - 1 \in 1..Posted(c)
      BY <1>2, <2>2 DEF Count
    <3> QED BY <1>4, <2>2, <3>1 DEF Nth, UnderWay
  <2>3. CASE ~Writes(c)
    BY <1>4, <2>3 DEF Nth, UnderWay, Count
  <2> QED BY <2>1, <2>2, <2>3
<1>8. \A n \in 1..Count(c) : Nth(c, n) \in Trans /\ Nth(c, n).val \in Values
  BY <1>7, UnderWayTypes DEF Proper
<1>9. Pending(c) \in [1..Count(c) -> Trans]
  BY <1>6, <1>8
<1> QED BY <1>2, <1>3, <1>4, <1>5, <1>6, <1>7, <1>8, <1>9, FunctionIsSeq

LEMMA BufferShape ==
    ASSUME Sorts, Queues, NEW c \in CPUs
    PROVE  /\ Buffer(c) \in Seq(Stores) /\ Len(Buffer(c)) = Count(c)
           /\ \A n \in 1..Count(c) : Buffer(c)[n] = <<Nth(c, n).addr, Nth(c, n).val>>
<1>1. /\ DOMAIN Pending(c) = 1..Count(c) /\ Count(c) \in Nat
      /\ \A n \in 1..Count(c) : /\ Pending(c)[n] = Nth(c, n)
                                /\ Nth(c, n) \in Trans /\ Nth(c, n).val \in Values
  BY PendingShape, LenProperties
<1>2. /\ Buffer(c) = [n \in 1..Count(c) |-> <<Pending(c)[n].addr, Pending(c)[n].val>>]
  BY <1>1 DEF Buffer
<1>3. \A n \in 1..Count(c) : <<Pending(c)[n].addr, Pending(c)[n].val>> \in Stores
  BY <1>1, TransFields DEF Stores
<1>4. Buffer(c) \in [1..Count(c) -> Stores]
  BY <1>2, <1>3
<1> QED BY <1>1, <1>2, <1>4, FunctionIsSeq

\* The buffer depends on the writes that are pending.
LEMMA BufferSame ==
    ASSUME Sorts, Queues, Sorts', Queues', NEW c \in CPUs, Count(c)' = Count(c),
           \A n \in 1..Count(c) : Nth(c, n)' = Nth(c, n)
    PROVE  Buffer(c)' = Buffer(c)
<1>1. /\ Buffer(c) \in Seq(Stores) /\ Len(Buffer(c)) = Count(c)
      /\ \A n \in 1..Count(c) : Buffer(c)[n] = <<Nth(c, n).addr, Nth(c, n).val>>
  BY BufferShape
<1>2. (/\ Buffer(c) \in Seq(Stores) /\ Len(Buffer(c)) = Count(c)
       /\ \A n \in 1..Count(c) : Buffer(c)[n] = <<Nth(c, n).addr, Nth(c, n).val>>)'
  BY BufferShape, PTL
<1> QED BY <1>1, <1>2, SeqEqual

LEMMA BufferUntouched ==
    ASSUME NEW c \in CPUs, fifo'[c] = fifo[c], active'[c] = active[c]
    PROVE  Buffer(c)' = Buffer(c)
BY DEF Buffer, Pending, Writes, Posted

\* A store goes to the end of the buffer, a load to none.
LEMMA BufferPost ==
    ASSUME Sorts, Queues, Sorts', Queues', NEW c \in CPUs, NEW t \in Trans, Proper(t),
           Post(c, t), Len(fifo[c]) < MaxPosted, ~Waits(c), active' = active
    PROVE  /\ Reads(t) => Buffer(c)' = Buffer(c)
           /\ ~Reads(t) => /\ Buffer(c)' = Append(Buffer(c), <<t.addr, t.val>>)
                           /\ Len(Buffer(c)) <= 2
<1> DEFINE N == Len(fifo[c])
<1>1. /\ N \in Nat /\ Len(fifo'[c]) = N + 1
      /\ \A n \in 1..N : fifo'[c][n] = fifo[c][n] /\ ~Reads(fifo[c][n])
      /\ fifo'[c][N + 1] = t
  BY PostTypes, WaitsFor
<1>2. N <= 1
  <2>1. MaxPosted = 1 \/ MaxPosted = 2
    BY SnoopSystemAssumption
  <2> QED BY <1>1, <2>1
<1>3. Posted(c) = N
  BY <1>1 DEF Posted
<1>4. Posted(c)' = IF Reads(t) THEN N ELSE N + 1
  BY <1>1 DEF Posted
<1>5. Writes(c)' <=> Writes(c)
  BY DEF Writes
<1>6. \A n \in 1..Count(c) : Nth(c, n)' = Nth(c, n)
  <2> SUFFICES ASSUME NEW n \in 1..Count(c) PROVE Nth(c, n)' = Nth(c, n)
    OBVIOUS
  <2>1. CASE Writes(c)
    <3>1. n = 1 \/ n - 1 \in 1..N
      BY <1>1, <1>3, <2>1 DEF Count
    <3> QED BY <1>1, <1>5, <2>1, <3>1 DEF Nth
  <2>2. CASE ~Writes(c)
    <3>1. n \in 1..N
      BY <1>3, <2>2 DEF Count
    <3> QED BY <1>1, <1>5, <2>2, <3>1 DEF Nth
  <2> QED BY <2>1, <2>2
<1>7. CASE Reads(t)
  <2>1. Count(c)' = Count(c)
    BY <1>3, <1>4, <1>5, <1>7 DEF Count
  <2> QED BY <1>6, <1>7, <2>1, BufferSame
<1>8. CASE ~Reads(t)
  <2>1. Count(c)' = Count(c) + 1 /\ Count(c) \in Nat /\ Count(c) <= 2
    BY <1>1, <1>2, <1>3, <1>4, <1>5, <1>8 DEF Count
  <2>2. ASSUME NEW n \in Nat, n = Count(c) + 1 PROVE Nth(c, n)' = t
    <3>1. CASE Writes(c)
      <4>1. n # 1 /\ n - 1 = N + 1
        BY <1>1, <1>3, <2>2, <3>1 DEF Count
      <4> QED BY <1>1, <1>5, <3>1, <4>1 DEF Nth
    <3>2. CASE ~Writes(c)
      <4>1. n = N + 1
        BY <1>1, <1>3, <2>2, <3>2 DEF Count
      <4> QED BY <1>1, <1>5, <3>2, <4>1 DEF Nth
    <3> QED BY <3>1, <3>2
  <2>3. /\ Buffer(c) \in Seq(Stores) /\ Len(Buffer(c)) = Count(c)
        /\ \A n \in 1..Count(c) : Buffer(c)[n] = <<Nth(c, n).addr, Nth(c, n).val>>
    BY BufferShape
  <2>4. (/\ Buffer(c) \in Seq(Stores) /\ Len(Buffer(c)) = Count(c)
         /\ \A n \in 1..Count(c) : Buffer(c)[n] = <<Nth(c, n).addr, Nth(c, n).val>>)'
    BY BufferShape, PTL
  <2> DEFINE new == Append(Buffer(c), <<t.addr, t.val>>)
             b2  == Buffer(c)'
  <2>5. <<t.addr, t.val>> \in Stores
    BY <1>8, TransFields DEF Proper, Stores
  <2>6. /\ new \in Seq(Stores) /\ Len(new) = Count(c) + 1
        /\ \A n \in 1..Count(c) : new[n] = Buffer(c)[n]
        /\ new[Count(c) + 1] = <<t.addr, t.val>>
    BY <2>3, <2>5, AppendProperties
  <2>7. b2 \in Seq(Stores) /\ Len(b2) = Count(c) + 1
    BY <2>1, <2>4
  <2>8. ASSUME NEW n \in 1..(Count(c) + 1) PROVE b2[n] = new[n]
    <3>1. b2[n] = <<Nth(c, n)'.addr, Nth(c, n)'.val>>
      BY <2>1, <2>4
    <3> HIDE DEF new, b2
    <3>2. CASE n \in 1..Count(c)
      BY <1>6, <2>3, <2>6, <3>1, <3>2
    <3>3. CASE n = Count(c) + 1
      <4>1. n \in Nat
        BY <2>1, <3>3
      <4>2. Nth(c, n)' = t
        BY <2>2, <3>3, <4>1
      <4> QED BY <2>6, <3>1, <3>3, <4>2
    <3> QED BY <2>1, <3>2, <3>3
  <2> HIDE DEF new, b2
  <2>9. b2 = new
    BY <2>6, <2>7, <2>8, SeqEqual
  <2> QED BY <1>8, <2>1, <2>3, <2>9 DEF new, b2
<1> QED BY <1>7, <1>8

\* mem_access takes a transaction out of the fifo: a write stays where it is.
LEMMA BufferServe ==
    ASSUME Sorts, Queues, Sorts', Queues', NEW c \in CPUs, Serve(c)
    PROVE  \A d \in CPUs : Buffer(d)' = Buffer(d)
<1> DEFINE N == Len(fifo[c])
<1>1. /\ N \in Nat \ {0} /\ Len(fifo'[c]) = N - 1
      /\ \A n \in 1..Len(fifo'[c]) : fifo'[c][n] = fifo[c][n + 1]
      /\ \A d \in CPUs \ {c} : fifo'[d] = fifo[d] /\ active'[d] = active[d]
      /\ active'[c] # NoTrans /\ active'[c].trans = fifo[c][1]
      /\ active[c] = NoTrans
  BY ServeTypes DEF Serve
<1>2. ~Writes(c)
  BY <1>1 DEF Writes
<1>3. CASE Reads(fifo[c][1])
  <2>1. N = 1
    <3>1. 1 \in 1..N
      BY <1>1
    <3> QED BY <1>3, <3>1 DEF Queues, Ordered
  <2>2. Count(c) = 0
    BY <1>2, <1>3, <2>1 DEF Count, Posted
  <2>3. ~Writes(c)' /\ Posted(c)' = 0
    BY <1>1, <1>3, <2>1 DEF Writes, Posted
  <2>4. Count(c)' = 0
    BY <2>3 DEF Count
  <2>5. Buffer(c)' = Buffer(c)
    BY <2>2, <2>4, BufferSame
  <2> QED BY <1>1, <2>5, BufferUntouched
<1>4. CASE ~Reads(fifo[c][1])
  <2>1. Writes(c)'
    BY <1>1, <1>4 DEF Writes
  <2>2. Posted(c)' = Posted(c) - 1 /\ Posted(c) \in Nat \ {0}
    <3>1. CASE N = 1
      BY <1>1, <1>4, <3>1 DEF Posted
    <3>2. CASE N # 1
      <4> HIDE DEF N
      <4>1. N - 1 \in 1..Len(fifo'[c]) /\ N - 1 + 1 = N /\ N - 1 > 0 /\ N > 0
        BY <1>1, <3>2
      <4> USE DEF N
      <4>2. fifo'[c][Len(fifo'[c])] = fifo[c][N]
        BY <1>1, <4>1
      <4> QED BY <1>1, <4>1, <4>2 DEF Posted
    <3> QED BY <3>1, <3>2
  <2>3. Count(c) = Posted(c) /\ Count(c)' = Count(c)
    BY <1>2, <2>1, <2>2 DEF Count
  <2>4. \A n \in 1..Count(c) : n - 1 \in 1..Len(fifo'[c]) \/ n = 1
    <3>1. Posted(c) <= N
      BY PendingShape
    <3> QED BY <1>1, <2>2, <2>3, <3>1
  <2>5. ASSUME NEW n \in 1..Count(c) PROVE Nth(c, n)' = Nth(c, n)
    <3>1. Nth(c, n) = fifo[c][n]
      BY <1>2 DEF Nth
    <3>2. Nth(c, n)' = IF n = 1 THEN active'[c].trans ELSE fifo'[c][n - 1]
      BY <2>1 DEF Nth
    <3>3. n # 1 => fifo'[c][n - 1] = fifo[c][n]
      BY <1>1, <2>2, <2>3, <2>4
    <3> QED BY <1>1, <3>1, <3>2, <3>3
  <2>6. Buffer(c)' = Buffer(c)
    BY <2>3, <2>5, BufferSame
  <2> QED BY <1>1, <2>6, BufferUntouched
<1> QED BY <1>3, <1>4

LEMMA BufferBegin ==
    ASSUME Sorts, Queues, Sorts', Queues', NEW c \in CPUs, Begin(c)
    PROVE  \A d \in CPUs : Buffer(d)' = Buffer(d)
<1>1. /\ fifo' = fifo
      /\ active[c] # NoTrans /\ active'[c] # NoTrans /\ active'[c].trans = active[c].trans
      /\ \A d \in CPUs \ {c} : active'[d] = active[d]
  BY BeginTypes DEF Begin, BeginWith
<1>2. (Writes(c)' <=> Writes(c)) /\ Posted(c)' = Posted(c)
  BY <1>1 DEF Writes, Posted
<1>3. Count(c)' = Count(c)
  BY <1>2 DEF Count
<1>4. \A n \in 1..Count(c) : Nth(c, n)' = Nth(c, n)
  BY <1>1, <1>2 DEF Nth
<1>5. Buffer(c)' = Buffer(c)
  BY <1>3, <1>4, BufferSame
<1> QED BY <1>1, <1>5, BufferUntouched

\* A write that has ended leaves the buffer, of which it was the oldest.
LEMMA BufferFinish ==
    ASSUME Sorts, Queues, Sorts', Queues', NEW c \in CPUs, Finish(c)
    PROVE  /\ \A d \in CPUs \ {c} : Buffer(d)' = Buffer(d)
           /\ Reads(active[c].trans) => Buffer(c)' = Buffer(c)
           /\ ~Reads(active[c].trans) =>
                  /\ Buffer(c)' = Tail(Buffer(c)) /\ Buffer(c) # <<>>
                  /\ Buffer(c)[1] = <<active[c].trans.addr, active[c].trans.val>>
<1>1. /\ fifo' = fifo /\ active[c] # NoTrans
      /\ \A d \in CPUs \ {c} : active'[d] = active[d]
      /\ Reads(active[c].trans) =>
            active'[c] # NoTrans /\ active'[c].trans = active[c].trans
      /\ ~Reads(active[c].trans) => active'[c] = NoTrans
  BY FinishTypes DEF Finish
<1>2. \A d \in CPUs \ {c} : Buffer(d)' = Buffer(d)
  BY <1>1, BufferUntouched
<1>3. Posted(c)' = Posted(c)
  BY <1>1 DEF Posted
<1>4. CASE Reads(active[c].trans)
  <2>1. ~Writes(c) /\ ~Writes(c)'
    BY <1>1, <1>4 DEF Writes
  <2>2. Count(c)' = Count(c)
    BY <1>3, <2>1 DEF Count
  <2>3. \A n \in 1..Count(c) : Nth(c, n)' = Nth(c, n)
    BY <1>1, <2>1 DEF Nth
  <2> QED BY <1>2, <1>4, <2>2, <2>3, BufferSame
<1>5. CASE ~Reads(active[c].trans)
  <2>1. Writes(c) /\ ~Writes(c)'
    BY <1>1, <1>5 DEF Writes
  <2>2. Posted(c) \in Nat
    BY PendingShape
  <2>3. Count(c) = Posted(c) + 1 /\ Count(c)' = Posted(c)
    BY <1>3, <2>1 DEF Count
  <2>4. /\ Buffer(c) \in Seq(Stores) /\ Len(Buffer(c)) = Posted(c) + 1
        /\ \A n \in 1..(Posted(c) + 1) : Buffer(c)[n] = <<Nth(c, n).addr, Nth(c, n).val>>
    BY <2>3, BufferShape
  <2>5. (/\ Buffer(c) \in Seq(Stores) /\ Len(Buffer(c)) = Count(c)
         /\ \A n \in 1..Count(c) : Buffer(c)[n] = <<Nth(c, n).addr, Nth(c, n).val>>)'
    BY BufferShape, PTL
  <2> DEFINE b  == Buffer(c)
             b2 == Buffer(c)'
             P  == Posted(c)
  <2>6. b # <<>>
    BY <2>2, <2>4, EmptySeq
  <2>7. /\ Tail(b) \in Seq(Stores) /\ Len(Tail(b)) = P
        /\ \A n \in 1..P : Tail(b)[n] = b[n + 1]
    <3> HIDE DEF b
    <3>1. b \in Seq(Stores) /\ Len(b) = P + 1
      BY <2>4 DEF b
    <3> QED BY <2>2, <2>6, <3>1, HeadTailProperties
  <2>8. b2 \in Seq(Stores) /\ Len(b2) = P
    BY <2>3, <2>5
  <2>9. ASSUME NEW n \in 1..P PROVE b2[n] = Tail(b)[n]
    <3>1. n + 1 \in 1..(P + 1) /\ n + 1 # 1 /\ n + 1 - 1 = n
      BY <2>2
    <3>2. Nth(c, n + 1) = fifo[c][n]
      BY <2>1, <3>1 DEF Nth
    <3>3. Nth(c, n)' = fifo[c][n]
      BY <1>1, <2>1 DEF Nth
    <3>4. b2[n] = <<Nth(c, n)'.addr, Nth(c, n)'.val>>
      BY <2>3, <2>5
    <3>5. b[n + 1] = <<Nth(c, n + 1).addr, Nth(c, n + 1).val>>
      BY <2>4, <3>1
    <3> HIDE DEF b, b2
    <3> QED BY <2>7, <3>2, <3>3, <3>4, <3>5
  <2>10. Buffer(c)[1] = <<active[c].trans.addr, active[c].trans.val>>
    <3>1. 1 \in 1..(Posted(c) + 1) /\ Nth(c, 1) = active[c].trans
      BY <2>1, <2>2 DEF Nth
    <3> QED BY <2>4, <3>1
  <2> HIDE DEF b, b2
  <2>11. b2 = Tail(b)
    BY <2>7, <2>8, <2>9, SeqEqual
  <2> QED BY <1>2, <1>5, <2>6, <2>10, <2>11 DEF b, b2
<1> QED BY <1>2, <1>4, <1>5

\* A processor that waits for a load has no store under way.
LEMMA BufferComplete ==
    ASSUME Repl = 2 => ~SetLock, Sorts, Queues, Sorts', Queues', NEW c \in CPUs, Complete(c)
    PROVE  /\ \A d \in CPUs : Buffer(d)' = Buffer(d)
           /\ Len(Buffer(c)) = 0 /\ Reads(active[c].trans) /\ Len(fifo[c]) = 0
<1>1. /\ fifo' = fifo /\ active[c] # NoTrans /\ active[c].phase = "answered"
      /\ \A d \in CPUs \ {c} : active'[d] = active[d]
      /\ active'[c] = NoTrans
  BY CompleteTypes DEF Complete
<1>2. Reads(active[c].trans) /\ Len(fifo[c]) = 0
  BY <1>1 DEF Queues, Ordered
<1>3. ~Writes(c) /\ ~Writes(c)' /\ Posted(c) = 0 /\ Posted(c)' = 0
  BY <1>1, <1>2 DEF Writes, Posted
<1>4. Count(c) = 0 /\ Count(c)' = 0
  BY <1>3 DEF Count
<1>5. Buffer(c)' = Buffer(c)
  BY <1>4, BufferSame
<1>6. Len(Buffer(c)) = 0
  BY <1>4, BufferShape
<1> QED BY <1>1, <1>2, <1>5, <1>6, BufferUntouched

-----------------------------------------------------------------------------
(* The memory as of the transfers that have ended                          *)

\* the write of c holds the bus
OnBus(c) == active[c] # NoTrans /\ active[c].phase = "bus" /\ ~Reads(active[c].trans)

\* a write that holds the bus has put its value into the memory
Taken(c) == OnBus(c) => MemAt(active[c].trans.addr) = active[c].trans.val

\* Only one processor can have a write on the bus.
LEMMA OneWriter ==
    ASSUME OneTransfer, NEW c \in CPUs, OnBus(c)
    PROVE  \A d \in CPUs : OnBus(d) => d = c
BY DEF OneTransfer, OnBus

\* No write holds the bus: the memory is what it holds.
LEMMA EndedIdle ==
    ASSUME \A d \in CPUs : ~OnBus(d)
    PROVE  \A a \in Addresses : Ended[a] = MemAt(a)
<1>1. \A a : Writing(a) = {}
  BY DEF Writing, OnBus
<1> QED BY <1>1 DEF Ended, MemAt

\* One does: its word is what it was.
LEMMA EndedBusy ==
    ASSUME OneTransfer, NEW c \in CPUs, OnBus(c)
    PROVE  \A a \in Addresses :
               Ended[a] = IF a = active[c].trans.addr THEN active[c].old ELSE MemAt(a)
<1> SUFFICES ASSUME NEW a \in Addresses
             PROVE  Ended[a] = IF a = active[c].trans.addr THEN active[c].old ELSE MemAt(a)
  OBVIOUS
<1>1. \A d \in CPUs : d \in Writing(a) <=> OnBus(d) /\ active[d].trans.addr = a
  BY DEF Writing, OnBus
<1>2. \A d : d \in Writing(a) => d \in CPUs
  BY DEF Writing
<1>3. Ended[a] = IF Writing(a) = {} THEN MemAt(a)
                 ELSE active[CHOOSE d \in Writing(a) : TRUE].old
  BY DEF Ended, MemAt
<1>4. CASE a = active[c].trans.addr
  <2>1. Writing(a) = {c}
    BY <1>1, <1>2, <1>4, OneWriter
  <2>2. (CHOOSE d \in {c} : TRUE) = c
    OBVIOUS
  <2> QED BY <1>3, <1>4, <2>1, <2>2
<1>5. CASE a # active[c].trans.addr
  <2>1. Writing(a) = {}
    BY <1>1, <1>2, <1>5, OneWriter
  <2> QED BY <1>3, <1>5, <2>1
<1> QED BY <1>4, <1>5

\* Both, as a formula about one state.
EndedIs ==
    /\ (\A d \in CPUs : ~OnBus(d)) => \A a \in Addresses : Ended[a] = MemAt(a)
    /\ \A d \in CPUs : OnBus(d) => \A a \in Addresses :
          Ended[a] = IF a = active[d].trans.addr THEN active[d].old ELSE MemAt(a)

LEMMA EndedShape ==
    /\ OneTransfer => EndedIs
    /\ OneTransfer' => EndedIs'
<1>1. OneTransfer => EndedIs
  BY EndedIdle, EndedBusy DEF EndedIs
<1> QED BY <1>1, PTL

LEMMA EndedType ==
    ASSUME Sorts, OneTransfer
    PROVE  Ended \in [Addresses -> Values]
<1>1. ASSUME NEW a \in Addresses PROVE Ended[a] \in Values
  <2>1. MemAt(a) \in Values
    BY MemLineType DEF MemAt
  <2>2. CASE \A d \in CPUs : ~OnBus(d)
    BY <2>1, <2>2, EndedIdle
  <2>3. ASSUME NEW c \in CPUs, OnBus(c) PROVE Ended[a] \in Values
    <3>1. active[c].old \in Values
      BY <2>3 DEF OnBus, Sorts, ActiveOK, Answered
    <3> QED BY <2>1, <2>3, <3>1, EndedBusy
  <2> QED BY <2>2, <2>3
<1>2. Ended = [a \in Addresses |-> Ended[a]]
  BY DEF Ended
<1> HIDE DEF Ended
<1> QED BY <1>1, <1>2

\* Two memories with the same words are the same.
LEMMA EndedEqual ==
    ASSUME \A a \in Addresses : Ended'[a] = Ended[a]
    PROVE  Ended' = Ended
<1>1. /\ Ended = [a \in Addresses |-> Ended[a]]
      /\ Ended' = [a \in Addresses |-> Ended'[a]]
  BY DEF Ended
<1> DEFINE e1 == Ended
           e2 == Ended'
<1>2. /\ e1 = [a \in Addresses |-> e1[a]] /\ e2 = [a \in Addresses |-> e2[a]]
      /\ \A a \in Addresses : e2[a] = e1[a]
  BY <1>1
<1> HIDE DEF e1, e2
<1>3. e1 = e2
  BY <1>2
<1> QED BY <1>3 DEF e1, e2

\* What neither a transfer that writes nor the memory sees.
LEMMA EndedSame ==
    ASSUME mem' = mem, OneTransfer, OneTransfer',
           \A d \in CPUs : OnBus(d)' <=> OnBus(d),
           \A d \in CPUs : OnBus(d) => active'[d] = active[d]
    PROVE  Ended' = Ended
<1>1. \A a \in Addresses : MemAt(a)' = MemAt(a)
  BY DEF MemAt, MemLine
<1>2. EndedIs'
  BY EndedShape
<1>3. CASE \A d \in CPUs : ~OnBus(d)
  BY <1>1, <1>2, <1>3, EndedIdle, EndedEqual DEF EndedIs
<1>4. ASSUME NEW c \in CPUs, OnBus(c) PROVE Ended' = Ended
  <2>1. \A a \in Addresses :
            Ended[a] = IF a = active[c].trans.addr THEN active[c].old ELSE MemAt(a)
    BY <1>4, EndedBusy
  <2>2. OnBus(c)' /\ active'[c] = active[c]
    BY <1>4
  <2> QED BY <1>1, <1>2, <2>1, <2>2, EndedEqual DEF EndedIs
<1> QED BY <1>3, <1>4

\* What Begin does to the word it writes, and to the others.
LEMMA BeginMemory ==
    ASSUME Sorts, NEW c \in CPUs, Begin(c), NEW a \in Addresses
    PROVE  MemAt(a)' = IF ~Reads(active[c].trans) /\ a = active[c].trans.addr
                       THEN active[c].trans.val ELSE MemAt(a)
<1> DEFINE addr == active[c].trans.addr
           val  == active[c].trans.val
           line == [mem[addr[1]][addr[2]] EXCEPT ![addr[3]] = val]
<1>1. /\ addr[1] \in Tags /\ addr[2] \in Indices /\ addr[3] \in Words
      /\ addr = <<addr[1], addr[2], addr[3]>>
  BY BeginTypes, AddressFacts
<1>2. a[1] \in Tags /\ a[2] \in Indices /\ a[3] \in Words /\ a = <<a[1], a[2], a[3]>>
  BY AddressFacts
<1>3. mem' = IF Reads(active[c].trans) THEN mem
             ELSE [mem EXCEPT ![addr[1]] = [mem[addr[1]] EXCEPT ![addr[2]] = line]]
  BY DEF Begin, BeginWith
<1>4. mem \in [Tags -> [Indices -> Contents]]
  BY DEF Sorts, BusOK
<1>5. a = addr <=> a[1] = addr[1] /\ a[2] = addr[2] /\ a[3] = addr[3]
  BY <1>1, <1>2
<1>6. MemAt(a) = mem[a[1]][a[2]][a[3]] /\ MemAt(a)' = mem'[a[1]][a[2]][a[3]]
  BY DEF MemAt, MemLine
<1> HIDE DEF addr, val
<1>7. CASE Reads(active[c].trans)
  BY <1>3, <1>6, <1>7
<1>8. CASE ~Reads(active[c].trans)
  <2>1. mem'[a[1]][a[2]] =
            IF a[1] = addr[1] /\ a[2] = addr[2] THEN line ELSE mem[a[1]][a[2]]
    <3> HIDE DEF line
    <3> QED BY <1>1, <1>2, <1>3, <1>4, <1>8
  <2>2. line \in [Words -> Values \cup {val}]
        /\ line[a[3]] = IF a[3] = addr[3] THEN val ELSE mem[addr[1]][addr[2]][a[3]]
    BY <1>1, <1>2, <1>4 DEF Contents
  <2> HIDE DEF line
  <2>3. MemAt(a)' = IF a = addr THEN val ELSE MemAt(a)
    BY <1>5, <1>6, <2>1, <2>2
  <2> QED BY <1>8, <2>3 DEF addr, val
<1> QED BY <1>7, <1>8

\* A transfer that begins changes nothing for the others yet.
LEMMA EndedBegin ==
    ASSUME Sorts, OneTransfer, OneTransfer', NEW c \in CPUs, Begin(c)
    PROVE  /\ Ended' = Ended
           /\ \A d \in CPUs : ~OnBus(d)
           /\ \A a \in Addresses : Ended[a] = MemAt(a)
<1>1. \A d \in CPUs : ~OnBus(d)
  <2>1. ~busy
    BY DEF Begin, BeginWith, Free
  <2> QED BY <2>1 DEF OneTransfer, OnBus
<1>2. \A a \in Addresses : Ended[a] = MemAt(a)
  BY <1>1, EndedIdle
<1>3. EndedIs'
  BY EndedShape
<1>4. /\ active'[c] # NoTrans /\ active'[c].phase = "bus"
      /\ active'[c].trans = active[c].trans
      /\ \A d \in CPUs \ {c} : active'[d] = active[d]
      /\ active[c] \in Active /\ Proper(active[c].trans)
      /\ active'[c] = Transferring(active[c])
  BY BeginTypes
<1>5. ~Reads(active[c].trans) => active'[c].old = MemAt(active[c].trans.addr)
  BY <1>4, TransferringFacts DEF MemAt
<1>6. CASE Reads(active[c].trans)
  <2>1. \A d \in CPUs : ~OnBus(d)'
    BY <1>1, <1>4, <1>6 DEF OnBus
  <2>2. \A a \in Addresses : Ended'[a] = Ended[a]
    BY <1>2, <1>3, <1>6, <2>1, BeginMemory DEF EndedIs
  <2> QED BY <1>1, <1>2, <2>2, EndedEqual
<1>7. CASE ~Reads(active[c].trans)
  <2>1. OnBus(c)'
    BY <1>4, <1>7 DEF OnBus
  <2>2. \A a \in Addresses : Ended'[a] = Ended[a]
    BY <1>2, <1>3, <1>4, <1>5, <1>7, <2>1, BeginMemory DEF EndedIs
  <2> QED BY <1>1, <1>2, <2>2, EndedEqual
<1> QED BY <1>6, <1>7

\* A transfer that ends: what it wrote is there for all.
LEMMA EndedFinish ==
    ASSUME Sorts, OneTransfer, OneTransfer', NEW c \in CPUs, Finish(c), Taken(c)
    PROVE  /\ Reads(active[c].trans) => Ended' = Ended
           /\ ~Reads(active[c].trans) =>
                 /\ OnBus(c)
                 /\ \A a \in Addresses :
                        Ended'[a] = IF a = active[c].trans.addr THEN active[c].trans.val
                                    ELSE Ended[a]
<1>1. /\ active[c] # NoTrans /\ active[c].phase = "bus" /\ mem' = mem
      /\ \A d \in CPUs \ {c} : active'[d] = active[d]
      /\ Reads(active[c].trans) => active'[c].phase = "answered"
      /\ ~Reads(active[c].trans) => active'[c] = NoTrans
  BY FinishTypes DEF Finish
<1>2. EndedIs'
  BY EndedShape
<1>3. \A a \in Addresses : MemAt(a)' = MemAt(a)
  BY <1>1 DEF MemAt, MemLine
<1>4. CASE Reads(active[c].trans)
  <2>1. \A d \in CPUs : ~OnBus(d)
    BY <1>1, <1>4 DEF OneTransfer, OnBus
  <2>2. \A d \in CPUs : ~OnBus(d)'
    BY <1>1, <1>4, <2>1 DEF OnBus
  <2> QED BY <1>4, <2>1, <2>2, <1>1, EndedSame
<1>5. CASE ~Reads(active[c].trans)
  <2>1. OnBus(c)
    BY <1>1, <1>5 DEF OnBus
  <2>2. \A d \in CPUs : ~OnBus(d)'
    BY <1>1, <1>5, <2>1, OneWriter DEF OnBus
  <2>3. \A a \in Addresses : Ended'[a] = MemAt(a)
    BY <1>2, <1>3, <2>2 DEF EndedIs
  <2>4. \A a \in Addresses :
            Ended[a] = IF a = active[c].trans.addr THEN active[c].old ELSE MemAt(a)
    BY <2>1, EndedBusy
  <2>5. MemAt(active[c].trans.addr) = active[c].trans.val
    BY <2>1 DEF Taken
  <2> HIDE DEF OnBus, Taken
  <2> QED BY <1>5, <2>1, <2>3, <2>4, <2>5
<1> QED BY <1>4, <1>5

\* Processors, Serve and Complete leave it alone.
LEMMA EndedElsewhere ==
    ASSUME Repl = 2 => ~SetLock, Sorts, OneTransfer, OneTransfer', NEW c \in CPUs,
           Processor(c) \/ Serve(c) \/ Complete(c)
    PROVE  Ended' = Ended
<1>1. CASE Processor(c)
  <2>1. active' = active /\ mem' = mem
    BY <1>1, ProcessorSteps
  <2> QED BY <2>1, EndedSame DEF OnBus
<1>2. CASE Serve(c)
  <2>1. /\ active[c] = NoTrans /\ active'[c].phase = "wait" /\ mem' = mem
        /\ \A d \in CPUs \ {c} : active'[d] = active[d]
    BY <1>2, ServeTypes DEF Serve
  <2>2. ~OnBus(c) /\ ~OnBus(c)'
    BY <2>1 DEF OnBus
  <2>3. \A d \in CPUs : OnBus(d)' <=> OnBus(d)
    BY <2>1, <2>2 DEF OnBus
  <2> QED BY <2>1, <2>2, <2>3, EndedSame
<1>3. CASE Complete(c)
  <2>1. /\ active[c].phase = "answered" /\ active'[c] = NoTrans /\ mem' = mem
        /\ \A d \in CPUs \ {c} : active'[d] = active[d]
    BY <1>3, CompleteTypes DEF Complete
  <2>2. ~OnBus(c) /\ ~OnBus(c)'
    BY <2>1 DEF OnBus
  <2>3. \A d \in CPUs : OnBus(d)' <=> OnBus(d)
    BY <2>1, <2>2 DEF OnBus
  <2> QED BY <2>1, <2>2, <2>3, EndedSame
<1> QED BY <1>1, <1>2, <1>3

-----------------------------------------------------------------------------
(* Transfers                                                               *)

\* the answer to a read is the line as of the transfers that have ended
Current(c) ==
    active[c] # NoTrans /\ active[c].phase # "wait" /\ Reads(active[c].trans) =>
        \A w \in Words :
            active[c].data[w] = Ended[<<active[c].trans.addr[1], active[c].trans.addr[2], w>>]

Transfers == \A c \in CPUs : Taken(c) /\ Current(c)

\* A write cannot end between the answer and the processor that waits for it: the bus
\* is not free before the read has ended, and a transfer takes a clock.
LEMMA TransfersKept ==
    ASSUME Repl = 2 => ~SetLock, Sorts, OneTransfer, OneTransfer', Transfers, [Next]_vars
    PROVE  Transfers'
<1>1. ASSUME NEW c \in CPUs, Processor(c) PROVE Transfers'
  <2>1. active' = active /\ mem' = mem
    BY <1>1, ProcessorSteps
  <2>2. Ended' = Ended
    BY <1>1, EndedElsewhere
  <2> QED BY <2>1, <2>2 DEF Transfers, Taken, Current, OnBus, MemAt, MemLine
<1>2. ASSUME NEW c \in CPUs, Serve(c) PROVE Transfers'
  <2>1. /\ active'[c].phase = "wait" /\ mem' = mem
        /\ \A d \in CPUs \ {c} : active'[d] = active[d]
    BY <1>2, ServeTypes DEF Serve
  <2>2. Ended' = Ended
    BY <1>2, EndedElsewhere
  <2>3. Taken(c)' /\ Current(c)'
    BY <2>1 DEF Taken, Current, OnBus
  <2>4. \A d \in CPUs \ {c} : Taken(d)' /\ Current(d)'
    BY <2>1, <2>2 DEF Transfers, Taken, Current, OnBus, MemAt, MemLine
  <2> QED BY <2>3, <2>4 DEF Transfers
<1>3. ASSUME NEW c \in CPUs, Complete(c) PROVE Transfers'
  <2>1. /\ active'[c] = NoTrans /\ mem' = mem
        /\ \A d \in CPUs \ {c} : active'[d] = active[d]
    BY <1>3, CompleteTypes DEF Complete
  <2>2. Ended' = Ended
    BY <1>3, EndedElsewhere
  <2>3. Taken(c)' /\ Current(c)'
    BY <2>1 DEF Taken, Current, OnBus
  <2>4. \A d \in CPUs \ {c} : Taken(d)' /\ Current(d)'
    BY <2>1, <2>2 DEF Transfers, Taken, Current, OnBus, MemAt, MemLine
  <2> QED BY <2>3, <2>4 DEF Transfers
<1>4. ASSUME NEW c \in CPUs, Begin(c) PROVE Transfers'
  <2>1. /\ Ended' = Ended
        /\ \A d \in CPUs : ~OnBus(d)
        /\ \A a \in Addresses : Ended[a] = MemAt(a)
    BY <1>4, EndedBegin
  <2>2. /\ active[c] \in Active /\ Proper(active[c].trans)
        /\ active'[c] = Transferring(active[c]) /\ active'[c].trans = active[c].trans
        /\ active[c].trans.addr \in Addresses
        /\ \A d \in CPUs \ {c} : active'[d] = active[d]
    BY <1>4, BeginTypes
  <2>3. Taken(c)'
    <3>1. \A a \in Addresses :
              MemAt(a)' = IF ~Reads(active[c].trans) /\ a = active[c].trans.addr
                          THEN active[c].trans.val ELSE MemAt(a)
      BY <1>4, BeginMemory
    <3>2. \A a : a = active'[c].trans.addr => MemAt(a)' = MemAt(active[c].trans.addr)'
      BY <2>2 DEF MemAt, MemLine
    <3> QED BY <2>2, <3>1, <3>2 DEF Taken, OnBus
  <2>4. Current(c)'
    <3> DEFINE addr == active[c].trans.addr
    <3> SUFFICES ASSUME Reads(active[c].trans), NEW w \in Words
                 PROVE  active'[c].data[w] = Ended[<<addr[1], addr[2], w>>]
      BY <2>1, <2>2 DEF Current
    <3>1. active'[c].data = MemLine(addr)
      BY <2>2, TransferringFacts
    <3>2. addr[1] \in Tags /\ addr[2] \in Indices
      BY <2>2, AddressFacts
    <3>3. <<addr[1], addr[2], w>> \in Addresses
      BY <3>2 DEF Addresses
    <3>4. MemAt(<<addr[1], addr[2], w>>) = MemLine(addr)[w]
      BY DEF MemAt, MemLine
    <3> QED BY <2>1, <3>1, <3>3, <3>4
  <2>5. \A d \in CPUs \ {c} : Taken(d)' /\ Current(d)'
    <3>1. \A d \in CPUs \ {c} : Current(d)'
      BY <2>1, <2>2 DEF Transfers, Current
    <3>2. \A d \in CPUs \ {c} : ~OnBus(d)'
      BY <2>1, <2>2 DEF OnBus
    <3> QED BY <3>1, <3>2 DEF Taken
  <2> QED BY <2>3, <2>4, <2>5 DEF Transfers
<1>5. ASSUME NEW c \in CPUs, Finish(c) PROVE Transfers'
  <2>1. /\ active[c] # NoTrans /\ active[c].phase = "bus" /\ mem' = mem
        /\ \A d \in CPUs : active[d] # NoTrans => active[d].phase # "answered"
        /\ \A d \in CPUs \ {c} : active'[d] = active[d]
        /\ Reads(active[c].trans) =>
              /\ active'[c] # NoTrans /\ active'[c].phase = "answered"
              /\ active'[c].trans = active[c].trans /\ active'[c].data = active[c].data
        /\ ~Reads(active[c].trans) => active'[c] = NoTrans
    BY <1>5, FinishTypes DEF Finish
  <2>2. \A d \in CPUs \ {c} : active[d] # NoTrans => active[d].phase = "wait"
    <3>1. \A d \in CPUs \ {c} : active[d] # NoTrans => active[d].phase # "bus"
      BY <2>1 DEF OneTransfer
    <3>2. \A d \in CPUs : active[d] # NoTrans => active[d].phase \in {"wait", "bus", "answered"}
      BY ActiveFields DEF Sorts, ActiveOK
    <3> QED BY <2>1, <3>1, <3>2
  <2>3. \A d \in CPUs \ {c} : Taken(d)' /\ Current(d)'
    BY <2>1, <2>2 DEF Taken, Current, OnBus
  <2>4. Taken(c)'
    BY <2>1 DEF Taken, OnBus
  <2>5. Current(c)'
    <3>1. CASE Reads(active[c].trans)
      <4>1. Ended' = Ended
        BY <1>5, <3>1, EndedFinish DEF Transfers
      <4> QED BY <2>1, <3>1, <4>1 DEF Transfers, Current
    <3>2. CASE ~Reads(active[c].trans)
      BY <2>1, <3>2 DEF Current
    <3> QED BY <3>1, <3>2
  <2> QED BY <2>3, <2>4, <2>5 DEF Transfers
<1>6. CASE UNCHANGED vars
  <2>1. active' = active /\ mem' = mem
    BY <1>6 DEF vars
  <2>2. Ended' = Ended
    BY <2>1, EndedSame DEF OnBus
  <2> QED BY <2>1, <2>2 DEF Transfers, Taken, Current, OnBus, MemAt, MemLine
<1> QED BY <1>1, <1>2, <1>3, <1>4, <1>5, <1>6 DEF Next, Bus

-----------------------------------------------------------------------------
(* What an instruction does to the caches                                  *)

\* A load that hits.
HitStep(c, addr) ==
    /\ Hit(c, addr)
    /\ seen' = [seen EXCEPT ![c] =
            <<addr, Value(cache[c][addr[2]][Locate(c, addr)], addr)>>]

\* A load that misses, or an instruction fetch.
ReadStep(c, t) ==
    /\ t \in Trans /\ Proper(t) /\ Reads(t) /\ Post(c, t)
    /\ t.load => t.found = Locate(c, t.addr)
    /\ cache' = cache /\ seen' = seen

\* A store.
StoreStep(c, addr, val) ==
    \E swapped \in Values \cup {NoVal} : StoreData(c, addr, val, swapped)

LEMMA InstructionSteps ==
    ASSUME Sorts, NEW c \in CPUs, Processor(c)
    PROVE  /\ Len(fifo[c]) < MaxPosted
           /\ \/ \E addr \in Addresses : HitStep(c, addr)
              \/ \E t \in Trans : ReadStep(c, t)
              \/ \E addr \in Addresses, val \in Values : StoreStep(c, addr, val)
<1> DEFINE Goal ==
           /\ Len(fifo[c]) < MaxPosted
           /\ \/ \E addr \in Addresses : HitStep(c, addr)
              \/ \E t \in Trans : ReadStep(c, t)
              \/ \E addr \in Addresses, val \in Values : StoreStep(c, addr, val)
<1>1. ASSUME NEW addr \in Addresses, NEW lock \in BOOLEAN, NEW forced,
             Miss(c, addr, lock, forced), seen' = seen
      PROVE  \E t \in Trans : ReadStep(c, t)
  <2> DEFINE t == ReadTrans(addr, lock, TRUE, Locate(c, addr))
  <2>1. t \in Trans /\ Proper(t) /\ Reads(t) /\ t.addr = addr /\ t.found = Locate(c, addr)
    <3>1. Locate(c, addr) \in WayNrs \cup {NoWay} /\ TRUE \in BOOLEAN
      BY LocateFacts
    <3>2. t \in Trans /\ Proper(t)
      BY <3>1, ReadTransType
    <3>3. Reads(t) /\ t.addr = addr /\ t.found = Locate(c, addr)
      BY DEF ReadTrans, Reads
    <3> QED BY <3>2, <3>3
  <2>2. Post(c, t) /\ cache' = cache
    BY <1>1 DEF Miss
  <2> HIDE DEF t
  <2> QED BY <1>1, <2>1, <2>2 DEF ReadStep
<1>2. ASSUME NEW addr \in Addresses, Load(c, addr) PROVE Goal
  <2>1. Len(fifo[c]) < MaxPosted
    BY <1>2 DEF Load, Runs
  <2>2. CASE Hit(c, addr) /\ Return(c, addr, Value(cache[c][addr[2]][Locate(c, addr)], addr))
    BY <2>1, <2>2 DEF HitStep, Return
  <2>3. CASE Miss(c, addr, FALSE, FALSE) /\ UNCHANGED <<rmw, seen>>
    <3>1. FALSE \in BOOLEAN
      OBVIOUS
    <3> QED BY <1>1, <2>1, <2>3, <3>1
  <2> QED BY <1>2, <2>2, <2>3 DEF Load
<1>3. ASSUME NEW addr \in Addresses, Fetch(c, addr) PROVE Goal
  <2> DEFINE t == ReadTrans(addr, FALSE, FALSE, NoWay)
  <2>1. t \in Trans /\ Proper(t) /\ Reads(t) /\ ~t.load
    BY DEF ReadTrans, Trans, Reads, Proper
  <2>2. Post(c, t) /\ Len(fifo[c]) < MaxPosted /\ cache' = cache /\ seen' = seen
    BY <1>3 DEF Fetch, Runs
  <2> HIDE DEF t
  <2> QED BY <2>1, <2>2 DEF ReadStep
<1>4. ASSUME NEW addr \in Addresses, NEW val \in Values, Store(c, addr, val) PROVE Goal
  <2>1. Len(fifo[c]) < MaxPosted /\ StoreStep(c, addr, val)
    BY <1>4 DEF Store, Runs, StoreStep
  <2> QED BY <2>1
<1>5. ASSUME NEW addr \in Addresses, NEW val \in Values, NEW kind \in Atomics,
             RmwLoad(c, addr, val, kind)
      PROVE  Goal
  <2>1. Len(fifo[c]) < MaxPosted
    BY <1>5 DEF RmwLoad, Runs
  <2>2. CASE Miss(c, addr, kind.lock, kind.forced) /\ UNCHANGED seen
    <3>1. kind.lock \in BOOLEAN
      BY SnoopSystemAssumption
    <3> QED BY <1>1, <2>1, <2>2, <3>1
  <2>3. CASE /\ Hit(c, addr)
             /\ seen' = [seen EXCEPT ![c] =
                    <<addr, Value(cache[c][addr[2]][Locate(c, addr)], addr)>>]
    BY <2>1, <2>3 DEF HitStep
  <2> QED BY <1>5, <2>2, <2>3 DEF RmwLoad
<1>6. ASSUME RmwStore(c) PROVE Goal
  <2>1. rmw[c] \in Rmw
    BY <1>6 DEF RmwStore, Sorts, RmwOK
  <2>2. rmw[c].addr \in Addresses /\ rmw[c].val \in Values /\ rmw[c].got \in Values \cup {NoVal}
    BY <2>1, RmwFields
  <2>3. Len(fifo[c]) < MaxPosted /\ StoreStep(c, rmw[c].addr, rmw[c].val)
    BY <1>6, <2>2 DEF RmwStore, Runs, StoreStep
  <2> QED BY <2>2, <2>3
<1> QED BY <1>2, <1>3, <1>4, <1>5, <1>6 DEF Processor

-----------------------------------------------------------------------------
(* Caches                                                                  *)

\* what a load has looked up is still true: the way it found has its line, and no
\* other way has
Found(ca, t) ==
    /\ t.found # NoWay => ca[t.addr[2]][t.found].atag = t.addr[1]
    /\ \A w \in WayNrs \ {t.found} :
          ca[t.addr[2]][w].atag = t.addr[1] => GoodWords(ca[t.addr[2]][w]) = {}

LookedUp(c) == \A t \in Trans : UnderWay(c, t) /\ t.load => Found(cache[c], t)

LEMMA FoundFewer ==
    ASSUME NEW ca, NEW u, Fewer(u, ca), NEW t \in Trans, Found(ca, t)
    PROVE  Found(u, t)
<1>1. t.addr[2] \in Indices /\ t.found \in WayNrs \cup {NoWay}
  BY TransFields, AddressFacts
<1>2. \A w \in WayNrs : /\ GoodWords(u[t.addr[2]][w]) \subseteq GoodWords(ca[t.addr[2]][w])
                        /\ u[t.addr[2]][w].atag = ca[t.addr[2]][w].atag
  BY <1>1 DEF Fewer, GoodWords
<1> QED BY <1>1, <1>2 DEF Found

\* When it looks.
LEMMA FoundNow ==
    ASSUME Sorts, NEW c \in CPUs, Single(cache[c]), NEW t \in Trans, t.found = Locate(c, t.addr)
    PROVE  Found(cache[c], t)
<1> DEFINE addr == t.addr
           set  == cache[c][addr[2]]
<1>1. addr \in Addresses /\ addr[1] \in Tags /\ addr[2] \in Indices /\ addr[3] \in Words
  BY TransFields, AddressFacts
<1>2. \A w \in WayNrs : GoodWords(set[w]) = Words \/ GoodWords(set[w]) = {}
  BY SnoopSystemAssumption DEF GoodWords
<1>3. CASE t.found = NoWay
  <2>1. \A w \in WayNrs : set[w].atag = addr[1] => addr[3] \notin GoodWords(set[w])
    BY <1>1, <1>3, LocateFacts
  <2> HIDE DEF addr, set
  <2>2. \A w \in WayNrs : set[w].atag = addr[1] => GoodWords(set[w]) = {}
    BY <1>1, <1>2, <2>1
  <2> QED BY <1>3, <2>2 DEF Found, addr, set
<1>4. CASE t.found # NoWay
  <2>1. t.found \in WayNrs /\ set[t.found].atag = addr[1] /\ addr[3] \in GoodWords(set[t.found])
    BY <1>1, <1>4, LocateFacts
  <2>2. ASSUME NEW w \in WayNrs \ {t.found}, set[w].atag = addr[1] PROVE GoodWords(set[w]) = {}
    <3>1. GoodWords(set[w]) \cap GoodWords(set[t.found]) = {}
      BY <1>1, <2>1, <2>2 DEF Single
    <3> HIDE DEF addr, set
    <3> QED BY <1>1, <1>2, <2>1, <3>1
  <2> QED BY <2>1, <2>2 DEF Found
<1> QED BY <1>3, <1>4

\* the memory as processor c must see it
View(c) ==
    [tag \in Tags |-> [i \in Indices |-> [w \in Words |->
        NewestIn(Ended, Buffer(c), <<tag, i, w>>)]]]

LEMMA ViewType ==
    ASSUME Sorts, Queues, OneTransfer, NEW c \in CPUs
    PROVE  View(c) \in Views
<1>1. Ended \in [Addresses -> Values] /\ Buffer(c) \in Seq(Stores) /\ Len(Buffer(c)) <= 3
  BY EndedType, BufferShape, PendingShape
<1>2. \A tag \in Tags, i \in Indices, w \in Words :
          NewestIn(Ended, Buffer(c), <<tag, i, w>>) \in Values
  BY <1>1, NewestType DEF Addresses
<1> QED BY <1>2 DEF View, Views, Contents

\* A view of the same words.
LEMMA SoundEqual ==
    ASSUME NEW ca, Sane(ca), NEW v1, NEW v2, Sound(ca, v1),
           \A tag \in Tags, i \in Indices, w \in Words : v2[tag][i][w] = v1[tag][i][w]
    PROVE  Sound(ca, v2)
<1> SUFFICES ASSUME NEW i \in Indices, NEW w \in WayNrs, NEW good \in GoodWords(ca[i][w])
             PROVE  ca[i][w].entry[good] = v2[ca[i][w].atag][i][good]
  BY DEF Sound
<1>1. ca[i][w] \in Line
  BY DEF Sane, CacheType
<1>2. good \in Words /\ ca[i][w].atag \in Tags
  BY <1>1 DEF GoodWords, Line
<1> QED BY <1>2 DEF Sound

\* Lines that differ in their history at most.
LEMMA SameLinesKeep ==
    ASSUME NEW ca, NEW u, \A i \in Indices, w \in WayNrs : SameLine(u[i][w], ca[i][w])
    PROVE  Fewer(u, ca)
BY DEF Fewer, SameLine

\* every cache agrees with the view of its processor, each word in one way, and its
\* loads that are under way will find the place they have looked up
Cached(c) == LookedUp(c) /\ Single(cache[c]) /\ Sound(cache[c], View(c))

Caches == \A c \in CPUs : Cached(c)

LEMMA CachedSame ==
    ASSUME Sorts, NEW c \in CPUs, Cached(c), Fewer(cache'[c], cache[c]), View(c)' = View(c),
           \A t \in Trans : UnderWay(c, t)' /\ t.load => UnderWay(c, t)
    PROVE  Cached(c)'
<1>1. Single(cache'[c]) /\ Sound(cache'[c], View(c))
  BY FewerKeeps DEF Cached
<1>2. LookedUp(c)'
  BY FoundFewer DEF Cached, LookedUp
<1> QED BY <1>1, <1>2 DEF Cached

LEMMA ViewSame ==
    ASSUME NEW c \in CPUs, Ended' = Ended, Buffer(c)' = Buffer(c)
    PROVE  View(c)' = View(c)
BY DEF View

LEMMA FewerSelf == \A ca : Fewer(ca, ca)
BY DEF Fewer

\* A processor that does not wait has no load under way.
LEMMA NoLoads ==
    ASSUME Sorts, NEW c \in CPUs, ~Waits(c), NEW t \in Trans, UnderWay(c, t)
    PROVE  ~t.load
<1>1. Proper(t) /\ ~Reads(t)
  BY UnderWayTypes
<1> QED BY <1>1 DEF Proper

LEMMA CachesHit ==
    ASSUME Sorts, Caches, Ended' = Ended, NEW c \in CPUs, NEW addr \in Addresses,
           HitStep(c, addr)
    PROVE  Caches' /\ \A d \in CPUs : Buffer(d)' = Buffer(d)
<1>1. /\ fifo' = fifo /\ active' = active
      /\ \A d \in CPUs \ {c} : cache'[d] = cache[d]
      /\ \A i \in Indices, w \in WayNrs : SameLine(cache'[c][i][w], cache[c][i][w])
  BY HitTypes DEF HitStep, Hit
<1>2. \A d \in CPUs : Buffer(d)' = Buffer(d)
  BY <1>1, BufferUntouched
<1>3. \A d \in CPUs : Fewer(cache'[d], cache[d])
  BY <1>1, SameLinesKeep, FewerSelf
<1>4. \A d \in CPUs : \A t \in Trans : UnderWay(d, t)' <=> UnderWay(d, t)
  BY <1>1 DEF UnderWay
<1>5. \A d \in CPUs : Cached(d)'
  BY <1>2, <1>3, <1>4, ViewSame, CachedSame DEF Caches
<1> QED BY <1>2, <1>5 DEF Caches

LEMMA CachesRead ==
    ASSUME Sorts, Queues, Sorts', Queues', Caches, Ended' = Ended, NEW c \in CPUs,
           active' = active, ~Waits(c), Len(fifo[c]) < MaxPosted,
           NEW t \in Trans, ReadStep(c, t)
    PROVE  Caches' /\ \A d \in CPUs : Buffer(d)' = Buffer(d)
<1>1. /\ Proper(t) /\ Reads(t) /\ Post(c, t) /\ cache' = cache
      /\ t.load => t.found = Locate(c, t.addr)
  BY DEF ReadStep
<1>2. \A d \in CPUs \ {c} : fifo'[d] = fifo[d]
  BY <1>1, PostTypes
<1>3. /\ \A x : UnderWay(c, x)' <=> UnderWay(c, x) \/ x = t
      /\ \A d \in CPUs \ {c} : \A x : UnderWay(d, x)' <=> UnderWay(d, x)
  BY <1>1, UnderWayPost
<1>4. Buffer(c)' = Buffer(c)
  BY <1>1, BufferPost
<1>5. \A d \in CPUs : Buffer(d)' = Buffer(d)
  BY <1>2, <1>4, BufferUntouched
<1>6. \A d \in CPUs \ {c} : Cached(d)'
  BY <1>1, <1>3, <1>5, ViewSame, CachedSame, FewerSelf DEF Caches
<1>7. Cached(c)'
  <2>1. LookedUp(c)'
    <3> SUFFICES ASSUME NEW x \in Trans, UnderWay(c, x)', x.load PROVE Found(cache[c], x)
      BY <1>1 DEF LookedUp
    <3>1. x = t
      BY <1>3, NoLoads
    <3>2. Single(cache[c])
      BY DEF Caches, Cached
    <3> QED BY <1>1, <3>1, <3>2, FoundNow
  <2>2. View(c)' = View(c)
    BY <1>4, ViewSame
  <2> QED BY <1>1, <2>1, <2>2 DEF Caches, Cached
<1> QED BY <1>5, <1>6, <1>7 DEF Caches

\* A store changes the view of its processor and its cache alike.
LEMMA CachesStore ==
    ASSUME Sorts, Queues, OneTransfer, Sorts', Queues', Caches, Ended' = Ended, NEW c \in CPUs,
           active' = active, ~Waits(c), Len(fifo[c]) < MaxPosted,
           NEW addr \in Addresses, NEW val \in Values, StoreStep(c, addr, val)
    PROVE  /\ Caches'
           /\ Buffer(c)' = Append(Buffer(c), <<addr, val>>)
           /\ \A d \in CPUs \ {c} : Buffer(d)' = Buffer(d)
<1>1. PICK swapped \in Values \cup {NoVal} : StoreData(c, addr, val, swapped)
  BY DEF StoreStep
<1> DEFINE t == WriteTrans(addr, val, swapped)
<1>2. t \in Trans /\ Proper(t) /\ ~Reads(t) /\ t.addr = addr /\ t.val = val
  BY WriteTransType
<1>3. Post(c, t)
  BY <1>1 DEF StoreData, WriteTrans
<1> HIDE DEF t
<1>4. \A d \in CPUs \ {c} : fifo'[d] = fifo[d]
  BY <1>2, <1>3, PostTypes
<1>5. /\ \A x : UnderWay(c, x)' <=> UnderWay(c, x) \/ x = t
      /\ \A d \in CPUs \ {c} : \A x : UnderWay(d, x)' <=> UnderWay(d, x)
  BY <1>2, <1>3, UnderWayPost
<1>6. Buffer(c)' = Append(Buffer(c), <<addr, val>>) /\ Len(Buffer(c)) <= 2
  BY <1>2, <1>3, BufferPost
<1>7. \A d \in CPUs \ {c} : Buffer(d)' = Buffer(d)
  BY <1>4, BufferUntouched
<1>8. /\ \A d \in CPUs \ {c} : cache'[d] = cache[d]
      /\ Locate(c, addr) = NoWay => cache'[c] = cache[c]
      /\ Locate(c, addr) # NoWay =>
             cache'[c] = Stored(cache[c], addr[2], addr[1], addr[3], val)
  BY <1>1, StoreTypes
<1>9. \A d \in CPUs \ {c} : Cached(d)'
  BY <1>5, <1>7, <1>8, ViewSame, CachedSame, FewerSelf DEF Caches
<1>10. /\ addr[1] \in Tags /\ addr[2] \in Indices /\ addr[3] \in Words
       /\ addr = <<addr[1], addr[2], addr[3]>>
  BY AddressFacts
<1> DEFINE v1 == View(c)
           v2 == View(c)'
<1>11. ASSUME NEW tag \in Tags, NEW i \in Indices, NEW w \in Words
       PROVE  v2[tag][i][w] = IF <<tag, i, w>> = addr THEN val ELSE v1[tag][i][w]
  <2>1. v1[tag][i][w] = NewestIn(Ended, Buffer(c), <<tag, i, w>>)
    BY DEF View
  <2>2. v2[tag][i][w] = NewestIn(Ended, Append(Buffer(c), <<addr, val>>), <<tag, i, w>>)
    BY <1>6 DEF View
  <2>3. Buffer(c) \in Seq(Stores) /\ <<addr, val>> \in Stores
    BY BufferShape DEF Stores
  <2>4. \A a : NewestIn(Ended, Append(Buffer(c), <<addr, val>>), a) =
                IF a = <<addr, val>>[1] THEN <<addr, val>>[2] ELSE NewestIn(Ended, Buffer(c), a)
    BY <1>6, <2>3, NewestAppend
  <2> HIDE DEF v1, v2
  <2> QED BY <2>1, <2>2, <2>4
<1>12. /\ Sane(cache[c]) /\ Single(cache[c]) /\ Sound(cache[c], v1)
  BY DEF Sorts, CachesOK, Caches, Cached
<1>13. v2[addr[1]][addr[2]][addr[3]] = val
  BY <1>10, <1>11
<1>14. Written(v1, v2, addr[1], addr[2], addr[3])
  <2> HIDE DEF v1, v2
  <2> QED BY <1>10, <1>11 DEF Written
<1> HIDE DEF v1, v2
<1>15. Single(cache'[c]) /\ Sound(cache'[c], v2)
  <2>1. CASE Locate(c, addr) = NoWay
    <3>1. \A w \in WayNrs : cache[c][addr[2]][w].atag = addr[1] =>
                               addr[3] \notin GoodWords(cache[c][addr[2]][w])
      BY <2>1, LocateFacts
    <3>2. Sound(cache[c], v2)
      BY <1>10, <1>12, <1>14, <3>1, WrittenElsewhere
    <3> QED BY <1>8, <1>12, <2>1, <3>2
  <2>2. CASE Locate(c, addr) # NoWay
    <3>1. LocateLine(cache[c], addr[2], addr[1], addr[3]) # NoWay
      BY <2>2 DEF Locate
    <3> QED BY <1>8, <1>10, <1>12, <1>13, <1>14, <2>2, <3>1, StoreHits
  <2> QED BY <2>1, <2>2
<1>16. LookedUp(c)'
  <2>1. ~t.load
    BY <1>2 DEF Proper
  <2>2. \A x \in Trans : UnderWay(c, x)' => ~x.load
    BY <1>5, <2>1, NoLoads
  <2> QED BY <2>2 DEF LookedUp
<1>17. Cached(c)'
  BY <1>15, <1>16 DEF Cached, v2
<1> QED BY <1>6, <1>7, <1>9, <1>17 DEF Caches

\* Each cache knows the writes of its own bus thread by their number.
OwnIds == \A c, d \in CPUs : HIndex[d] = BusId[c] <=> d = c

LEMMA CachesServe ==
    ASSUME Sorts, Queues, Sorts', Queues', Caches, Ended' = Ended, NEW c \in CPUs, Serve(c)
    PROVE  Caches'
<1>1. cache' = cache /\ \A d \in CPUs : Buffer(d)' = Buffer(d)
  BY BufferServe DEF Serve
<1>2. \A d \in CPUs : \A x : UnderWay(d, x)' <=> UnderWay(d, x)
  BY UnderWayServe
<1> QED BY <1>1, <1>2, ViewSame, CachedSame, FewerSelf DEF Caches

LEMMA CachesBegin ==
    ASSUME Sorts, Queues, Sorts', Queues', Caches, Ended' = Ended, NEW c \in CPUs, Begin(c)
    PROVE  Caches'
<1>1. cache' = cache /\ \A d \in CPUs : Buffer(d)' = Buffer(d)
  BY BufferBegin DEF Begin, BeginWith
<1>2. \A d \in CPUs : \A x : UnderWay(d, x)' <=> UnderWay(d, x)
  BY UnderWayBegin
<1> QED BY <1>1, <1>2, ViewSame, CachedSame, FewerSelf DEF Caches

\* A write that ends takes its word from the caches of the others; its own processor
\* has seen it since its store.
LEMMA CachesFinish ==
    ASSUME OwnIds, Sorts, Queues, OneTransfer, Sorts', Queues', OneTransfer',
           Transfers, Caches, NEW c \in CPUs, Finish(c)
    PROVE  Caches'
<1>1. /\ active[c].trans \in Trans /\ active[c].trans.addr \in Addresses
      /\ cache' = IF Reads(active[c].trans) THEN cache ELSE Snooped(c, active[c].trans.addr)
  BY FinishTypes DEF Finish
<1>2. /\ \A d \in CPUs \ {c} : Buffer(d)' = Buffer(d)
      /\ Reads(active[c].trans) => Buffer(c)' = Buffer(c)
      /\ ~Reads(active[c].trans) =>
             /\ Buffer(c)' = Tail(Buffer(c)) /\ Buffer(c) # <<>>
             /\ Buffer(c)[1] = <<active[c].trans.addr, active[c].trans.val>>
  BY BufferFinish
<1>3. \A d \in CPUs : \A x : UnderWay(d, x)' => UnderWay(d, x)
  BY UnderWayFinish
<1>4. /\ Reads(active[c].trans) => Ended' = Ended
      /\ ~Reads(active[c].trans) =>
            \A a \in Addresses :
                Ended'[a] = IF a = active[c].trans.addr THEN active[c].trans.val ELSE Ended[a]
  BY EndedFinish DEF Transfers
<1>5. CASE Reads(active[c].trans)
  <2>1. \A d \in CPUs : Buffer(d)' = Buffer(d)
    BY <1>2, <1>5
  <2> QED BY <1>1, <1>3, <1>4, <1>5, <2>1, ViewSame, CachedSame, FewerSelf DEF Caches
<1>6. CASE ~Reads(active[c].trans)
  <2> DEFINE addr == active[c].trans.addr
             val  == active[c].trans.val
  <2>1. /\ addr[1] \in Tags /\ addr[2] \in Indices /\ addr[3] \in Words
        /\ addr = <<addr[1], addr[2], addr[3]>>
    BY <1>1, AddressFacts
  <2>2. \A d \in CPUs : /\ Buffer(d) \in Seq(Stores) /\ Len(Buffer(d)) <= 3
    BY BufferShape, PendingShape
  <2>3. \A tag \in Tags, i \in Indices, w \in Words : <<tag, i, w>> \in Addresses
    BY DEF Addresses
  <2>4. ASSUME NEW d \in CPUs, d # c PROVE Cached(d)'
    <3> DEFINE v1 == View(d)
               v2 == View(d)'
               u  == SnoopInvalidate(cache[d], addr[2], addr[1], addr[3])
    <3>1. cache'[d] = u
      BY <1>1, <1>6, <2>4 DEF Snooped, OwnIds
    <3>2. Sane(cache[d]) /\ LookedUp(d) /\ Single(cache[d]) /\ Sound(cache[d], v1)
      BY DEF Sorts, CachesOK, Caches, Cached
    <3>3. /\ Sane(u) /\ Fewer(u, cache[d])
          /\ \A w \in WayNrs : u[addr[2]][w].atag = addr[1] =>
                                   addr[3] \notin GoodWords(u[addr[2]][w])
      BY <2>1, <3>2, Snoops
    <3>4. Written(v1, v2, addr[1], addr[2], addr[3])
      <4> SUFFICES ASSUME NEW tag \in Tags, NEW i \in Indices, NEW w \in Words,
                          ~(tag = addr[1] /\ i = addr[2] /\ w = addr[3])
                   PROVE  v2[tag][i][w] = v1[tag][i][w]
        BY DEF Written
      <4>1. v1[tag][i][w] = NewestIn(Ended, Buffer(d), <<tag, i, w>>)
        BY DEF View
      <4>2. v2[tag][i][w] = NewestIn(Ended', Buffer(d), <<tag, i, w>>)
        BY <1>2, <2>4 DEF View
      <4>3. Ended'[<<tag, i, w>>] = Ended[<<tag, i, w>>]
        <5>1. <<tag, i, w>> # addr
          BY <2>1
        <5> QED BY <1>4, <1>6, <2>3, <5>1
      <4> HIDE DEF v1, v2
      <4> QED BY <2>2, <4>1, <4>2, <4>3, NewestElsewhere
    <3> HIDE DEF v1, v2, u
    <3>5. Single(u) /\ Sound(u, v1)
      BY <3>2, <3>3, FewerKeeps
    <3>6. Sound(u, v2)
      BY <2>1, <3>3, <3>4, <3>5, WrittenElsewhere
    <3>7. LookedUp(d)'
      BY <1>3, <3>1, <3>2, <3>3, FoundFewer DEF LookedUp
    <3> QED BY <3>1, <3>5, <3>6, <3>7 DEF Cached, v2
  <2>5. Cached(c)'
    <3> DEFINE v1 == View(c)
               v2 == View(c)'
    <3>1. cache'[c] = cache[c]
      BY <1>1, <1>6 DEF Snooped, OwnIds
    <3>2. Sane(cache[c]) /\ LookedUp(c) /\ Single(cache[c]) /\ Sound(cache[c], v1)
      BY DEF Sorts, CachesOK, Caches, Cached
    <3>3. ASSUME NEW tag \in Tags, NEW i \in Indices, NEW w \in Words
          PROVE  v2[tag][i][w] = v1[tag][i][w]
      <4> DEFINE a == <<tag, i, w>>
      <4>1. v1[tag][i][w] = NewestIn(Ended, Buffer(c), a)
        BY DEF View
      <4>2. v2[tag][i][w] = NewestIn(Ended', Tail(Buffer(c)), a)
        BY <1>2, <1>6 DEF View
      <4>3. a \in Addresses
        BY <2>3
      <4> HIDE DEF a, v1, v2
      <4>4. Ended'[a] = IF a = Buffer(c)[1][1] THEN Buffer(c)[1][2] ELSE Ended[a]
        BY <1>2, <1>4, <1>6, <4>3
      <4>5. Buffer(c) # <<>> /\ Buffer(c) \in Seq(Stores) /\ Len(Buffer(c)) <= 3
        BY <1>2, <1>6, <2>2
      <4>6. NewestIn(Ended', Tail(Buffer(c)), a) = NewestIn(Ended, Buffer(c), a)
        BY <4>3, <4>4, <4>5, NewestCommit
      <4> QED BY <4>1, <4>2, <4>6
    <3> HIDE DEF v1, v2
    <3>4. Sound(cache[c], v2)
      BY <3>2, <3>3, SoundEqual
    <3>5. LookedUp(c)'
      BY <1>3, <3>1, <3>2 DEF LookedUp
    <3> QED BY <3>1, <3>2, <3>4, <3>5 DEF Cached, v2
  <2> QED BY <2>4, <2>5 DEF Caches
<1> QED BY <1>5, <1>6

\* A load that was answered: what it fills in is what the processor must see, since it
\* has no store under way, and the line goes where the only copy of it is.
LEMMA CachesComplete ==
    ASSUME Repl = 2 => ~SetLock, Sorts, Queues, OneTransfer, Sorts', Queues',
           Transfers, Caches, Ended' = Ended, NEW c \in CPUs, Complete(c)
    PROVE  Caches'
<1> DEFINE t    == active[c].trans
           addr == t.addr
           data == active[c].data
           v    == View(c)
<1>1. /\ active[c] # NoTrans /\ active[c].phase = "answered"
      /\ t \in Trans /\ addr \in Addresses /\ (t.load => data \in Contents)
      /\ FillWay(c) \in WayNrs
      /\ \A d \in CPUs \ {c} : cache'[d] = cache[d]
      /\ cache'[c] = IF Fills(c)
                     THEN UpdateLine(cache[c], addr[2], FillWay(c), addr[1], Words, data)
                     ELSE cache[c]
  BY CompleteTypes
<1>2. /\ \A d \in CPUs : Buffer(d)' = Buffer(d)
      /\ Len(Buffer(c)) = 0 /\ Reads(t) /\ Len(fifo[c]) = 0
  BY BufferComplete
<1>3. \A d \in CPUs : \A x : UnderWay(d, x)' => UnderWay(d, x)
  BY UnderWayComplete
<1>4. \A d \in CPUs : View(d)' = View(d)
  BY <1>2, ViewSame
<1>5. \A d \in CPUs \ {c} : Cached(d)'
  BY <1>1, <1>3, <1>4, CachedSame, FewerSelf DEF Caches
<1>6. CASE ~Fills(c)
  <2>1. Cached(c)'
    BY <1>1, <1>3, <1>4, <1>6, CachedSame, FewerSelf DEF Caches
  <2> QED BY <1>5, <2>1 DEF Caches
<1>7. CASE Fills(c)
  <2>1. t.load /\ data \in Contents
    BY <1>1, <1>7 DEF Fills
  <2>2. /\ addr[1] \in Tags /\ addr[2] \in Indices /\ addr[3] \in Words
    BY <1>1, AddressFacts
  <2>3. Sane(cache[c]) /\ LookedUp(c) /\ Single(cache[c]) /\ Sound(cache[c], v)
    BY DEF Sorts, CachesOK, Caches, Cached
  <2>4. v \in Views
    BY ViewType
  <2>5. data = v[addr[1]][addr[2]]
    <3>1. ASSUME NEW w \in Words PROVE data[w] = v[addr[1]][addr[2]][w]
      <4> DEFINE a == <<addr[1], addr[2], w>>
      <4>1. data[w] = Ended[a]
        BY <1>1, <1>2 DEF Transfers, Current
      <4>2. v[addr[1]][addr[2]][w] = NewestIn(Ended, Buffer(c), a)
        BY <2>2 DEF View
      <4>3. a \in Addresses
        BY <2>2 DEF Addresses
      <4> HIDE DEF a
      <4>4. Ended \in [Addresses -> Values] /\ Buffer(c) \in Seq(Stores) /\ Len(Buffer(c)) <= 3
        BY EndedType, BufferShape, PendingShape
      <4>5. NewestIn(Ended, Buffer(c), a) = Ended[a]
        BY <1>2, <4>3, <4>4, NewestType
      <4> QED BY <4>1, <4>2, <4>5
    <3>2. v[addr[1]][addr[2]] \in Contents
      BY <2>2, <2>4 DEF Views
    <3> HIDE DEF addr, data, v
    <3> QED BY <2>1, <3>1, <3>2 DEF Contents
  <2>6. UnderWay(c, t)
    BY <1>1 DEF UnderWay
  <2>7. Found(cache[c], t)
    BY <1>1, <2>1, <2>3, <2>6 DEF LookedUp
  <2>8. \A w \in WayNrs \ {FillWay(c)} :
            cache[c][addr[2]][w].atag = addr[1] => GoodWords(cache[c][addr[2]][w]) = {}
    <3>1. t.found # NoWay => FillWay(c) = t.found
      BY DEF FillWay
    <3>2. t.found = NoWay => \A w \in WayNrs : w # t.found
      BY Ways
    <3> QED BY <2>7, <3>1, <3>2 DEF Found
  <2> DEFINE u == UpdateLine(cache[c], addr[2], FillWay(c), addr[1], Words, data)
  <2>9. Single(u)
    <3>1. Words \in SUBSET Words
      OBVIOUS
    <3> HIDE DEF addr, data
    <3> QED BY <1>1, <2>1, <2>2, <2>3, <2>8, <3>1, FillIsSingle
  <2>10. Sound(u, v)
    <3>1. Words \in SUBSET Words
      OBVIOUS
    <3> HIDE DEF addr, data, v
    <3>2. Sound(UpdateLine(cache[c], addr[2], FillWay(c), addr[1], Words, v[addr[1]][addr[2]]), v)
      BY <1>1, <2>2, <2>3, <2>4, <3>1, FillIsSound
    <3> QED BY <2>5, <3>2
  <2>11. LookedUp(c)'
    <3>1. fifo' = fifo /\ active'[c] = NoTrans
      BY CompleteTypes DEF Complete
    <3>2. \A x : ~UnderWay(c, x)'
      BY <1>2, <3>1 DEF UnderWay
    <3> QED BY <3>2 DEF LookedUp
  <2>12. cache'[c] = u
    BY <1>1, <1>7
  <2> HIDE DEF u
  <2>13. Cached(c)'
    BY <1>4, <2>9, <2>10, <2>11, <2>12 DEF Cached
  <2> QED BY <1>5, <2>13 DEF Caches
<1> QED BY <1>6, <1>7

-----------------------------------------------------------------------------
(* The invariant                                                           *)

Right == Inv /\ Sorts /\ Queues /\ Transfers /\ Caches

LEMMA InitRight == Init => Right
<1> SUFFICES ASSUME Init PROVE Right
  OBVIOUS
<1>1. Inv
  BY DEF Init, Inv, ActiveShape, OneTransfer
<1>2. Sorts /\ Queues
  BY InitSorts, InitQueues
<1>3. \A c \in CPUs : active[c] = NoTrans /\ Len(fifo[c]) = 0
  BY EmptySeq DEF Init
<1>4. Transfers
  BY <1>3 DEF Transfers, Taken, Current, OnBus
<1>5. \A c \in CPUs : LookedUp(c)
  BY <1>3 DEF LookedUp, UnderWay
<1>6. PICK tag \in Tags, data \in Contents : cache = [c \in CPUs |-> EmptyCache(tag, data)]
  BY DEF Init
<1>7. ASSUME NEW c \in CPUs PROVE Single(cache[c]) /\ Sound(cache[c], View(c))
  <2>1. \A i \in Indices, w \in WayNrs : GoodWords(cache[c][i][w]) = {}
    BY <1>6, Emptied
  <2> QED BY <2>1 DEF Single, Sound
<1> QED BY <1>1, <1>2, <1>4, <1>5, <1>7 DEF Right, Caches, Cached

LEMMA RightKept ==
    ASSUME Repl = 2 => ~SetLock, OwnIds, Right, [Next]_vars
    PROVE  Right'
<1>1. Inv' /\ Sorts' /\ Queues'
  BY InvKept, SortsKept, QueuesKept DEF Right
<1>2. OneTransfer /\ OneTransfer'
  BY <1>1 DEF Right, Inv
<1>3. Sorts /\ Queues /\ Transfers /\ Caches
  BY DEF Right
<1>4. Transfers'
  BY <1>2, <1>3, TransfersKept
<1>5. ASSUME NEW c \in CPUs, Processor(c) PROVE Caches'
  <2>1. Ended' = Ended
    BY <1>2, <1>3, <1>5, EndedElsewhere
  <2>2. active' = active /\ ~Waits(c)
    BY <1>3, <1>5, ProcessorSteps
  <2>3. /\ Len(fifo[c]) < MaxPosted
        /\ \/ \E addr \in Addresses : HitStep(c, addr)
           \/ \E t \in Trans : ReadStep(c, t)
           \/ \E addr \in Addresses, val \in Values : StoreStep(c, addr, val)
    BY <1>3, <1>5, InstructionSteps
  <2> QED BY <1>1, <1>2, <1>3, <2>1, <2>2, <2>3, CachesHit, CachesRead, CachesStore
<1>6. ASSUME NEW c \in CPUs, Serve(c) PROVE Caches'
  BY <1>1, <1>2, <1>3, <1>6, EndedElsewhere, CachesServe
<1>7. ASSUME NEW c \in CPUs, Begin(c) PROVE Caches'
  BY <1>1, <1>2, <1>3, <1>7, EndedBegin, CachesBegin
<1>8. ASSUME NEW c \in CPUs, Finish(c) PROVE Caches'
  BY <1>1, <1>2, <1>3, <1>8, CachesFinish
<1>9. ASSUME NEW c \in CPUs, Complete(c) PROVE Caches'
  BY <1>1, <1>2, <1>3, <1>9, EndedElsewhere, CachesComplete
<1>10. ASSUME UNCHANGED vars PROVE Caches'
  <2>1. /\ active' = active /\ fifo' = fifo /\ mem' = mem /\ cache' = cache
    BY <1>10 DEF vars
  <2>2. Ended' = Ended
    BY <1>2, <2>1, EndedSame DEF OnBus
  <2>3. \A c \in CPUs : View(c)' = View(c)
    BY <2>1, <2>2, BufferUntouched, ViewSame
  <2>4. \A c \in CPUs : \A t : UnderWay(c, t)' <=> UnderWay(c, t)
    BY <2>1 DEF UnderWay
  <2>5. ASSUME NEW c \in CPUs PROVE Cached(c)'
    <3>1. Cached(c) /\ View(c)' = View(c)
      BY <1>3, <2>3 DEF Caches
    <3>2. Fewer(cache'[c], cache[c])
      BY <2>1, FewerSelf
    <3>3. \A t \in Trans : UnderWay(c, t)' /\ t.load => UnderWay(c, t)
      BY <2>4
    <3> QED BY <1>3, <3>1, <3>2, <3>3, CachedSame
  <2> QED BY <2>5 DEF Caches
<1>11. \/ \E c \in CPUs : Processor(c) \/ Serve(c) \/ Begin(c) \/ Finish(c) \/ Complete(c)
       \/ UNCHANGED vars
  BY DEF Next, Bus
<1>12. Caches'
  BY <1>5, <1>6, <1>7, <1>8, <1>9, <1>10, <1>11
<1> QED BY <1>1, <1>4, <1>12 DEF Right

\* A good word of a cache line is what its processor must see.
LEMMA GoodIsNewest ==
    ASSUME Right, NEW c \in CPUs, NEW idx \in Indices, NEW way \in WayNrs,
           NEW word \in GoodWords(cache[c][idx][way])
    PROVE  cache[c][idx][way].entry[word] =
               NewestIn(Ended, Buffer(c), <<cache[c][idx][way].atag, idx, word>>)
<1>1. cache[c] \in CacheType /\ Sound(cache[c], View(c))
  BY DEF Right, Sorts, CachesOK, Caches, Cached
<1>2. cache[c][idx][way] \in Line
  BY <1>1 DEF CacheType
<1>3. cache[c][idx][way].atag \in Tags /\ word \in Words
  BY <1>2 DEF Line, GoodWords
<1>4. cache[c][idx][way].entry[word] = View(c)[cache[c][idx][way].atag][idx][word]
  BY <1>1 DEF Sound
<1> QED BY <1>3, <1>4 DEF View

\* Every word of a valid line is what a load of its processor must return, its own
\* newest store on the way to the memory or else the memory, provided that each cache
\* is snooped by exactly the other masters (mmu_cache_base.cpp:1012).
THEOREM CachesAreCoherent ==
    ASSUME OwnIds, Repl = 2 => ~SetLock
    PROVE  Spec => []Coherent
<1>1. Right /\ [Next]_vars => Right'
  BY RightKept
<1>2. Right => Coherent
  BY GoodIsNewest, NewestIsIn DEF Coherent
<1> QED BY <1>1, <1>2, InitRight, PTL DEF Spec

-----------------------------------------------------------------------------
(* The refinement                                                          *)

\* A load that returns what its processor must see.
LEMMA LoadsNewest ==
    ASSUME NEW c \in CPUs, NEW a \in Addresses, NEW val,
           seen' = [seen EXCEPT ![c] = <<a, val>>], val = NewestIn(Ended, Buffer(c), a),
           Ended' = Ended, \A d \in CPUs : Buffer(d)' = Buffer(d)
    PROVE  Promised!Next
<1>1. Promised!Newest([d \in CPUs |-> Buffer(d)][c], a) = val
  BY NewestIsIn
<1>2. [d \in CPUs |-> Buffer(d)]' = [d \in CPUs |-> Buffer(d)]
  OBVIOUS
<1>3. Promised!Load(c, a)
  BY <1>1, <1>2 DEF Promised!Load
<1> QED BY <1>3 DEF Promised!Next

LEMMA Unseen ==
    ASSUME seen' = seen, Ended' = Ended, \A d \in CPUs : Buffer(d)' = Buffer(d)
    PROVE  UNCHANGED Promised!vars
<1>1. [d \in CPUs |-> Buffer(d)]' = [d \in CPUs |-> Buffer(d)]
  OBVIOUS
<1> QED BY <1>1 DEF Promised!vars

LEMMA ProcessorImplements ==
    ASSUME Repl = 2 => ~SetLock, Right, Right', NEW c \in CPUs, Processor(c)
    PROVE  Promised!Next \/ UNCHANGED Promised!vars
<1>1. Sorts /\ Queues /\ OneTransfer /\ Caches
  BY DEF Right, Inv
<1>2. Sorts' /\ Queues' /\ OneTransfer'
  BY DEF Right, Inv
<1>3. Ended' = Ended
  BY <1>1, <1>2, EndedElsewhere
<1>4. active' = active /\ ~Waits(c)
  BY <1>1, ProcessorSteps
<1>5. /\ Len(fifo[c]) < MaxPosted
      /\ \/ \E addr \in Addresses : HitStep(c, addr)
         \/ \E t \in Trans : ReadStep(c, t)
         \/ \E addr \in Addresses, val \in Values : StoreStep(c, addr, val)
  BY <1>1, InstructionSteps
<1>6. ASSUME NEW addr \in Addresses, HitStep(c, addr) PROVE Promised!Next
  <2> DEFINE way == Locate(c, addr)
             val == Value(cache[c][addr[2]][way], addr)
  <2>1. \A d \in CPUs : Buffer(d)' = Buffer(d)
    BY <1>1, <1>3, <1>6, CachesHit
  <2>2. /\ addr[2] \in Indices /\ addr = <<addr[1], addr[2], addr[3]>>
    BY AddressFacts
  <2>3. /\ way \in WayNrs /\ cache[c][addr[2]][way].atag = addr[1]
        /\ addr[3] \in GoodWords(cache[c][addr[2]][way])
    BY <1>1, <1>6, LocateFacts DEF HitStep, Hit
  <2>4. val = cache[c][addr[2]][way].entry[addr[3]]
    BY DEF Value
  <2>5. seen' = [seen EXCEPT ![c] = <<addr, val>>]
    BY <1>6 DEF HitStep
  <2> HIDE DEF way, val
  <2>6. val = NewestIn(Ended, Buffer(c), addr)
    BY <2>2, <2>3, <2>4, GoodIsNewest
  <2> QED BY <1>3, <2>1, <2>5, <2>6, LoadsNewest
<1>7. ASSUME NEW t \in Trans, ReadStep(c, t) PROVE UNCHANGED Promised!vars
  <2>1. \A d \in CPUs : Buffer(d)' = Buffer(d)
    BY <1>1, <1>2, <1>3, <1>4, <1>5, <1>7, CachesRead
  <2>2. seen' = seen
    BY <1>7 DEF ReadStep
  <2> QED BY <1>3, <2>1, <2>2, Unseen
<1>8. ASSUME NEW addr \in Addresses, NEW val \in Values, StoreStep(c, addr, val)
      PROVE  Promised!Next
  <2>1. /\ Buffer(c)' = Append(Buffer(c), <<addr, val>>)
        /\ \A d \in CPUs \ {c} : Buffer(d)' = Buffer(d)
    BY <1>1, <1>2, <1>3, <1>4, <1>5, <1>8, CachesStore
  <2>2. seen' = seen
    BY <1>8 DEF StoreStep, StoreData
  <2>3. [d \in CPUs |-> Buffer(d)]' =
            [[d \in CPUs |-> Buffer(d)] EXCEPT
                ![c] = Append([d \in CPUs |-> Buffer(d)][c], <<addr, val>>)]
    BY <2>1
  <2>4. Promised!Store(c, addr, val)
    BY <1>3, <2>2, <2>3 DEF Promised!Store
  <2> QED BY <2>4 DEF Promised!Next
<1> QED BY <1>5, <1>6, <1>7, <1>8

LEMMA FinishImplements ==
    ASSUME Right, Right', NEW c \in CPUs, Finish(c)
    PROVE  Promised!Next \/ UNCHANGED Promised!vars
<1>1. Sorts /\ Queues /\ OneTransfer /\ Taken(c)
  BY DEF Right, Inv, Transfers
<1>2. Sorts' /\ Queues' /\ OneTransfer'
  BY DEF Right, Inv
<1>3. seen' = seen
  BY DEF Finish
<1>4. /\ \A d \in CPUs \ {c} : Buffer(d)' = Buffer(d)
      /\ Reads(active[c].trans) => Buffer(c)' = Buffer(c)
      /\ ~Reads(active[c].trans) =>
             /\ Buffer(c)' = Tail(Buffer(c)) /\ Buffer(c) # <<>>
             /\ Buffer(c)[1] = <<active[c].trans.addr, active[c].trans.val>>
  BY <1>1, <1>2, BufferFinish
<1>5. CASE Reads(active[c].trans)
  <2>1. Ended' = Ended
    BY <1>1, <1>2, <1>5, EndedFinish
  <2> QED BY <1>3, <1>4, <1>5, <2>1, Unseen
<1>6. CASE ~Reads(active[c].trans)
  <2> DEFINE addr == active[c].trans.addr
             val  == active[c].trans.val
             buf  == [d \in CPUs |-> Buffer(d)]
  <2>1. addr \in Addresses
    BY <1>1, FinishTypes
  <2>2. \A a \in Addresses : Ended'[a] = IF a = addr THEN val ELSE Ended[a]
    BY <1>1, <1>2, <1>6, EndedFinish
  <2>3. /\ Ended = [a \in Addresses |-> Ended[a]]
        /\ Ended' = [a \in Addresses |-> Ended'[a]]
    BY DEF Ended
  <2>4. Ended' = [Ended EXCEPT ![addr] = val]
    <3> DEFINE e1 == Ended
               e2 == Ended'
    <3>1. /\ e1 = [a \in Addresses |-> e1[a]] /\ e2 = [a \in Addresses |-> e2[a]]
          /\ \A a \in Addresses : e2[a] = IF a = addr THEN val ELSE e1[a]
      BY <2>2, <2>3
    <3> HIDE DEF addr, val, e1, e2
    <3>2. e2 = [e1 EXCEPT ![addr] = val]
      BY <2>1, <3>1
    <3> QED BY <3>2 DEF e1, e2
  <2>5. /\ buf[c] # <<>> /\ buf[c] = Buffer(c)
        /\ Head(buf[c]) = <<addr, val>>
    <3>1. Head(Buffer(c)) = Buffer(c)[1]
      BY <1>1, <1>4, <1>6, BufferShape, HeadTailProperties
    <3> QED BY <1>4, <1>6, <3>1
  <2>6. buf' = [buf EXCEPT ![c] = Tail(buf[c])]
    BY <1>4, <1>6
  <2>7. Head(buf[c])[1] = addr /\ Head(buf[c])[2] = val
    BY <2>5
  <2>8. Promised!Commit(c)
    BY <1>3, <2>4, <2>5, <2>6, <2>7 DEF Promised!Commit
  <2> QED BY <2>8 DEF Promised!Next
<1> QED BY <1>5, <1>6

LEMMA CompleteImplements ==
    ASSUME Repl = 2 => ~SetLock, Right, Right', NEW c \in CPUs, Complete(c)
    PROVE  Promised!Next \/ UNCHANGED Promised!vars
<1> DEFINE t    == active[c].trans
           addr == t.addr
           val  == active[c].data[addr[3]]
<1>1. Sorts /\ Queues /\ OneTransfer /\ Transfers
  BY DEF Right, Inv
<1>2. Sorts' /\ Queues' /\ OneTransfer'
  BY DEF Right, Inv
<1>3. Ended' = Ended
  BY <1>1, <1>2, EndedElsewhere
<1>4. /\ \A d \in CPUs : Buffer(d)' = Buffer(d)
      /\ Len(Buffer(c)) = 0 /\ Reads(t)
  BY <1>1, <1>2, BufferComplete
<1>5. active[c] # NoTrans /\ active[c].phase = "answered" /\ addr \in Addresses
  BY <1>1, CompleteTypes
<1>6. CASE t.load
  <2>1. seen' = [seen EXCEPT ![c] = <<addr, val>>]
    BY <1>6 DEF Complete, Return
  <2>2. addr[3] \in Words /\ addr = <<addr[1], addr[2], addr[3]>>
    BY <1>5, AddressFacts
  <2>3. val = Ended[<<addr[1], addr[2], addr[3]>>]
    BY <1>1, <1>4, <1>5, <2>2 DEF Transfers, Current
  <2>4. Ended \in [Addresses -> Values] /\ Buffer(c) \in Seq(Stores) /\ Len(Buffer(c)) <= 3
    BY <1>1, EndedType, BufferShape, PendingShape
  <2>5. NewestIn(Ended, Buffer(c), addr) = Ended[addr]
    BY <1>4, <1>5, <2>4, NewestType
  <2> HIDE DEF addr, val
  <2>6. val = NewestIn(Ended, Buffer(c), addr)
    BY <2>2, <2>3, <2>5
  <2> QED BY <1>3, <1>4, <1>5, <2>1, <2>6, LoadsNewest
<1>7. CASE ~t.load
  <2>1. seen' = seen
    BY <1>7 DEF Complete
  <2> QED BY <1>3, <1>4, <2>1, Unseen
<1> QED BY <1>6, <1>7

LEMMA StepImplements ==
    ASSUME Repl = 2 => ~SetLock, Right, Right', [Next]_vars
    PROVE  [Promised!Next]_Promised!vars
<1>1. Sorts /\ Queues /\ OneTransfer
  BY DEF Right, Inv
<1>2. Sorts' /\ Queues' /\ OneTransfer'
  BY DEF Right, Inv
<1>3. ASSUME NEW c \in CPUs, Serve(c) PROVE UNCHANGED Promised!vars
  BY <1>1, <1>2, <1>3, BufferServe, EndedElsewhere, Unseen DEF Serve
<1>4. ASSUME NEW c \in CPUs, Begin(c) PROVE UNCHANGED Promised!vars
  BY <1>1, <1>2, <1>4, BufferBegin, EndedBegin, Unseen DEF Begin, BeginWith
<1>5. CASE UNCHANGED vars
  <2>1. active' = active /\ fifo' = fifo /\ mem' = mem /\ seen' = seen
    BY <1>5 DEF vars
  <2>2. Ended' = Ended
    BY <1>1, <1>2, <2>1, EndedSame DEF OnBus
  <2> QED BY <2>1, <2>2, BufferUntouched, Unseen
<1>6. ASSUME NEW c \in CPUs, Processor(c) \/ Finish(c) \/ Complete(c)
      PROVE  Promised!Next \/ UNCHANGED Promised!vars
  BY <1>6, ProcessorImplements, FinishImplements, CompleteImplements
<1> QED BY <1>3, <1>4, <1>5, <1>6 DEF Next, Bus

LEMMA InitImplements == Init => Promised!Init
<1> SUFFICES ASSUME Init PROVE Promised!Init
  OBVIOUS
<1>1. Right
  BY InitRight
<1>2. Ended \in [Addresses -> Values]
  BY <1>1, EndedType DEF Right, Inv
<1>3. ASSUME NEW c \in CPUs PROVE Buffer(c) = <<>>
  <2>1. active[c] = NoTrans /\ Len(fifo[c]) = 0
    BY EmptySeq DEF Init
  <2>2. Count(c) = 0
    BY <2>1 DEF Count, Posted, Writes
  <2>3. Buffer(c) \in Seq(Stores) /\ Len(Buffer(c)) = 0
    BY <1>1, <2>2, BufferShape DEF Right
  <2> QED BY <2>3, EmptySeq
<1>4. seen = [c \in CPUs |-> NoLoad]
  BY DEF Init
<1> QED BY <1>2, <1>3, <1>4 DEF Promised!Init

\* The processors cannot tell the system from a memory with one store buffer each:
\* loads and answered misses are loads, posted writes are buffered stores, and a
\* transfer that ends is a commit.
THEOREM ProcessorsSeeTotalStoreOrder ==
    ASSUME OwnIds, Repl = 2 => ~SetLock
    PROVE  Spec => TotalStoreOrder
<1>1. Right /\ [Next]_vars => Right'
  BY RightKept
<1>2. Right /\ Right' /\ [Next]_vars => [Promised!Next]_Promised!vars
  BY StepImplements
<1> QED BY <1>1, <1>2, InitRight, InitImplements, PTL DEF Spec, TotalStoreOrder, Promised!Spec
=============================================================================
