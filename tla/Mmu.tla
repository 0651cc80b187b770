-------------------------------- MODULE Mmu --------------------------------
(***************************************************************************)
(* The memory management unit of a LEON3 between its caches and the bus    *)
(* (src/gaisler/leon3/mmucache: mmu.cpp, tlb_adaptor.h), driven by one     *)
(* processor whose operating system writes the page tables.                *)
(*                                                                         *)
(* The caches are virtual: a load that hits never reaches the unit, a      *)
(* store updates the line first and is translated afterwards.  Every other *)
(* access walks the tables (the code that would hit in a look-aside buffer *)
(* is commented out), records a fault or goes on to the bus with the       *)
(* physical address.  The walk and the access are one action: the tables   *)
(* are written by this processor, and its writes and the reads of the walk *)
(* go through one FIFO (mmu_cache_base.cpp:837, 883).                      *)
(*                                                                         *)
(* Addresses are page numbers of three bits, one per level; a page is one  *)
(* word and a cache line.                                                  *)
(***************************************************************************)
EXTENDS Naturals, FiniteSets

CONSTANTS
    Pages,          \* virtual page numbers software uses
    Contexts,       \* values of the context register
    Tables,         \* page tables below the context table
    Initial,        \* what the tables hold at first: [Cells -> Entry]
    Writable,       \* the entries software writes: a set of <<cell, entry>>
    Values,         \* contents of a word of memory
    Cacheable,      \* physical pages whose bit of m_cached is set
    TlbSize,        \* m_itlbnum, m_dtlbnum
    Split,          \* m_tlb_type = 0: two buffers, not one
    DataAsis,       \* address spaces software uses for data
    MaxOps,         \* bound: writes to tables and registers
    MaxEvents,      \* bound: these writes, and different faults pending, together
    NoVal           \* no copy in the cache

Root == "context table"
Cells == ({Root} \X Contexts) \cup (Tables \X {0, 1})

\* entry types: 0 invalid, 1 descriptor of a table, 2 page entry, 3 reserved
PTD(table)       == [et |-> 1, table |-> table]
PTE(frame, perm) == [et |-> 2, frame |-> frame, perm |-> perm]
Invalid  == [et |-> 0]
Reserved == [et |-> 3]

Frames  == 0..7
Entries == {Invalid, Reserved} \cup {PTD(t) : t \in Tables}
             \cup {PTE(f, perm) : f \in Frames, perm \in 0..7}
Sides   == {"i", "d"}
Kinds   == {"fetch", "load", "store"}

\* The address spaces (ASI) that lead to memory through the unit.  An instruction is
\* fetched from 8 (user) or 9 (supervisor); software may ask for any of them for data:
\* 10 and 11 are the data spaces, 0, 1 and 3 force a load to miss.
FetchAsis == {8, 9}
Asis == {0, 1, 3, 8, 9, 10, 11}

ASSUME MmuAssumption ==
    /\ Pages \subseteq Frames
    /\ TlbSize \in 2..32
    /\ Split \in BOOLEAN
    /\ DataAsis \subseteq Asis
    /\ NoVal \notin Values
    /\ MaxOps \in Nat /\ MaxEvents \in Nat
    /\ Initial \in [Cells -> Entries]
    /\ Writable \subseteq Cells \X Entries

VARIABLES
    table,      \* the page tables in memory
    context,    \* MMU_CONTEXT_REG
    enabled,    \* MMU_CONTROL_REG, bit E
    noFault,    \* MMU_CONTROL_REG, bit NF
    fsr,        \* MMU_FAULT_STATUS_REG
    far,        \* MMU_FAULT_ADDRESS_REG
    tlb,        \* the virtual page numbers in each buffer
    cache,      \* the copies in the instruction and the data cache
    mem,        \* the words in memory
    ops,
    tidy,       \* history: nothing software has to flush a cache for since it did
    faults      \* history: the different faults since the status register was read

vars == <<table, context, enabled, noFault, fsr, far, tlb, cache, mem, ops, tidy, faults>>
registers == <<context, enabled, noFault>>

-----------------------------------------------------------------------------
(* The walk: get_physical_address()                                        *)

Index(va, level) == (va \div (CASE level = 1 -> 4 [] level = 2 -> 2 [] level = 3 -> 1)) % 2

\* the part of the address a page entry of this level leaves to the page
Offset(va, level) == va % (CASE level = 1 -> 4 [] level = 2 -> 2 [] level = 3 -> 1)

\* the bitwise or of two page numbers
Or(a, b) ==
    LET bit(k) == IF (a \div k) % 2 = 1 \/ (b \div k) % 2 = 1 THEN k ELSE 0
    IN  bit(4) + bit(2) + bit(1)

\* fault types: 1 invalid address, 2 protection, 3 privilege violation, 4 translation
Fault(level, ft) == [ok |-> FALSE, entry |-> FALSE, level |-> level, ft |-> ft, page |-> 0]
Found(va, level, entry) ==
    [ok |-> TRUE, entry |-> TRUE, level |-> level, perm |-> entry.perm,
     page |-> Or(entry.frame, Offset(va, level))]

\* A page entry in the context table is a fault, but an entry as well, which a
\* suppressed fault goes on with: the whole address is the offset.
RootPage(va, entry) ==
    [ok |-> FALSE, entry |-> TRUE, level |-> 0, ft |-> 4, page |-> Or(entry.frame, va)]

Third(va, e) ==
    CASE e.et = 0        -> Fault(3, 1)
      [] e.et = 2        -> Found(va, 3, e)
      [] e.et \in {1, 3} -> Fault(3, 4)

Second(va, e) ==
    CASE e.et = 0 -> Fault(2, 1)
      [] e.et = 1 -> Third(va, table[<<e.table, Index(va, 3)>>])
      [] e.et = 2 -> Found(va, 2, e)
      [] e.et = 3 -> Fault(2, 4)

First(va, e) ==
    CASE e.et = 0 -> Fault(1, 1)
      [] e.et = 1 -> Second(va, table[<<e.table, Index(va, 2)>>])
      [] e.et = 2 -> Found(va, 1, e)
      [] e.et = 3 -> Fault(1, 4)

Walk(va) ==
    LET e == table[<<Root, context>>]
    IN  CASE e.et = 0 -> Fault(0, 1)
          [] e.et = 1 -> First(va, table[<<e.table, Index(va, 1)>>])
          [] e.et = 2 -> RootPage(va, e)
          [] e.et = 3 -> Fault(0, 4)

\* two bits of the ASI; a data access with 0, 1, 8 or 9 counts as one to instructions
Supervisor(asi)  == asi % 2 = 1
Instruction(asi) == (asi \div 2) % 2 = 0

\* Mutant: users are taken for the supervisor.
SupervisorAccess(kind, asi) ==
    (IF kind = "store" THEN 4 ELSE 0) + (IF Instruction(asi) THEN 2 ELSE 0) + 1

\* the access type: store, instruction, supervisor
AccessType(kind, asi) ==
      (IF kind = "store" THEN 4 ELSE 0) + (IF Instruction(asi) THEN 2 ELSE 0)
    + (IF Supervisor(asi) THEN 1 ELSE 0)

\* access_table: the fault type for an access type and a permission field
AccessTable ==
    << <<0, 0, 0, 0, 2, 0, 3, 3>>,
       <<0, 0, 0, 0, 2, 0, 0, 0>>,
       <<2, 2, 0, 0, 0, 2, 3, 3>>,
       <<2, 2, 0, 0, 0, 2, 0, 0>>,
       <<2, 0, 2, 0, 2, 2, 3, 3>>,
       <<2, 0, 2, 0, 2, 0, 2, 0>>,
       <<2, 2, 2, 0, 2, 2, 3, 3>>,
       <<2, 2, 2, 0, 2, 2, 2, 0>> >>

\* access_perms2: what a permission field allows, by its own table
Allowed(perm, super) ==
    LET user       == <<{"R"}, {"R", "W"}, {"R", "X"}, {"R", "W", "X"}, {"X"}, {"R"}, {}, {}>>
        supervisor == <<{"R"}, {"R", "W"}, {"R", "X"}, {"R", "W", "X"}, {"X"}, {"R", "W"},
                        {"R", "X"}, {"R", "W", "X"}>>
    IN  IF super THEN supervisor[perm + 1] ELSE user[perm + 1]

\* what get_physical_address() returns: a page, and the fault of a refused access
Translated(va, at) ==
    LET walk == Walk(va)
        ft   == AccessTable[at + 1][walk.perm + 1]
    IN  [page  |-> walk.page, entry |-> walk.entry,
         ft    |-> IF walk.ok THEN ft ELSE walk.ft,
         level |-> IF walk.ok THEN 0 ELSE walk.level]

-----------------------------------------------------------------------------
(* The look-up: tlb_lookup() behind the two tlb_adaptors                   *)

NoFsr == [ow |-> FALSE, at |-> {}, ft |-> {}, level |-> {}, fav |-> FALSE]
Bits(n) == {b \in 0..2 : (n \div (2 ^ b)) % 2 = 1}

\* the fault status register only collects bits: |=, and OW when it was clear
Collected(at, res, asi) ==
    [ow    |-> fsr.ow \/ fsr = NoFsr,
     at    |-> fsr.at \cup Bits(at),
     ft    |-> fsr.ft \cup Bits(res.ft),
     level |-> fsr.level \cup Bits(res.level),
     fav   |-> fsr.fav \/ ~Instruction(asi)]

\* A fault traps unless NF is set, and always with ASI 9.
Traps(asi) == ~noFault \/ asi = 9

\* Mutant: a suppressed fault goes on without an entry.
PassesWithoutEntry(res, asi) == res.ft = 0 \/ ~Traps(asi)

\* A suppressed fault of an existing entry goes on as if it had been granted.
Passes(res, asi) == res.entry /\ (res.ft = 0 \/ ~Traps(asi))

\* tlb_remove() always takes the entry with the lowest page number: no hit ever
\* updates the history of LRU, and the counter of the random policy stays 0
Lowest(buffer) == CHOOSE va \in buffer : \A x \in buffer : va <= x

\* Mutant: nothing is removed, as random replacement would if its draw were not 0.
InsertedAnyway(buffer, va) == buffer \cup {va}

Inserted(buffer, va) ==
    (IF Cardinality(buffer) = TlbSize THEN buffer \ {Lowest(buffer)} ELSE buffer) \cup {va}

Buffer(kind) == IF Split /\ kind # "fetch" THEN "d" ELSE "i"

\* What a look-up comes to: whether to go on, where to, and the fault if there is one.
\* With E clear nothing is looked up.
Result(va, kind, asi) ==
    LET res == Translated(va, AccessType(kind, asi))
    IN  IF enabled
        THEN [passes |-> Passes(res, asi), page |-> res.page, ft |-> res.ft, level |-> res.level]
        ELSE [passes |-> TRUE, page |-> va, ft |-> 0, level |-> 0]

Report(va, at, result, asi) ==
    IF result.ft = 0
    THEN UNCHANGED <<fsr, far, faults>>
    ELSE /\ fsr' = Collected(at, result, asi)
         /\ far' = va
         /\ faults' = faults \cup
                {[at |-> at, ft |-> result.ft, level |-> result.level, va |-> va]}
         /\ ops + Cardinality(faults') <= MaxEvents

\* What a look-up leaves behind.
LookUp(va, kind, asi, result) ==
    /\ Report(va, AccessType(kind, asi), result, asi)
    /\ tlb' = IF enabled /\ result.passes
              THEN [tlb EXCEPT ![Buffer(kind)] = Inserted(@, va)] ELSE tlb

-----------------------------------------------------------------------------
(* The accesses of the processor                                           *)

Side(kind) == IF kind = "fetch" THEN "i" ELSE "d"

\* A load or a fetch that misses (a hit changes nothing and asks nobody): the line
\* is allocated when the access passed and the physical address is cacheable.
Miss(va, kind, asi) ==
    LET result == Result(va, kind, asi)
    IN  /\ cache[Side(kind)][va] = NoVal
        /\ LookUp(va, kind, asi, result)
        /\ cache' = IF result.passes /\ result.page \in Cacheable
                    THEN [cache EXCEPT ![Side(kind)][va] = mem[result.page]] ELSE cache
        /\ UNCHANGED <<registers, table, mem, ops, tidy>>

\* A load with ASI 0 to 3 misses always, and updates the line whatever came back.
Forced(va, asi) ==
    LET result == Result(va, "load", asi)
        line   == cache["d"][va]
    IN  /\ asi <= 3
        /\ line # NoVal
        /\ LookUp(va, "load", asi, result)
        /\ \E garbage \in Values :
              cache' = [cache EXCEPT !["d"][va] =
                            IF result.passes THEN mem[result.page] ELSE garbage]
        /\ tidy' = [tidy EXCEPT !["d"] = @ /\ result.passes]
        /\ UNCHANGED <<registers, table, mem, ops>>

\* A store updates the line first.  What the translation refuses is not written to
\* memory, and the line keeps it.
PageOf(va) == IF enabled THEN Walk(va).page ELSE va
Mapped(va) == enabled => Walk(va).entry

Others(va, page) == {x \in Pages \ {va} : cache["d"][x] # NoVal /\ Mapped(x) /\ PageOf(x) = page}

Store(va, asi, val) ==
    LET result == Result(va, "store", asi)
        hit    == cache["d"][va] # NoVal
    IN  /\ LookUp(va, "store", asi, result)
        /\ cache' = IF hit THEN [cache EXCEPT !["d"][va] = val] ELSE cache
        /\ mem' = IF result.passes THEN [mem EXCEPT ![result.page] = val] ELSE mem
        /\ tidy' = [i |-> tidy.i /\ mem' = mem,
                    d |-> tidy.d /\ (IF result.passes THEN Others(va, result.page) = {} ELSE ~hit)]
        /\ UNCHANGED <<registers, table, ops>>

-----------------------------------------------------------------------------
(* The operating system: tables through the bypass (ASI 0x1c), registers   *)
(* (ASI 0x19), flushes (ASI 0x15, 0x16, 0x18)                              *)

Op == ops < MaxOps /\ ops + Cardinality(faults) < MaxEvents /\ ops' = ops + 1

\* the caches are not told: what they hold may be of another translation now
Untidy == tidy' = [s \in Sides |-> \A va \in Pages : cache[s][va] = NoVal]

WriteTable(cell, entry) ==
    /\ Op
    /\ table' = [table EXCEPT ![cell] = entry]
    /\ Untidy
    /\ UNCHANGED <<registers, fsr, far, tlb, cache, mem, faults>>

WriteContext(c) ==
    /\ Op
    /\ context' = c
    /\ Untidy
    /\ UNCHANGED <<enabled, noFault, table, fsr, far, tlb, cache, mem, faults>>

WriteControl(e, nf) ==
    /\ Op
    /\ enabled' = e
    /\ noFault' = nf
    /\ Untidy
    /\ UNCHANGED <<context, table, fsr, far, tlb, cache, mem, faults>>

\* Mutant: reading the fault status register leaves it alone.
ReadStatusOnly ==
    /\ faults' = {}
    /\ UNCHANGED <<registers, table, fsr, far, tlb, cache, mem, ops, tidy>>

\* reading the fault status register clears it
ReadStatus ==
    /\ fsr' = NoFsr
    /\ faults' = {}
    /\ UNCHANGED <<registers, table, far, tlb, cache, mem, ops, tidy>>

FlushCache(s) ==
    /\ cache' = [cache EXCEPT ![s] = [va \in Pages |-> NoVal]]
    /\ tidy' = [tidy EXCEPT ![s] = TRUE]
    /\ UNCHANGED <<registers, table, fsr, far, tlb, mem, ops, faults>>

FlushTlb ==
    /\ tlb' = [s \in Sides |-> {}]
    /\ UNCHANGED <<registers, table, fsr, far, cache, mem, ops, tidy, faults>>

Init ==
    /\ table = Initial
    /\ context \in Contexts
    /\ enabled = FALSE
    /\ noFault = FALSE
    /\ fsr = NoFsr
    /\ far = 0
    /\ tlb = [s \in Sides |-> {}]
    /\ cache = [s \in Sides |-> [va \in Pages |-> NoVal]]
    /\ mem \in {[f \in Frames |-> v] : v \in Values}
    /\ ops = 0
    /\ tidy = [s \in Sides |-> TRUE]
    /\ faults = {}

Access ==
    \E va \in Pages :
        \/ \E asi \in FetchAsis : Miss(va, "fetch", asi)
        \/ \E asi \in DataAsis :
              \/ Miss(va, "load", asi)
              \/ Forced(va, asi)
              \/ \E val \in Values : Store(va, asi, val)

System ==
    \/ \E w \in Writable : WriteTable(w[1], w[2])
    \/ \E c \in Contexts : WriteContext(c)
    \/ \E e, nf \in BOOLEAN : WriteControl(e, nf)
    \/ \E s \in Sides : FlushCache(s)
    \/ ReadStatus \/ FlushTlb

Next == Access \/ System

Spec == Init /\ [][Next]_vars

-----------------------------------------------------------------------------
(* Properties                                                              *)

\* The types; a buffer never holds more entries than it has: tlb_lookup() inserts
\* after every walk, whether the page was there or not (tlb_lookup, mmu.cpp:633-656).
TypeOK ==
    /\ table \in [Cells -> Entries]
    /\ context \in Contexts
    /\ enabled \in BOOLEAN /\ noFault \in BOOLEAN
    /\ fsr \in [ow : BOOLEAN, at : SUBSET (0..2), ft : SUBSET (0..2),
                level : SUBSET (0..1), fav : BOOLEAN]
    /\ far \in Frames
    /\ tlb \in [Sides -> SUBSET Pages]
    /\ \A s \in Sides : Cardinality(tlb[s]) <= TlbSize
    /\ cache \in [Sides -> [Pages -> Values \cup {NoVal}]]
    /\ mem \in [Frames -> Values]
    /\ ops \in 0..MaxOps
    /\ tidy \in [Sides -> BOOLEAN]

\* As long as software flushes a cache after it changed the tables, the context or
\* the control register, after it wrote code, and uses one address for a page at a
\* time, and as long as no store to a cached page was refused, what a cache holds
\* for a virtual address is the word its translation leads to, although hits are
\* not translated (vectorcache.cpp:225-502, tlb_adaptor.h:52-100).
Honest ==
    \A s \in Sides, va \in Pages :
        tidy[s] /\ cache[s][va] # NoVal => Mapped(va) /\ cache[s][va] = mem[PageOf(va)]

\* The fault status register tells of every fault since it was read, and of nothing
\* else: no bit of an earlier fault is lost or left over, and the address is that of one
\* of them.  A single fault is thus told exactly; of several only the sums are known.
\* The address counts as valid once a fault was of a data space (mmu.cpp:576-595, 784-798).
FaultDescribed ==
    /\ fsr = [ow    |-> faults # {},
              at    |-> UNION {Bits(f.at) : f \in faults},
              ft    |-> UNION {Bits(f.ft) : f \in faults},
              level |-> UNION {Bits(f.level) : f \in faults},
              fav   |-> \E f \in faults : f.at \notin {2, 3, 6, 7}]
    /\ faults # {} => \E f \in faults : far = f.va

\* whether somebody who uses this address space may write to the page
MayWrite(va, asi) == Walk(va).ok /\ "W" \in Allowed(Walk(va).perm, Supervisor(asi))

\* With faults enabled, no step that changes memory is a store of somebody who may not
\* write to the page: not by the table that decides, but by the other one, which
\* get_physical_address() only warns by
\* (access_table, mmu.cpp:178-187, against access_perms2, 394-421).
StoresAllowed ==
    [][\A va \in Pages, asi \in DataAsis :
          mem' # mem /\ enabled /\ ~noFault /\ ~MayWrite(va, asi)
              => \A val \in Values : ~Store(va, asi, val)]_vars

\* A line follows memory: no store is seen by the cache and not by memory.
\* ("if not 0, tlb_lookup failed! -> no mem_write!", tlb_adaptor.h:91)
NoRefusedStoreCached ==
    [][\A va \in Pages :
          cache'["d"][va] \notin {NoVal, cache["d"][va]} =>
              cache'["d"][va] = mem'[PageOf(va)]]_vars
=============================================================================
