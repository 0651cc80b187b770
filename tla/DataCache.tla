----------------------------- MODULE DataCache -----------------------------
(***************************************************************************)
(* One cache between its processor and the memory: the loads and stores of *)
(* the processor (vectorcache::mem_read, mem_write), the writes of other   *)
(* bus masters it snoops, and what software does to it through the cache   *)
(* control register and the diagnostic ASIs.  Here a memory access is one  *)
(* step; SnoopSystem has the bus in between.                               *)
(***************************************************************************)
EXTENDS VectorCache

CONSTANT Cacheable   \* tags of the areas the m_cached mask lets be cached

ASSUME DataCacheAssumption == Cacheable \subseteq Tags

VARIABLES
    cache,   \* cache_mem
    rand,    \* m_pseudo_rand, modulo the number of ways
    mode,    \* check_mode: the DCS or ICS field of the cache control register
    mem,     \* the memory behind the bus
    order    \* history: pairs of ways of each set, the second used after the first

vars == <<cache, rand, mode, mem, order>>

TypeOK ==
    /\ cache \in CacheType
    /\ rand \in WayNrs
    /\ mode \in 0..3
    /\ mem \in [Tags -> [Indices -> Contents]]
    /\ order \in [Indices -> SUBSET (WayNrs \X WayNrs)]

Init ==
    /\ \E tag \in Tags, data \in Contents : cache = EmptyCache(tag, data)
    /\ rand = 0
    /\ mode = 0
    /\ mem \in [Tags -> [Indices -> Contents]]
    /\ order = [i \in Indices |-> {p \in WayNrs \X WayNrs : p[1] < p[2]}]

Searched  == mode % 2 = 1   \* enabled (3) or frozen (1)
Allocates == mode = 3

Used(idx, way) ==
    [order EXCEPT ![idx] = {p \in @ : p[1] # way} \cup ((WayNrs \ {way}) \X {way})]

-----------------------------------------------------------------------------
(* The processor                                                           *)

LoadHit(tag, idx, word) ==
    LET way == LocateLine(cache, idx, tag, word)
    IN  /\ Searched
        /\ way # NoWay
        /\ cache' = Touch(cache, idx, way)
        /\ order' = Used(idx, way)
        /\ UNCHANGED <<rand, mode, mem>>

\* LoadMiss that looks for a place even when the line is in the cache
LoadMissTwice(tag, idx, word, forced) ==
    LET found == LocateLine(cache, idx, tag, word)
        words == MissWords(word)
        way   == AllocateWay(cache, idx, words, rand)
    IN  /\ Searched
        /\ found = NoWay \/ forced
        /\ Allocates /\ tag \in Cacheable
        /\ cache' = UpdateLine(cache, idx, way, tag, words, mem[tag][idx])
        /\ rand' = NextRand(cache, idx, words, rand)
        /\ order' = Used(idx, way)
        /\ UNCHANGED <<mode, mem>>

\* nothing found, or an ASI that forces a miss and refreshes what is found
LoadMiss(tag, idx, word, forced) ==
    LET found == LocateLine(cache, idx, tag, word)
        words == MissWords(word)
        way   == IF found # NoWay THEN found
                 ELSE AllocateWay(cache, idx, words, rand)
    IN  /\ Searched
        /\ found = NoWay \/ forced
        /\ IF found # NoWay \/ (Allocates /\ tag \in Cacheable)
           THEN /\ cache' = UpdateLine(cache, idx, way, tag, words, mem[tag][idx])
                /\ rand' = IF found # NoWay THEN rand
                           ELSE NextRand(cache, idx, words, rand)
                /\ order' = Used(idx, way)
           ELSE UNCHANGED <<cache, rand, order>>
        /\ UNCHANGED <<mode, mem>>

Write(tag, idx, word, val) == mem' = [mem EXCEPT ![tag][idx][word] = val]

\* Store that leaves the line it hits alone
StoreAround(tag, idx, word, val) ==
    Write(tag, idx, word, val) /\ UNCHANGED <<cache, rand, mode, order>>

\* write through, without allocation
Store(tag, idx, word, val) ==
    LET way == LocateLine(cache, idx, tag, word)
    IN  /\ IF Searched /\ way # NoWay
           THEN /\ cache' = UpdateLine(cache, idx, way, tag, {word},
                                       [w \in Words |-> val])
                /\ order' = Used(idx, way)
           ELSE UNCHANGED <<cache, order>>
        /\ Write(tag, idx, word, val)
        /\ UNCHANGED <<rand, mode>>

-----------------------------------------------------------------------------
(* The bus                                                                 *)

\* another master writes and snoopingCallBack is told; a cache whose mode is 0
\* does not look
OtherWrite(tag, idx, word, val) ==
    /\ Write(tag, idx, word, val)
    /\ cache' = IF mode = 0 THEN cache
                ELSE SnoopInvalidate(cache, idx, tag, word)
    /\ UNCHANGED <<rand, mode, order>>

-----------------------------------------------------------------------------
(* Software                                                                *)

\* write_ccr: FD flushes before the new mode counts.  Software sets FD when it
\* turns a cache on that missed stores while it was off.
WriteCcr(new, fd) ==
    /\ new % 2 = 1 /\ ~Searched => fd
    /\ cache' = IF fd THEN Flush(cache) ELSE cache
    /\ mode' = new
    /\ UNCHANGED <<rand, mem, order>>

\* a diagnostic write that sets or clears the lock bit of a line: the tag is
\* read, the bit changed, and the tag written
LockLine(idx, way, lock) ==
    LET line == cache[idx][way]
    IN  /\ cache' = WriteCacheTag(cache, idx, way, line.atag, line.lrr, lock, line.valid)
        /\ UNCHANGED <<rand, mode, mem, order>>

-----------------------------------------------------------------------------
Loads ==
    \E tag \in Tags, idx \in Indices, word \in Words :
        \/ LoadHit(tag, idx, word)
        \/ \E forced \in BOOLEAN : LoadMiss(tag, idx, word, forced)

Stores ==
    \E tag \in Tags, idx \in Indices, word \in Words, val \in Values :
        \/ Store(tag, idx, word, val)
        \/ OtherWrite(tag, idx, word, val)

Control == \E new \in 0..3, fd \in BOOLEAN : WriteCcr(new, fd)

Locks == \E idx \in Indices, way \in WayNrs, lock \in BOOLEAN : LockLine(idx, way, lock)

\* a data cache
Next == Loads \/ Stores \/ Control \/ Locks

Spec == Init /\ [][Next]_vars

\* an instruction cache: nothing writes what it holds
NextInstr == Loads \/ Control \/ Locks

SpecInstr == Init /\ [][NextInstr]_vars

-----------------------------------------------------------------------------
(* Properties                                                              *)

\* A cache that is looked at holds what the memory holds: a line that is filled
\* in part, evicted, hit by a store, snooped, or refreshed by a forced miss never
\* keeps a word of another line or an old value (mmu_cache.md 1.7: "kept in sync
\* with the main memory").
InSync ==
    Searched =>
        \A idx \in Indices, way \in WayNrs :
            LET line == cache[idx][way]
            IN  \A word \in GoodWords(line) :
                    line.entry[word] = mem[line.atag][idx][word]

\* A valid line is in one way of its set only, so that a store, which updates the
\* first way that matches, reaches every copy.
OneCopy ==
    \A idx \in Indices : \A way1, way2 \in WayNrs :
        /\ GoodWords(cache[idx][way1]) \cap GoodWords(cache[idx][way2]) # {}
        /\ cache[idx][way1].atag = cache[idx][way2].atag
        => way1 = way2

Evicted(idx, way) ==
    /\ cache[idx][way].valid # {}
    /\ cache'[idx][way].atag # cache[idx][way].atag

\* "Locked cache lines will be updated on read-miss and will remain in the cache
\* until the line is unlocked" (mmu_cache.md 1.7).
LockedStays ==
    [][\A idx \in Indices, way \in WayNrs :
          Evicted(idx, way) => ~cache[idx][way].lock]_vars

\* "LRU replaces the line, which hasn't been used for the longest time"
\* (vectorcache.cpp:830): a full set loses the way used longest ago.
LruVictim ==
    [][\A idx \in Indices, way \in WayNrs :
          Evicted(idx, way) =>
              \A other \in WayNrs \ {way} : <<way, other>> \in order[idx]]_vars
=============================================================================
