---------------------------- MODULE VectorCache ----------------------------
(***************************************************************************)
(* The tag and data store of the LEON3 caches (leon3/mmucache/vectorcache) *)
(* and the functions that look a line up, replace it and fill it.  A cache *)
(* is a value here, a function from set indices and ways to lines; the     *)
(* modules that extend this one keep it in a variable.                     *)
(*                                                                         *)
(* An address is cut into a tag, an index and a word within the line.  A   *)
(* tag and an index name a line of memory.  Bytes, the clock cycles and    *)
(* the statistics are left out.                                            *)
(***************************************************************************)
EXTENDS Integers, FiniteSets, FiniteSetsExt

CONSTANTS
    Tags,       \* the address tags in use
    NIdx,       \* m_number_of_vectors, the number of sets
    NWays,      \* m_sets + 1, lines in a set
    NWords,     \* m_wordsperline
    Values,     \* what a word can hold
    Repl,       \* m_repl: 0 direct mapped, 1 LRU, 2 LRR, 3 pseudo-random
    SetLock,    \* m_setlock: lines can be locked
    LineFetch,  \* m_new_linefetch_en: a miss fills the whole line
    Burst       \* m_burst_en and the IB bit: it fills the rest of the line

ASSUME VectorCacheAssumption ==
    /\ NIdx \in Nat \ {0}
    /\ NWays \in 1..4
    /\ NWords \in Nat \ {0}
    /\ Repl \in 0..3
    /\ Repl = 0 <=> NWays = 1
    /\ Repl = 2 => NWays = 2
    /\ SetLock \in BOOLEAN /\ LineFetch \in BOOLEAN /\ Burst \in BOOLEAN
    /\ Tags # {} /\ Values # {}

Indices == 0..(NIdx - 1)
WayNrs  == 0..(NWays - 1)
Words   == 0..(NWords - 1)
MaxLru  == <<0, 1, 3, 7>>[NWays]   \* m_max_lru: 2^m_sets - 1
NoWay   == -1

Contents == [Words -> Values]

\* t_cache_line; VALID is the set of its bits, one per word, or bit 0 alone
\* when lines are fetched whole
Line == [valid : SUBSET Words, atag : Tags, lrr : 0..1, lru : 0..MaxLru,
         lock : BOOLEAN, entry : Contents]

CacheType == [Indices -> [WayNrs -> Line]]

\* the cache the constructor makes, with whatever its tag and data hold
EmptyCache(tag, data) ==
    [i \in Indices |-> [way \in WayNrs |->
        [valid |-> {}, atag |-> tag, lrr |-> 0, lru |-> 0, lock |-> FALSE,
         entry |-> data]]]

\* the VALID bits that words stand for
ValidBits(words) == IF LineFetch THEN {0} ELSE words

\* the words of a line that VALID says are good
GoodWords(line) ==
    IF LineFetch THEN IF 0 \in line.valid THEN Words ELSE {} ELSE line.valid

\* lookup_line: the lines stand one after the other, a way past the last one of
\* its set is a way of the next set
Slot(cache, idx, way) == cache[idx + way \div NWays][way % NWays]

-----------------------------------------------------------------------------
(* locate_line and the words a read miss asks the memory for               *)

Matches(cache, idx, tag, word) ==
    {way \in WayNrs : /\ cache[idx][way].atag = tag
                      /\ ValidBits({word}) \subseteq cache[idx][way].valid}

LocateLine(cache, idx, tag, word) ==
    IF Matches(cache, idx, tag, word) = {} THEN NoWay
    ELSE Min(Matches(cache, idx, tag, word))

\* a line, the rest of the line, or one word
MissWords(word) ==
    IF LineFetch THEN Words ELSE IF Burst THEN word..(NWords - 1) ELSE {word}

-----------------------------------------------------------------------------
(* Replacement                                                             *)

\* LruUpdate that also counts down the lines below the used one
LruUpdateAll(ways, used) ==
    [way \in WayNrs |->
        [ways[way] EXCEPT !.lru = IF way = used THEN MaxLru ELSE @ - 1]]

LruUpdate(ways, used) ==
    [way \in WayNrs |->
        [ways[way] EXCEPT !.lru = IF way = used THEN MaxLru
                                  ELSE IF @ > ways[used].lru THEN @ - 1 ELSE @]]

\* LrrUpdate that leaves the mark of the other way
LrrUpdateKeepsMark(ways, used) == [ways EXCEPT ![used].lrr = 1]

\* the selected way is marked, the other one is not
LrrUpdate(ways, used) ==
    [way \in WayNrs |-> [ways[way] EXCEPT !.lrr = IF way = used THEN 1 ELSE 0]]

\* case 1: what the code reads as the lock bit is the LRU counter again, so that
\* only lines whose counter is zero qualify, and the last of them is taken
SelectLru(cache, idx) ==
    LET idle == {way \in WayNrs : cache[idx][way].lru = 0}
    IN  IF idle = {} THEN 0 ELSE Max(idle)

\* case 2: the loop goes on to way 2.  In the last set that is past the end of
\* the vector, and the model keeps the outcome where what is read there does not
\* look like a free line.
SelectLrr(cache, idx) ==
    LET seen == IF idx + 1 \in Indices THEN 0..2 ELSE 0..1
        free == {way \in seen : /\ Slot(cache, idx, way).lrr = 0
                                /\ ~Slot(cache, idx, way).lock}
    IN  IF free = {} THEN 1 ELSE Min(free)

\* RandomSteps that takes the next way, locked or not
RandomStepsAnyWay(cache, idx, rand) == 0

\* default: the first unlocked way from the running counter on
RandomSteps(cache, idx, rand) ==
    Min({n \in WayNrs : ~cache[idx][(rand + n) % NWays].lock})

ReplacementSelector(cache, idx, rand) ==
    CASE Repl = 0 -> 0
      [] Repl = 1 -> SelectLru(cache, idx)
      [] Repl = 2 -> SelectLrr(cache, idx)
      [] Repl = 3 -> (rand + RandomSteps(cache, idx, rand)) % NWays

\* lines of the set that hold none of the words to be filled
Invalid(cache, idx, words) ==
    {way \in WayNrs : ValidBits(words) \cap cache[idx][way].valid = {}}

\* allocate_line's choice
AllocateWay(cache, idx, words, rand) ==
    IF Invalid(cache, idx, words) # {} THEN Min(Invalid(cache, idx, words))
    ELSE ReplacementSelector(cache, idx, rand)

\* m_pseudo_rand modulo the number of ways, after that choice
NextRand(cache, idx, words, rand) ==
    IF Repl # 3 \/ Invalid(cache, idx, words) # {} THEN rand
    ELSE (rand + RandomSteps(cache, idx, rand) + 1) % NWays

-----------------------------------------------------------------------------
(* update_line: write words of data, a function on all words of a line, into *)
(* a way, and give the line its tag if it has another one                   *)

Filled(line, tag, words, data) ==
    [line EXCEPT
        !.atag  = tag,
        !.valid = IF LineFetch THEN {0}
                  ELSE (IF line.atag = tag THEN @ ELSE {}) \cup words,
        !.entry = [w \in Words |-> IF w \in words THEN data[w] ELSE @[w]]]

\* UpdateLine that keeps the VALID bits of the line it evicts
UpdateLineKeepsValid(cache, idx, way, tag, words, data) ==
    [cache EXCEPT ![idx][way] =
        [@ EXCEPT !.atag = tag, !.valid = @ \cup ValidBits(words),
                  !.entry = [w \in Words |-> IF w \in words THEN data[w] ELSE @[w]]]]

UpdateLine(cache, idx, way, tag, words, data) ==
    LET line   == Slot(cache, idx, way)
        filled == [cache EXCEPT ![idx + way \div NWays][way % NWays] =
                                    Filled(line, tag, words, data)]
    IN  [filled EXCEPT ![idx] =
            CASE Repl = 2 /\ line.atag # tag -> LrrUpdate(@, way)
              [] Repl = 1 -> LruUpdate(@, way)
              [] OTHER -> @]

\* Touch that leaves the counters alone
TouchNothing(cache, idx, way) == cache

\* a hit that only reads
Touch(cache, idx, way) ==
    IF Repl = 1 THEN [cache EXCEPT ![idx] = LruUpdate(@, way)] ELSE cache

-----------------------------------------------------------------------------
(* Control                                                                 *)

\* a line that loses a word, or all of them if lines are fetched whole
WithoutWord(line, word) ==
    [line EXCEPT !.valid = IF LineFetch THEN {} ELSE @ \ {word}]

\* snoop_invalidate for one word; the tag alone decides
SnoopInvalidate(cache, idx, tag, word) ==
    [cache EXCEPT ![idx] = [way \in WayNrs |->
        IF @[way].atag = tag THEN WithoutWord(@[way], word) ELSE @[way]]]

Flush(cache) ==
    [i \in Indices |-> [way \in WayNrs |-> [cache[i][way] EXCEPT !.valid = {}]]]

\* write_cache_tag: LRR gets bit 8 shifted out, which is 0; the last way is
\* never locked
WriteCacheTag(cache, idx, way, tag, lrr, lock, valid) ==
    [cache EXCEPT ![idx][way] =
        [@ EXCEPT !.atag = tag, !.lrr = 0, !.valid = valid,
                  !.lock = SetLock /\ way # NWays - 1 /\ lock]]
=============================================================================
