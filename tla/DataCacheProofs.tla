-------------------------- MODULE DataCacheProofs --------------------------
(***************************************************************************)
(* Proofs about a cache between its processor and the memory, for any      *)
(* number of sets, ways, words and tags, and every strategy in which the   *)
(* replacement stays within its set.                                       *)
(***************************************************************************)
EXTENDS DataCache, VectorCacheProofs

-----------------------------------------------------------------------------
(* The actions                                                             *)

\* TypeOK without the history, and what is true of the cache as a value
State ==
    /\ Sane(cache)
    /\ rand \in WayNrs
    /\ mode \in 0..3
    /\ mem \in Views

\* a step in which no line gets another tag
TagsStay ==
    \A i \in Indices, w \in WayNrs : cache'[i][w].atag = cache[i][w].atag

LEMMA HitKeeps ==
    ASSUME State, NEW tag \in Tags, NEW idx \in Indices, NEW word \in Words,
           LoadHit(tag, idx, word)
    PROVE  /\ State' /\ TagsStay
           /\ InSync => InSync'
           /\ Single(cache) => Single(cache)'
<1> DEFINE way == LocateLine(cache, idx, tag, word)
<1>1. way \in WayNrs
  BY Located DEF LoadHit, State, Sane
<1>2. cache' = Touch(cache, idx, way) /\ mode' = mode /\ mem' = mem /\ rand' = rand
  BY DEF LoadHit
<1>3. Sane(cache') /\ Fewer(cache', cache)
  BY <1>1, <1>2, TouchSane DEF State, Fewer, SameLine
<1>4. State'
  BY <1>2, <1>3 DEF State, Sane, WholeLines, Marks, Unlocked
<1>5. InSync => InSync'
  BY <1>2, <1>3, FewerKeeps DEF InSync, Sound, Searched
<1>6. Single(cache) => Single(cache)'
  <2>1. Single(cache) => Single(cache')
    BY <1>3, FewerKeeps
  <2> QED BY <2>1 DEF Single
<1>7. TagsStay
  BY <1>3 DEF TagsStay, Fewer
<1> QED BY <1>4, <1>5, <1>6, <1>7

\* The way a miss fills: the one found, or one that allocate_line takes.
LEMMA MissWay ==
    ASSUME Repl = 2 => ~SetLock, State, NEW tag \in Tags, NEW idx \in Indices,
           NEW word \in Words
    PROVE  LET found == LocateLine(cache, idx, tag, word)
               words == MissWords(word)
               way   == IF found # NoWay THEN found
                        ELSE AllocateWay(cache, idx, words, rand)
           IN  /\ way \in WayNrs
               /\ found # NoWay => cache[idx][way].atag = tag
               /\ NextRand(cache, idx, words, rand) \in WayNrs
               /\ found = NoWay /\ LineFetch /\ Repl # 1 =>
                      cache[idx][way].valid = {} \/ ~cache[idx][way].lock
               /\ ~Burst /\ Single(cache) =>
                      \A w \in WayNrs \ {way} :
                          cache[idx][w].atag = tag => word \notin GoodWords(cache[idx][w])
<1> DEFINE found == LocateLine(cache, idx, tag, word)
           words == MissWords(word)
<1>1. cache \in CacheType
  BY DEF State, Sane
<1>2. CASE found # NoWay
  <2>1. /\ found \in WayNrs
        /\ cache[idx][found].atag = tag
        /\ word \in GoodWords(cache[idx][found])
    BY <1>1, <1>2, Located
  <2>2. NextRand(cache, idx, words, rand) \in WayNrs
    BY MissWordsShape, AllocatedWay DEF State
  <2>3. Single(cache) => \A w \in WayNrs \ {found} :
            cache[idx][w].atag = tag => word \notin GoodWords(cache[idx][w])
    BY <2>1 DEF Single
  <2> QED BY <1>2, <2>1, <2>2, <2>3
<1>3. CASE found = NoWay
  <2>1. \A w \in WayNrs :
            cache[idx][w].atag = tag => word \notin GoodWords(cache[idx][w])
    BY <1>1, <1>3, Located
  <2> DEFINE way == AllocateWay(cache, idx, words, rand)
  <2>2. /\ way \in WayNrs
        /\ NextRand(cache, idx, words, rand) \in WayNrs
        /\ LineFetch /\ Repl # 1 => cache[idx][way].valid = {} \/ ~cache[idx][way].lock
    BY MissWordsShape, AllocatedWay DEF State
  <2> QED BY <1>3, <2>1, <2>2
<1> QED BY <1>2, <1>3

LEMMA MissKeeps ==
    ASSUME Repl = 2 => ~SetLock, State, NEW tag \in Tags, NEW idx \in Indices,
           NEW word \in Words, NEW forced \in BOOLEAN, LoadMiss(tag, idx, word, forced)
    PROVE  State' /\ (InSync => InSync') /\ (~Burst /\ Single(cache) => Single(cache)')
<1> DEFINE found == LocateLine(cache, idx, tag, word)
           words == MissWords(word)
           way   == IF found # NoWay THEN found ELSE AllocateWay(cache, idx, words, rand)
           data  == mem[tag][idx]
           u     == UpdateLine(cache, idx, way, tag, words, data)
<1>1. mode' = mode /\ mem' = mem /\ Searched
  BY DEF LoadMiss
<1>2. CASE UNCHANGED <<cache, rand>>
  BY <1>1, <1>2 DEF State, Sane, WholeLines, Marks, Unlocked, InSync, Searched, Single
<1>3. CASE /\ cache' = u
           /\ rand' = IF found # NoWay THEN rand ELSE NextRand(cache, idx, words, rand)
  <2>1. way \in WayNrs /\ NextRand(cache, idx, words, rand) \in WayNrs
    BY MissWay
  <2>2. words \in SUBSET Words /\ (LineFetch => words = Words)
        /\ (~LineFetch /\ ~Burst => words = {word})
    BY MissWordsShape
  <2>3. data \in Contents
    BY DEF State, Views
  <2>4. Sane(u)
    BY <2>1, <2>2, <2>3, Updated DEF State
  <2>5. State'
    BY <1>1, <1>3, <2>1, <2>4 DEF State, Sane, WholeLines, Marks, Unlocked
  <2>6. ASSUME InSync PROVE InSync'
    <3>1. Sound(cache, mem)
      BY <1>1, <2>6 DEF InSync, Sound
    <3>2. Sound(u, mem)
      BY <2>1, <2>2, <3>1, FillIsSound DEF State
    <3> HIDE DEF u
    <3> QED BY <1>1, <1>3, <3>2 DEF InSync, Sound, Searched
  <2>7. ASSUME ~Burst, Single(cache) PROVE Single(cache)'
    <3> DEFINE line == cache[idx][way]
    <3>1. \A w \in WayNrs \ {way} :
              cache[idx][w].atag = tag => word \notin GoodWords(cache[idx][w])
      BY <2>7, MissWay
    <3>2. line \in Line
      BY <2>1 DEF State, Sane, CacheType
    <3>3. GoodWords(Filled(line, tag, words, data)) =
              IF LineFetch THEN Words
              ELSE (IF line.atag = tag THEN line.valid ELSE {}) \cup words
      <4> HIDE DEF line, words, data
      <4> QED BY <2>2, <2>3, <3>2, FilledGood
    <3>4. ASSUME NEW w \in WayNrs \ {way}, cache[idx][w].atag = tag
          PROVE  GoodWords(cache[idx][w]) \cap GoodWords(Filled(line, tag, words, data)) = {}
      <4>1. word \notin GoodWords(cache[idx][w])
        BY <3>1, <3>4
      <4>2. CASE LineFetch
        BY <4>1, <4>2 DEF GoodWords
      <4>3. CASE ~LineFetch
        <5>1. line.atag = tag => GoodWords(cache[idx][w]) \cap line.valid = {}
          BY <2>1, <2>7, <3>4, <4>3 DEF Single, GoodWords
        <5> HIDE DEF line, words, way
        <5> QED BY <2>2, <2>7, <3>3, <4>1, <4>3, <5>1
      <4> QED BY <4>2, <4>3
    <3>5. Single(u)
      <4> HIDE DEF words, way, data
      <4> QED BY <2>1, <2>2, <2>3, <2>7, <3>4, FillIsSingle DEF State
    <3> HIDE DEF u
    <3> QED BY <1>3, <3>5 DEF Single
  <2> QED BY <2>5, <2>6, <2>7
<1> QED BY <1>2, <1>3 DEF LoadMiss

LEMMA WriteWrites ==
    ASSUME mem \in Views, NEW tag \in Tags, NEW idx \in Indices, NEW word \in Words,
           NEW val \in Values, Write(tag, idx, word, val)
    PROVE  /\ mem' \in Views
           /\ Written(mem, mem', tag, idx, word)
           /\ mem'[tag][idx][word] = val
<1>1. mem[tag] \in [Indices -> Contents] /\ mem[tag][idx] \in Contents
  BY DEF Views
<1>2. mem' = [mem EXCEPT ![tag] = [mem[tag] EXCEPT ![idx] =
                                      [mem[tag][idx] EXCEPT ![word] = val]]]
  BY DEF Write
<1>3. [mem[tag][idx] EXCEPT ![word] = val] \in Contents
  BY <1>1 DEF Contents
<1>4. mem' \in Views
  BY <1>1, <1>2, <1>3 DEF Views
<1>5. mem'[tag][idx][word] = val
  BY <1>1, <1>2 DEF Views, Contents
<1>6. Written(mem, mem', tag, idx, word)
  BY <1>1, <1>2 DEF Views, Contents, Written
<1> QED BY <1>4, <1>5, <1>6

LEMMA OtherWriteKeeps ==
    ASSUME State, NEW tag \in Tags, NEW idx \in Indices, NEW word \in Words,
           NEW val \in Values, OtherWrite(tag, idx, word, val)
    PROVE  /\ State' /\ TagsStay
           /\ InSync => InSync'
           /\ Single(cache) => Single(cache)'
<1> DEFINE u == SnoopInvalidate(cache, idx, tag, word)
<1>1. mem' \in Views /\ Written(mem, mem', tag, idx, word)
  BY WriteWrites DEF OtherWrite, State
<1>2. /\ Sane(u) /\ Fewer(u, cache)
      /\ \A w \in WayNrs : u[idx][w].atag = tag => word \notin GoodWords(u[idx][w])
  BY Snoops DEF State
<1>3. cache' = IF mode = 0 THEN cache ELSE u
  BY DEF OtherWrite
<1>4. rand' = rand /\ mode' = mode
  BY DEF OtherWrite
<1> HIDE DEF u
<1>5. State'
  <2>1. Sane(cache')
    BY <1>2, <1>3 DEF State
  <2> QED BY <1>1, <1>4, <2>1 DEF State, Sane, WholeLines, Marks, Unlocked
<1>6. ASSUME InSync PROVE InSync'
  <2> SUFFICES ASSUME Searched PROVE Sound(cache', mem')
    BY <1>4 DEF InSync, Sound, Searched
  <2>1. cache' = u
    BY <1>3 DEF Searched
  <2>2. Sound(cache, mem)
    BY <1>6 DEF InSync, Sound
  <2>3. Sound(u, mem)
    BY <1>2, <2>2, FewerKeeps
  <2> QED BY <1>1, <1>2, <2>1, <2>3, WrittenElsewhere
<1>7. ASSUME Single(cache) PROVE Single(cache)'
  <2>1. Single(cache')
    BY <1>2, <1>3, <1>7, FewerKeeps
  <2> QED BY <2>1 DEF Single
<1>8. TagsStay
  BY <1>2, <1>3 DEF TagsStay, Fewer
<1> QED BY <1>5, <1>6, <1>7, <1>8

LEMMA StoreKeeps ==
    ASSUME State, Single(cache), NEW tag \in Tags, NEW idx \in Indices,
           NEW word \in Words, NEW val \in Values, Store(tag, idx, word, val)
    PROVE  /\ State' /\ TagsStay
           /\ InSync => InSync'
           /\ Single(cache)'
<1> DEFINE way  == LocateLine(cache, idx, tag, word)
           u    == Stored(cache, idx, tag, word, val)
<1>1. mem' \in Views /\ Written(mem, mem', tag, idx, word) /\ mem'[tag][idx][word] = val
  BY WriteWrites DEF Store, State
<1>2. rand' = rand /\ mode' = mode
  BY DEF Store
<1>3. cache' = IF Searched /\ way # NoWay THEN u ELSE cache
  BY DEF Store, Stored
<1>4. CASE ~(Searched /\ way # NoWay)
  <2>1. cache' = cache
    BY <1>3, <1>4
  <2>2. State'
    BY <1>1, <1>2, <2>1 DEF State, Sane, WholeLines, Marks, Unlocked
  <2>3. ASSUME InSync PROVE InSync'
    <3> SUFFICES ASSUME Searched PROVE Sound(cache', mem')
      BY <1>2 DEF InSync, Sound, Searched
    <3>1. \A w \in WayNrs : cache[idx][w].atag = tag => word \notin GoodWords(cache[idx][w])
      BY <1>4, Located DEF State, Sane
    <3>2. Sound(cache, mem)
      BY <2>3 DEF InSync, Sound
    <3> QED BY <1>1, <2>1, <3>1, <3>2, WrittenElsewhere DEF State
  <2> QED BY <2>1, <2>2, <2>3 DEF Single, TagsStay
<1>5. CASE Searched /\ way # NoWay
  <2>1. /\ Sane(u) /\ Single(u)
        /\ \A i \in Indices, w \in WayNrs : u[i][w].atag = cache[i][w].atag
        /\ \A view1, view2 :
              /\ Sound(cache, view1)
              /\ Written(view1, view2, tag, idx, word)
              /\ view2[tag][idx][word] = val
              => Sound(u, view2)
    <3>1. Sane(cache) /\ LocateLine(cache, idx, tag, word) # NoWay
      BY <1>5 DEF State
    <3> QED BY <3>1, StoreHits
  <2>2. cache' = u
    BY <1>3, <1>5
  <2> HIDE DEF u
  <2>3. State'
    BY <1>1, <1>2, <2>1, <2>2 DEF State, Sane, WholeLines, Marks, Unlocked
  <2>4. InSync => InSync'
    <3>1. Sound(cache, mem) => Sound(u, mem')
      BY <1>1, <2>1
    <3> QED BY <1>2, <1>5, <2>2, <3>1 DEF InSync, Sound, Searched
  <2> QED BY <2>1, <2>2, <2>3, <2>4 DEF Single, TagsStay
<1> QED BY <1>4, <1>5

LEMMA ControlKeeps ==
    ASSUME State, NEW new \in 0..3, NEW fd \in BOOLEAN, WriteCcr(new, fd)
    PROVE  /\ State' /\ TagsStay
           /\ InSync => InSync'
           /\ Single(cache) => Single(cache)'
<1>1. /\ Sane(Flush(cache)) /\ Fewer(Flush(cache), cache)
      /\ \A i \in Indices, w \in WayNrs : GoodWords(Flush(cache)[i][w]) = {}
  BY Flushed DEF State
<1> DEFINE u == Flush(cache)
<1>2. /\ cache' = IF fd THEN u ELSE cache
      /\ mode' = new /\ rand' = rand /\ mem' = mem
      /\ new % 2 = 1 /\ ~Searched => fd
  BY DEF WriteCcr
<1> HIDE DEF u
<1>3. State'
  BY <1>1, <1>2 DEF State, Sane, WholeLines, Marks, Unlocked, u
<1>4. InSync => InSync'
  <2>1. CASE fd
    BY <1>1, <1>2, <2>1 DEF InSync, u
  <2>2. CASE ~fd
    BY <1>2, <2>2 DEF InSync, Searched
  <2> QED BY <2>1, <2>2
<1>5. ASSUME Single(cache) PROVE Single(cache)'
  <2>1. Single(cache')
    BY <1>1, <1>2, <1>5, FewerKeeps DEF u
  <2> QED BY <2>1 DEF Single
<1>6. TagsStay
  BY <1>1, <1>2 DEF TagsStay, Fewer, u
<1> QED BY <1>3, <1>4, <1>5, <1>6

LEMMA LockKeeps ==
    ASSUME State, NEW idx \in Indices, NEW way \in WayNrs, NEW lock \in BOOLEAN,
           LockLine(idx, way, lock)
    PROVE  /\ State' /\ TagsStay
           /\ InSync => InSync'
           /\ Single(cache) => Single(cache)'
<1> DEFINE line == cache[idx][way]
           bit  == SetLock /\ way # NWays - 1 /\ lock
           new  == [line EXCEPT !.atag = line.atag, !.lrr = 0, !.valid = line.valid,
                                !.lock = bit]
           u    == [cache EXCEPT ![idx][way] = new]
<1>1. cache \in CacheType /\ line \in Line
  BY DEF State, Sane, CacheType
<1>2. cache' = u /\ rand' = rand /\ mode' = mode /\ mem' = mem
  BY DEF LockLine, WriteCacheTag
<1>3. /\ new \in Line /\ new.lrr = 0
      /\ new.valid = line.valid /\ new.atag = line.atag /\ new.entry = line.entry
      /\ new.lock = bit
  <2>1. bit \in BOOLEAN
    BY VectorCacheAssumption
  <2> HIDE DEF line, bit
  <2>2. new.lrr = 0
    BY <1>1 DEF Line
  <2>3. new.valid = line.valid /\ new.atag = line.atag /\ new.entry = line.entry
    BY <1>1 DEF Line
  <2>4. new.lock = bit
    BY <1>1 DEF Line
  <2>5. new \in Line
    <3>1. new = [valid |-> line.valid, atag |-> line.atag, lrr |-> 0, lru |-> line.lru,
                 lock |-> bit, entry |-> line.entry]
      <4>1. new.lru = line.lru /\ new.lrr = 0 /\ new.atag = line.atag
        BY <1>1 DEF Line
      <4>2. new = [f \in {"valid", "atag", "lrr", "lru", "lock", "entry"} |-> new[f]]
        BY <1>1 DEF Line
      <4> HIDE DEF new
      <4> QED BY <2>2, <2>3, <2>4, <4>1, <4>2
    <3>2. /\ line.valid \in SUBSET Words /\ line.atag \in Tags /\ line.lru \in 0..MaxLru
          /\ line.entry \in Contents
      BY <1>1 DEF Line
    <3> HIDE DEF new
    <3> QED BY <2>1, <3>1, <3>2 DEF Line
  <2> QED BY <2>2, <2>3, <2>4, <2>5
<1> HIDE DEF new
<1>4. /\ u \in CacheType
      /\ u[idx][way] = new
      /\ \A i \in Indices, w \in WayNrs : i # idx \/ w # way => u[i][w] = cache[i][w]
  BY <1>1, <1>3 DEF CacheType
<1> HIDE DEF u
<1>5. Fewer(u, cache)
  BY <1>3, <1>4 DEF Fewer
<1>6. Sane(u)
  <2>1. WholeLines(u)
    BY <1>5 DEF State, Sane, WholeLines, Fewer
  <2>2. Marks(u)
    <3> SUFFICES ASSUME Repl = 2, NEW i \in Indices PROVE \E w \in WayNrs : u[i][w].lrr = 0
      BY DEF Marks
    <3>1. PICK w \in WayNrs : cache[i][w].lrr = 0
      BY DEF State, Sane, Marks
    <3>2. u[i][w].lrr = 0
      BY <1>3, <1>4, <3>1
    <3> QED BY <3>2
  <2>3. Unlocked(u)
    <3>1. Unlocked(cache) /\ NWays - 1 \in WayNrs
      BY Ways DEF State, Sane
    <3>2. ASSUME NEW i \in Indices, NEW w \in WayNrs, i # idx \/ w # way
          PROVE  u[i][w].lock = cache[i][w].lock
      BY <1>4, <3>2
    <3>3. u[idx][way].lock = bit
      BY <1>3, <1>4
    <3>4. ASSUME NEW i \in Indices
          PROVE  /\ ~u[i][NWays - 1].lock
                 /\ ~SetLock => \A w \in WayNrs : ~u[i][w].lock
      BY <3>1, <3>2, <3>3 DEF Unlocked
    <3> QED BY <3>4 DEF Unlocked
  <2> QED BY <1>4, <2>1, <2>2, <2>3 DEF Sane
<1>7. State'
  BY <1>2, <1>6 DEF State, Sane, WholeLines, Marks, Unlocked
<1>8. InSync => InSync'
  BY <1>2, <1>5, FewerKeeps DEF InSync, Sound, Searched
<1>9. ASSUME Single(cache) PROVE Single(cache)'
  <2>1. Single(cache')
    BY <1>2, <1>5, <1>9, FewerKeeps
  <2> QED BY <2>1 DEF Single
<1>10. TagsStay
  BY <1>2, <1>5 DEF TagsStay, Fewer
<1> QED BY <1>7, <1>8, <1>9, <1>10

-----------------------------------------------------------------------------
(* The theorems                                                            *)

\* The constructor makes an empty cache.
LEMMA Starts == Init => State /\ InSync /\ Single(cache)
<1> SUFFICES ASSUME Init PROVE State /\ InSync /\ Single(cache)
  OBVIOUS
<1>1. PICK tag \in Tags, data \in Contents : cache = EmptyCache(tag, data)
  BY DEF Init
<1>2. Sane(cache) /\ \A i \in Indices, w \in WayNrs : GoodWords(cache[i][w]) = {}
  BY <1>1, Emptied
<1>3. State
  BY <1>2, VectorCacheAssumption DEF State, Init, WayNrs, Views
<1> QED BY <1>2, <1>3 DEF InSync, Single

LEMMA StutterKeeps ==
    ASSUME UNCHANGED vars
    PROVE  /\ State => State'
           /\ InSync => InSync'
           /\ Single(cache) => Single(cache)'
BY DEF vars, State, Sane, WholeLines, Marks, Unlocked, InSync, Searched, Single

\* A load of an instruction or data cache.
LEMMA LoadsKeep ==
    ASSUME Repl = 2 => ~SetLock, State, Loads
    PROVE  State' /\ (InSync => InSync') /\ (~Burst /\ Single(cache) => Single(cache)')
<1>1. PICK tag \in Tags, idx \in Indices, word \in Words :
          LoadHit(tag, idx, word) \/ \E forced \in BOOLEAN : LoadMiss(tag, idx, word, forced)
  BY DEF Loads
<1>2. CASE LoadHit(tag, idx, word)
  BY <1>2, HitKeeps
<1>3. CASE \E forced \in BOOLEAN : LoadMiss(tag, idx, word, forced)
  BY <1>3, MissKeeps
<1> QED BY <1>1, <1>2, <1>3

\* What software does to either.
LEMMA SoftwareKeeps ==
    ASSUME State, Control \/ Locks
    PROVE  /\ State' /\ TagsStay
           /\ InSync => InSync'
           /\ Single(cache) => Single(cache)'
BY ControlKeeps, LockKeeps DEF Control, Locks

\* The invariant of a data cache: that its words are in sync depends on each being
\* in one place only, since a store updates the first way that matches.
DataInv == State /\ InSync /\ Single(cache)

LEMMA DataInvKept ==
    ASSUME ~Burst, Repl = 2 => ~SetLock
    PROVE  DataInv /\ [Next]_vars => DataInv'
<1> SUFFICES ASSUME DataInv, [Next]_vars PROVE DataInv'
  OBVIOUS
<1>1. CASE Loads
  BY <1>1, LoadsKeep DEF DataInv
<1>2. CASE Stores
  BY <1>2, StoreKeeps, OtherWriteKeeps DEF Stores, DataInv
<1>3. CASE Control \/ Locks
  BY <1>3, SoftwareKeeps DEF DataInv
<1>4. CASE UNCHANGED vars
  BY <1>4, StutterKeeps DEF DataInv
<1> QED BY <1>1, <1>2, <1>3, <1>4 DEF Next

\* A data cache that is looked at holds what the memory holds, and every word
\* once, whatever the processor, other masters and software do: for each number of
\* sets, ways and words and each strategy but LRR with lines that can be locked,
\* with which replacement_selector leaves its set.
THEOREM DataCacheCorrect ==
    ASSUME ~Burst, Repl = 2 => ~SetLock
    PROVE  Spec => [](InSync /\ OneCopy)
<1>1. Init => DataInv
  BY Starts DEF DataInv
<1>2. DataInv /\ [Next]_vars => DataInv'
  BY DataInvKept
<1>3. DataInv => InSync /\ OneCopy
  BY DEF DataInv, Single, OneCopy
<1> QED BY <1>1, <1>2, <1>3, PTL DEF Spec

\* Single by its other name: a store that updates the first way that matches reaches
\* every copy (locate_line, vectorcache.cpp:944).
THEOREM WordsAreSingle ==
    ASSUME ~Burst, Repl = 2 => ~SetLock
    PROVE  Spec => []OneCopy
<1>1. Spec => [](InSync /\ OneCopy)
  BY DataCacheCorrect
<1> QED BY <1>1, PTL

\* The history names pairs of ways.
Ordered == order \in [Indices -> SUBSET (WayNrs \X WayNrs)]

LEMMA UsedOrders ==
    ASSUME Ordered, NEW idx \in Indices, NEW way \in WayNrs
    PROVE  Used(idx, way) \in [Indices -> SUBSET (WayNrs \X WayNrs)]
<1> DEFINE kept == {p \in order[idx] : p[1] # way}
           new  == kept \cup ((WayNrs \ {way}) \X {way})
<1>1. kept \in SUBSET (WayNrs \X WayNrs)
  BY DEF Ordered
<1>2. (WayNrs \ {way}) \X {way} \in SUBSET (WayNrs \X WayNrs)
  OBVIOUS
<1>3. new \in SUBSET (WayNrs \X WayNrs)
  BY <1>1, <1>2
<1>4. Used(idx, way) = [order EXCEPT ![idx] = new]
  BY DEF Used
<1> HIDE DEF new
<1> QED BY <1>3, <1>4 DEF Ordered

LEMMA OrderKept ==
    ASSUME Repl = 2 => ~SetLock, State, Ordered, [Next]_vars
    PROVE  Ordered'
<1>1. CASE Loads
  <2>1. PICK tag \in Tags, idx \in Indices, word \in Words :
            LoadHit(tag, idx, word) \/ \E forced \in BOOLEAN : LoadMiss(tag, idx, word, forced)
    BY <1>1 DEF Loads
  <2>2. CASE LoadHit(tag, idx, word)
    <3>1. LocateLine(cache, idx, tag, word) \in WayNrs
      BY <2>2, Located DEF LoadHit, State, Sane
    <3> QED BY <2>2, <3>1, UsedOrders DEF LoadHit, Ordered
  <2>3. CASE \E forced \in BOOLEAN : LoadMiss(tag, idx, word, forced)
    <3> DEFINE found == LocateLine(cache, idx, tag, word)
               way   == IF found # NoWay THEN found
                        ELSE AllocateWay(cache, idx, MissWords(word), rand)
    <3>1. way \in WayNrs
      BY MissWay
    <3>2. order' = order \/ order' = Used(idx, way)
      BY <2>3 DEF LoadMiss
    <3> HIDE DEF way
    <3> QED BY <3>1, <3>2, UsedOrders DEF Ordered
  <2> QED BY <2>1, <2>2, <2>3
<1>2. CASE Stores
  <2>1. PICK tag \in Tags, idx \in Indices, word \in Words, val \in Values :
            Store(tag, idx, word, val) \/ OtherWrite(tag, idx, word, val)
    BY <1>2 DEF Stores
  <2>2. CASE Store(tag, idx, word, val)
    <3> DEFINE way == LocateLine(cache, idx, tag, word)
    <3>1. way = NoWay \/ way \in WayNrs
      BY Located DEF State, Sane
    <3>2. order' = order \/ (way # NoWay /\ order' = Used(idx, way))
      BY <2>2 DEF Store
    <3> HIDE DEF way
    <3> QED BY <3>1, <3>2, UsedOrders DEF Ordered
  <2>3. CASE OtherWrite(tag, idx, word, val)
    BY <2>3 DEF OtherWrite, Ordered
  <2> QED BY <2>1, <2>2, <2>3
<1>3. CASE Control \/ Locks
  BY <1>3 DEF Control, Locks, WriteCcr, LockLine, Ordered
<1>4. CASE UNCHANGED vars
  BY <1>4 DEF vars, Ordered
<1> QED BY <1>1, <1>2, <1>3, <1>4 DEF Next

\* The lines and counters of a cache stay in range: the LRU counters, which only
\* ever count down past others, never below zero (vectorcache.cpp:928).
THEOREM DataCacheTypes ==
    ASSUME ~Burst, Repl = 2 => ~SetLock
    PROVE  Spec => []TypeOK
<1>1. Init => DataInv /\ Ordered
  BY Starts DEF Init, Ordered, DataInv
<1>2. DataInv /\ Ordered /\ [Next]_vars => DataInv' /\ Ordered'
  BY DataInvKept, OrderKept DEF DataInv
<1>3. DataInv /\ Ordered => TypeOK
  BY DEF DataInv, State, Sane, Views, Ordered, TypeOK
<1> QED BY <1>1, <1>2, <1>3, PTL DEF Spec

\* The same of an instruction cache, with burst fetch of the rest of a line too.
THEOREM InstrCacheCorrect ==
    ASSUME Repl = 2 => ~SetLock
    PROVE  SpecInstr => []InSync
<1> DEFINE Inv == State /\ InSync
<1>1. Init => Inv
  BY Starts
<1>2. Inv /\ [NextInstr]_vars => Inv'
  <2> SUFFICES ASSUME Inv, [NextInstr]_vars PROVE Inv'
    OBVIOUS
  <2>1. CASE Loads
    BY <2>1, LoadsKeep
  <2>2. CASE Control \/ Locks
    BY <2>2, SoftwareKeeps
  <2>3. CASE UNCHANGED vars
    BY <2>3, StutterKeeps
  <2> QED BY <2>1, <2>2, <2>3 DEF NextInstr
<1> QED BY <1>1, <1>2, PTL DEF SpecInstr

\* And its types, the counters of its lines among them (vectorcache.cpp:928).
THEOREM InstrCacheTypes ==
    ASSUME Repl = 2 => ~SetLock
    PROVE  SpecInstr => []TypeOK
<1>1. Init => State /\ Ordered
  BY Starts DEF Init, Ordered
<1>2. State /\ Ordered /\ [NextInstr]_vars => State' /\ Ordered'
  <2> SUFFICES ASSUME State, Ordered, [NextInstr]_vars PROVE State' /\ Ordered'
    OBVIOUS
  <2>1. Ordered'
    BY OrderKept DEF Next, NextInstr
  <2>2. State'
    BY LoadsKeep, SoftwareKeeps, StutterKeeps DEF NextInstr
  <2> QED BY <2>1, <2>2
<1>3. State /\ Ordered => TypeOK
  BY DEF State, Sane, Views, Ordered, TypeOK
<1> QED BY <1>1, <1>2, <1>3, PTL DEF SpecInstr

-----------------------------------------------------------------------------
(* Locks                                                                   *)

\* A step evicts unlocked lines only.
LockedStep ==
    \A idx \in Indices, way \in WayNrs : Evicted(idx, way) => ~cache[idx][way].lock

\* An action that keeps the tags evicts nothing.
LEMMA NothingEvicted == TagsStay => LockedStep
BY DEF TagsStay, LockedStep, Evicted

\* A miss replaces an unlocked way.
LEMMA MissEvicts ==
    ASSUME LineFetch, Repl # 1, Repl = 2 => ~SetLock, State,
           NEW tag \in Tags, NEW idx \in Indices, NEW word \in Words,
           NEW forced \in BOOLEAN, LoadMiss(tag, idx, word, forced)
    PROVE  LockedStep
<1> DEFINE found == LocateLine(cache, idx, tag, word)
           words == MissWords(word)
           way   == IF found # NoWay THEN found ELSE AllocateWay(cache, idx, words, rand)
           data  == mem[tag][idx]
           u     == UpdateLine(cache, idx, way, tag, words, data)
<1>1. CASE UNCHANGED cache
  BY <1>1, NothingEvicted DEF TagsStay
<1>2. CASE cache' = u
  <2>1. /\ way \in WayNrs
        /\ found # NoWay => cache[idx][way].atag = tag
        /\ found = NoWay => cache[idx][way].valid = {} \/ ~cache[idx][way].lock
    BY MissWay
  <2>2. words \in SUBSET Words /\ data \in Contents
    BY MissWordsShape DEF State, Views
  <2>3. cache[idx][way] \in Line
    BY <2>1 DEF State, Sane, CacheType
  <2>4. /\ SameLine(u[idx][way], Filled(cache[idx][way], tag, words, data))
        /\ \A i \in Indices, w \in WayNrs :
               i # idx \/ w # way => SameLine(u[i][w], cache[i][w])
    BY <2>1, <2>2, Updated DEF State
  <2>5. Filled(cache[idx][way], tag, words, data).atag = tag
    BY <2>3 DEF Filled, Line
  <2> HIDE DEF u, way
  <2> QED BY <1>2, <2>1, <2>4, <2>5 DEF LockedStep, Evicted, SameLine, way
<1> QED BY <1>1, <1>2 DEF LoadMiss

\* A locked line remains in the cache until it is unlocked, if lines are fetched
\* whole and replaced at random, in a direct mapped cache, or by LRR without locks:
\* LRU looks for the lock in the wrong place, and a line that is filled word by
\* word can give its place to another before the lock is asked for.
THEOREM LockedLinesStay ==
    ASSUME ~Burst, LineFetch, Repl # 1, Repl = 2 => ~SetLock
    PROVE  Spec => LockedStays
<1>1. Init => DataInv
  BY Starts DEF DataInv
<1>2. DataInv /\ [Next]_vars => DataInv'
  BY DataInvKept
<1>3. DataInv /\ [Next]_vars => [LockedStep]_vars
  <2> SUFFICES ASSUME DataInv, Next PROVE LockedStep
    OBVIOUS
  <2> USE DEF DataInv
  <2>1. ASSUME NEW tag \in Tags, NEW idx \in Indices, NEW word \in Words,
               LoadHit(tag, idx, word)
        PROVE  LockedStep
    BY <2>1, HitKeeps, NothingEvicted
  <2>2. ASSUME NEW tag \in Tags, NEW idx \in Indices, NEW word \in Words,
               NEW forced \in BOOLEAN, LoadMiss(tag, idx, word, forced)
        PROVE  LockedStep
    BY <2>2, MissEvicts
  <2>3. CASE Stores
    BY <2>3, StoreKeeps, OtherWriteKeeps, NothingEvicted DEF Stores
  <2>4. CASE Control \/ Locks
    BY <2>4, SoftwareKeeps, NothingEvicted
  <2> QED BY <2>1, <2>2, <2>3, <2>4 DEF Next, Loads
<1>4. [LockedStep]_vars
      => [\A idx \in Indices, way \in WayNrs :
             Evicted(idx, way) => ~cache[idx][way].lock]_vars
  BY DEF LockedStep
<1> QED BY <1>1, <1>2, <1>3, <1>4, PTL DEF Spec, LockedStays

-----------------------------------------------------------------------------
(* The LRU order of two ways                                               *)

\* the bit that every fill sets
LastBit == IF LineFetch THEN 0 ELSE NWords - 1

Complete(c) ==
    \A i \in Indices, w \in WayNrs : c[i][w].valid # {} => LastBit \in c[i][w].valid

\* the counters say which way of a set was used last, as soon as one was
Ranked ==
    \A i \in Indices, way \in WayNrs, other \in WayNrs : other # way =>
        /\ cache[i][way].lru = 1 =>
               cache[i][other].lru = 0 /\ <<other, way>> \in order[i]
        /\ cache[i][way].valid # {} => cache[i][way].lru = 1 \/ cache[i][other].lru = 1

LruInv == Ordered /\ Ranked /\ Complete(cache)

\* the counters of a set after its way has been used, and of the other sets
Counted(u, c, idx, way) ==
    /\ u[idx][way].lru = 1
    /\ \A w \in WayNrs \ {way} :
           u[idx][w].lru = IF c[idx][w].lru > c[idx][way].lru
                           THEN c[idx][w].lru - 1 ELSE c[idx][w].lru
    /\ \A i \in Indices \ {idx} : u[i] = c[i]

\* The use of a way makes its counter the highest.
LEMMA LruCounts ==
    ASSUME NWays = 2, NEW ways \in [WayNrs -> Line], NEW used \in WayNrs
    PROVE  /\ LruUpdate(ways, used)[used].lru = 1
           /\ \A w \in WayNrs \ {used} :
                  LruUpdate(ways, used)[w].lru = IF ways[w].lru > ways[used].lru
                                                 THEN ways[w].lru - 1 ELSE ways[w].lru
<1>1. MaxLru = 1
  BY DEF MaxLru
<1>2. ASSUME NEW w \in WayNrs
      PROVE  LruUpdate(ways, used)[w].lru =
                 IF w = used THEN 1
                 ELSE IF ways[w].lru > ways[used].lru THEN ways[w].lru - 1 ELSE ways[w].lru
  <2>1. LruUpdate(ways, used)[w] =
            [ways[w] EXCEPT !.lru = IF w = used THEN MaxLru
                                    ELSE IF @ > ways[used].lru THEN @ - 1 ELSE @]
    BY DEF LruUpdate
  <2>2. ways[w] \in Line
    OBVIOUS
  <2> QED BY <1>1, <2>1, <2>2 DEF Line
<1> QED BY <1>2

\* A hit counts.
LEMMA TouchCounts ==
    ASSUME Repl = 1, NWays = 2, NEW c, Sane(c), NEW idx \in Indices, NEW way \in WayNrs
    PROVE  Counted(Touch(c, idx, way), c, idx, way)
<1>1. c \in CacheType /\ c[idx] \in [WayNrs -> Line]
  BY DEF Sane, CacheType
<1> DEFINE ways == LruUpdate(c[idx], way)
<1>2. Touch(c, idx, way) = [c EXCEPT ![idx] = ways]
  BY DEF Touch
<1>3. /\ ways[way].lru = 1
      /\ \A w \in WayNrs \ {way} :
             ways[w].lru = IF c[idx][w].lru > c[idx][way].lru
                           THEN c[idx][w].lru - 1 ELSE c[idx][w].lru
  BY <1>1, LruCounts
<1> HIDE DEF ways
<1> QED BY <1>1, <1>2, <1>3 DEF Counted, CacheType

\* So does an update of a line.
LEMMA UpdateCounts ==
    ASSUME Repl = 1, NWays = 2, NEW c, Sane(c), NEW idx \in Indices, NEW way \in WayNrs,
           NEW tag \in Tags, NEW words \in SUBSET Words, NEW data \in Contents
    PROVE  Counted(UpdateLine(c, idx, way, tag, words, data), c, idx, way)
<1> DEFINE line   == c[idx][way]
           new    == Filled(line, tag, words, data)
           filled == [c EXCEPT ![idx][way] = new]
           ways   == LruUpdate(filled[idx], way)
<1>1. line \in Line /\ c \in CacheType
  BY DEF Sane, CacheType
<1>2. new \in Line /\ new.lru = line.lru
  <2> HIDE DEF line
  <2>1. new \in Line
    BY <1>1, FilledShape
  <2>2. new.lru = line.lru
    BY <1>1 DEF Filled, Line
  <2> QED BY <2>1, <2>2
<1> HIDE DEF new
<1>3. filled \in CacheType /\ filled[idx] \in [WayNrs -> Line]
  BY <1>1, <1>2 DEF CacheType
<1>4. /\ \A w \in WayNrs : filled[idx][w].lru = c[idx][w].lru
      /\ \A i \in Indices \ {idx} : filled[i] = c[i]
  BY <1>1, <1>2 DEF CacheType
<1>5. UpdateLine(c, idx, way, tag, words, data) = [filled EXCEPT ![idx] = ways]
  <2>1. idx + 0 = idx
    BY VectorCacheAssumption DEF Indices
  <2>2. Slot(c, idx, way) = line
    BY <2>1, SlotInSet DEF Slot
  <2>3. UpdateLine(c, idx, way, tag, words, data) =
            [filled EXCEPT ![idx] =
                CASE Repl = 2 /\ line.atag # tag -> LrrUpdate(@, way)
                  [] Repl = 1 -> LruUpdate(@, way)
                  [] OTHER -> @]
    BY <2>1, <2>2, SlotInSet DEF UpdateLine, new
  <2> HIDE DEF filled, line
  <2> QED BY <2>3
<1> HIDE DEF filled
<1>6. /\ ways[way].lru = 1
      /\ \A w \in WayNrs \ {way} :
             ways[w].lru = IF filled[idx][w].lru > filled[idx][way].lru
                           THEN filled[idx][w].lru - 1 ELSE filled[idx][w].lru
  BY <1>3, LruCounts
<1> HIDE DEF ways
<1>7. [filled EXCEPT ![idx] = ways][idx] = ways
      /\ \A i \in Indices \ {idx} : [filled EXCEPT ![idx] = ways][i] = filled[i]
  BY <1>3 DEF CacheType
<1> QED BY <1>4, <1>5, <1>6, <1>7 DEF Counted

\* The order follows the counters when a way is used.
LEMMA UseRanks ==
    ASSUME NWays = 2, State, Ordered, Ranked, NEW idx \in Indices, NEW way \in WayNrs,
           Counted(cache', cache, idx, way), order' = Used(idx, way)
    PROVE  Ranked'
<1>1. WayNrs = {0, 1}
  BY DEF WayNrs
<1>2. \A i \in Indices, w \in WayNrs : cache[i][w].lru \in 0..1
  <2>1. MaxLru = 1
    BY DEF MaxLru
  <2> QED BY <2>1 DEF State, Sane, CacheType, Line
<1>3. /\ \A i \in Indices \ {idx} : order'[i] = order[i]
      /\ \A other \in WayNrs \ {way} : <<other, way>> \in order'[idx]
  <2> DEFINE new == {p \in order[idx] : p[1] # way} \cup ((WayNrs \ {way}) \X {way})
  <2>1. order' = [order EXCEPT ![idx] = new]
    BY DEF Used
  <2>2. \A other \in WayNrs \ {way} : <<other, way>> \in new
    OBVIOUS
  <2> HIDE DEF new
  <2> QED BY <2>1, <2>2 DEF Ordered
<1>4. ASSUME NEW other \in WayNrs \ {way} PROVE cache'[idx][other].lru = 0
  <2>1. cache'[idx][other].lru = IF cache[idx][other].lru > cache[idx][way].lru
                                 THEN cache[idx][other].lru - 1 ELSE cache[idx][other].lru
    BY DEF Counted
  <2>2. cache[idx][other].lru = 1 => cache[idx][way].lru = 0
    BY DEF Ranked
  <2>3. cache[idx][other].lru \in 0..1 /\ cache[idx][way].lru \in 0..1
    BY <1>2
  <2> QED BY <2>1, <2>2, <2>3
<1>5. ASSUME NEW i \in Indices, NEW a \in WayNrs, NEW b \in WayNrs, b # a
      PROVE  /\ cache'[i][a].lru = 1 => cache'[i][b].lru = 0 /\ <<b, a>> \in order'[i]
             /\ cache'[i][a].valid # {} => cache'[i][a].lru = 1 \/ cache'[i][b].lru = 1
  <2>1. CASE i # idx
    BY <1>3, <1>5, <2>1 DEF Counted, Ranked
  <2>2. CASE i = idx
    <3>1. a = way \/ b = way
      BY <1>1, <1>5
    <3> QED BY <1>3, <1>4, <1>5, <2>2, <3>1 DEF Counted
  <2> QED BY <2>1, <2>2
<1> QED BY <1>5 DEF Ranked

\* A step that uses no way leaves the order as it is.
LEMMA RestRanks ==
    ASSUME Ranked, order' = order,
           \A i \in Indices, w \in WayNrs : /\ cache'[i][w].lru = cache[i][w].lru
                                            /\ cache'[i][w].valid \subseteq cache[i][w].valid
    PROVE  Ranked'
BY DEF Ranked

\* A fill ends with the last word of the line.
LEMMA FillCompletes ==
    ASSUME NEW c, Sane(c), Complete(c), NEW idx \in Indices, NEW way \in WayNrs, NEW tag \in Tags,
           NEW words \in SUBSET Words, NEW data \in Contents, LineFetch \/ LastBit \in words
    PROVE  Complete(UpdateLine(c, idx, way, tag, words, data))
<1> DEFINE u == UpdateLine(c, idx, way, tag, words, data)
<1>1. /\ SameLine(u[idx][way], Filled(c[idx][way], tag, words, data))
      /\ \A i \in Indices, w \in WayNrs : i # idx \/ w # way => SameLine(u[i][w], c[i][w])
  BY Updated
<1>2. c[idx][way] \in Line
  BY DEF Sane, CacheType
<1>3. LastBit \in Filled(c[idx][way], tag, words, data).valid
  BY <1>2 DEF Filled, Line, LastBit
<1> HIDE DEF u
<1>4. Complete(u)
  <2>1. u[idx][way].valid = Filled(c[idx][way], tag, words, data).valid
    BY <1>1 DEF SameLine
  <2>2. \A i \in Indices, w \in WayNrs : i # idx \/ w # way => u[i][w].valid = c[i][w].valid
    BY <1>1 DEF SameLine
  <2> QED BY <1>3, <2>1, <2>2 DEF Complete
<1> QED BY <1>4 DEF u

\* The words of a miss reach to the end of the line, with burst fetch or a whole line.
LEMMA MissReachesEnd ==
    ASSUME LineFetch \/ Burst, NEW word \in Words
    PROVE  /\ LineFetch \/ LastBit \in MissWords(word)
           /\ LastBit \in ValidBits(MissWords(word))
BY VectorCacheAssumption DEF LastBit, MissWords, ValidBits, Words

\* a full set loses the way used longest ago
LruStep ==
    \A i \in Indices, way \in WayNrs :
        Evicted(i, way) => \A other \in WayNrs \ {way} : <<way, other>> \in order[i]

LEMMA NothingLost == TagsStay => LruStep
BY DEF TagsStay, LruStep, Evicted

\* allocate_line takes an empty way, or the one used longest ago.
LEMMA VictimIsOldest ==
    ASSUME Repl = 1, NWays = 2, LineFetch \/ Burst, State, LruInv,
           NEW idx \in Indices, NEW word \in Words, NEW way \in WayNrs,
           way = AllocateWay(cache, idx, MissWords(word), rand),
           cache[idx][way].valid # {}
    PROVE  \A other \in WayNrs \ {way} : <<way, other>> \in order[idx]
<1> DEFINE S    == Invalid(cache, idx, MissWords(word))
           idle == {w \in WayNrs : cache[idx][w].lru = 0}
<1>1. WayNrs = {0, 1} /\ WayNrs \subseteq 0..3
  BY DEF WayNrs
<1>2. \A w \in S : w \in WayNrs /\ cache[idx][w].valid = {}
  BY MissReachesEnd DEF Invalid, LruInv, Complete
<1>3. S = {}
  <2>1. S # {} => Min(S) \in S
    BY <1>1, <1>2, MinWay
  <2> QED BY <1>2, <2>1 DEF AllocateWay
<1>4. way = IF idle = {} THEN 0 ELSE Max(idle)
  BY <1>3 DEF AllocateWay, ReplacementSelector, SelectLru
<1>5. idle # {} => Max(idle) \in idle
  BY <1>1, MinWay
<1>6. ASSUME NEW other \in WayNrs \ {way} PROVE <<way, other>> \in order[idx]
  <2>1. cache[idx][way].lru = 1 \/ cache[idx][other].lru = 1
    BY <1>6 DEF LruInv, Ranked
  <2>2. cache[idx][way].lru # 1
    <3>1. CASE cache[idx][way].lru = 1
      <4>1. cache[idx][other].lru = 0
        BY <1>6, <3>1 DEF LruInv, Ranked
      <4>2. idle # {} /\ way \notin idle
        BY <1>6, <3>1, <4>1
      <4> QED BY <1>4, <1>5, <4>2
    <3> QED BY <3>1
  <2> QED BY <1>6, <2>1, <2>2 DEF LruInv, Ranked
<1> QED BY <1>6

\* A load keeps the order, and evicts the oldest line if any.
LEMMA LoadsInOrder ==
    ASSUME Repl = 1, NWays = 2, LineFetch \/ Burst, State, LruInv, Loads
    PROVE  Ranked' /\ Complete(cache)' /\ LruStep
<1>1. PICK tag \in Tags, idx \in Indices, word \in Words :
          LoadHit(tag, idx, word) \/ \E forced \in BOOLEAN : LoadMiss(tag, idx, word, forced)
  BY DEF Loads
<1>2. CASE LoadHit(tag, idx, word)
  <2> DEFINE way == LocateLine(cache, idx, tag, word)
  <2>1. way \in WayNrs
    BY <1>2, Located DEF LoadHit, State, Sane
  <2>2. cache' = Touch(cache, idx, way) /\ order' = Used(idx, way)
    BY <1>2 DEF LoadHit
  <2> HIDE DEF way
  <2>3. Counted(cache', cache, idx, way)
    BY <2>1, <2>2, TouchCounts DEF State
  <2>4. \A i \in Indices, w \in WayNrs : SameLine(cache'[i][w], cache[i][w])
    BY <2>1, <2>2, TouchSane DEF State
  <2>5. Ranked'
    BY <2>1, <2>2, <2>3, UseRanks DEF LruInv
  <2>6. Complete(cache)'
    BY <2>4 DEF LruInv, Complete, SameLine
  <2>7. LruStep
    BY <2>4 DEF LruStep, Evicted, SameLine
  <2> QED BY <2>5, <2>6, <2>7
<1>3. ASSUME NEW forced \in BOOLEAN, LoadMiss(tag, idx, word, forced)
      PROVE  Ranked' /\ Complete(cache)' /\ LruStep
  <2> DEFINE found == LocateLine(cache, idx, tag, word)
             words == MissWords(word)
             way   == IF found # NoWay THEN found ELSE AllocateWay(cache, idx, words, rand)
             data  == mem[tag][idx]
             u     == UpdateLine(cache, idx, way, tag, words, data)
  <2>1. CASE UNCHANGED <<cache, order>>
    <3>1. Ranked'
      BY <2>1, RestRanks DEF LruInv
    <3> QED BY <2>1, <3>1, NothingLost DEF LruInv, Complete, TagsStay
  <2>2. CASE cache' = u /\ order' = Used(idx, way)
    <3>1. /\ way \in WayNrs
          /\ found # NoWay => cache[idx][way].atag = tag
      BY MissWay
    <3>2. words \in SUBSET Words /\ data \in Contents /\ (LineFetch \/ LastBit \in words)
      BY MissWordsShape, MissReachesEnd DEF State, Views
    <3>3. found = NoWay => way = AllocateWay(cache, idx, words, rand)
      OBVIOUS
    <3> HIDE DEF way, data, found
    <3>4. Counted(u, cache, idx, way) /\ Complete(u)
      <4> HIDE DEF words
      <4> QED BY <3>1, <3>2, UpdateCounts, FillCompletes DEF State, LruInv
    <3>5. \A i \in Indices, w \in WayNrs : i # idx \/ w # way => SameLine(u[i][w], cache[i][w])
      <4> HIDE DEF words
      <4> QED BY <3>1, <3>2, Updated DEF State
    <3>6. SameLine(u[idx][way], Filled(cache[idx][way], tag, words, data))
      <4> HIDE DEF words
      <4> QED BY <3>1, <3>2, Updated DEF State
    <3>7. Filled(cache[idx][way], tag, words, data).atag = tag
      <4>1. cache[idx][way] \in Line
        BY <3>1 DEF State, Sane, CacheType
      <4> QED BY <4>1 DEF Filled, Line
    <3> HIDE DEF u
    <3>8. Ranked'
      BY <2>2, <3>1, <3>4, UseRanks DEF LruInv
    <3>9. ASSUME NEW i \in Indices, NEW w \in WayNrs, Evicted(i, w)
          PROVE  \A other \in WayNrs \ {w} : <<w, other>> \in order[i]
      <4>1. i = idx /\ w = way
        BY <2>2, <3>5, <3>9 DEF Evicted, SameLine
      <4>2. cache[idx][way].valid # {} /\ cache[idx][way].atag # tag
        BY <2>2, <3>6, <3>7, <3>9, <4>1 DEF Evicted, SameLine
      <4> QED BY <3>1, <3>3, <4>1, <4>2, VictimIsOldest
    <3> QED BY <2>2, <3>4, <3>8, <3>9 DEF LruStep
  <2> QED BY <1>3, <2>1, <2>2 DEF LoadMiss
<1> QED BY <1>1, <1>2, <1>3

\* Flushes and locks leave counters and order alone.
LEMMA SoftwareInOrder ==
    ASSUME State, LruInv, Control \/ Locks
    PROVE  Ranked' /\ Complete(cache)' /\ LruStep
<1>0. order' = order
  BY DEF Control, Locks, WriteCcr, LockLine
<1>1. \A i \in Indices, w \in WayNrs :
         /\ cache'[i][w].lru = cache[i][w].lru
         /\ cache'[i][w].valid = cache[i][w].valid \/ cache'[i][w].valid = {}
  <2>1. \A i \in Indices, w \in WayNrs : cache[i][w] \in Line
    BY DEF State, Sane, CacheType
  <2>2. ASSUME NEW new \in 0..3, NEW fd \in BOOLEAN, WriteCcr(new, fd),
               NEW i \in Indices, NEW w \in WayNrs
        PROVE  /\ cache'[i][w].lru = cache[i][w].lru
               /\ cache'[i][w].valid = cache[i][w].valid \/ cache'[i][w].valid = {}
    <3>1. cache' = cache \/ cache'[i][w] = [cache[i][w] EXCEPT !.valid = {}]
      BY <2>2 DEF WriteCcr, Flush
    <3> QED BY <2>1, <3>1 DEF Line
  <2>3. ASSUME NEW idx \in Indices, NEW way \in WayNrs, NEW lock \in BOOLEAN,
               LockLine(idx, way, lock), NEW i \in Indices, NEW w \in WayNrs
        PROVE  /\ cache'[i][w].lru = cache[i][w].lru
               /\ cache'[i][w].valid = cache[i][w].valid
    <3> DEFINE line == cache[idx][way]
               new  == [line EXCEPT !.atag = line.atag, !.lrr = 0, !.valid = line.valid,
                                    !.lock = SetLock /\ way # NWays - 1 /\ lock]
    <3>1. cache' = [cache EXCEPT ![idx][way] = new]
      BY <2>3 DEF LockLine, WriteCacheTag
    <3>2. new.lru = line.lru /\ new.valid = line.valid
      BY <2>1 DEF Line
    <3> HIDE DEF new
    <3> QED BY <3>1, <3>2 DEF State, Sane, CacheType
  <2> QED BY <2>2, <2>3 DEF Control, Locks
<1>2. Ranked'
  <2>1. \A i \in Indices, w \in WayNrs : cache'[i][w].valid \subseteq cache[i][w].valid
    BY <1>1
  <2> QED BY <1>0, <1>1, <2>1, RestRanks DEF LruInv
<1>3. Complete(cache)'
  BY <1>1 DEF LruInv, Complete
<1>4. LruStep
  BY SoftwareKeeps, NothingLost
<1> QED BY <1>2, <1>3, <1>4

\* A store counts as a use, and a snoop does not; neither evicts a line.
LEMMA StoresInOrder ==
    ASSUME Repl = 1, NWays = 2, LineFetch, State, Single(cache), LruInv, Stores
    PROVE  Ranked' /\ Complete(cache)' /\ LruStep
<1>1. PICK tag \in Tags, idx \in Indices, word \in Words, val \in Values :
          Store(tag, idx, word, val) \/ OtherWrite(tag, idx, word, val)
  BY DEF Stores
<1>2. \A i \in Indices, w \in WayNrs : cache[i][w] \in Line
  BY DEF State, Sane, CacheType
<1>3. LruStep
  BY <1>1, StoreKeeps, OtherWriteKeeps, NothingLost
<1>4. CASE Store(tag, idx, word, val)
  <2> DEFINE way  == LocateLine(cache, idx, tag, word)
             data == [w \in Words |-> val]
  <2>1. CASE UNCHANGED <<cache, order>>
    <3>1. Ranked'
      BY <2>1, RestRanks DEF LruInv
    <3> QED BY <1>3, <2>1, <3>1 DEF LruInv, Complete
  <2>2. CASE /\ way # NoWay /\ cache' = UpdateLine(cache, idx, way, tag, {word}, data)
             /\ order' = Used(idx, way)
    <3>1. way \in WayNrs
      BY <2>2, Located DEF State, Sane
    <3>2. data \in Contents /\ {word} \in SUBSET Words
      BY DEF Contents
    <3> HIDE DEF way, data
    <3>3. Counted(cache', cache, idx, way) /\ Complete(cache')
      BY <2>2, <3>1, <3>2, UpdateCounts, FillCompletes DEF State, LruInv
    <3>4. Ranked'
      BY <2>2, <3>1, <3>3, UseRanks DEF LruInv
    <3> QED BY <1>3, <3>3, <3>4
  <2> QED BY <1>4, <2>1, <2>2 DEF Store
<1>5. CASE OtherWrite(tag, idx, word, val)
  <2>1. \A i \in Indices, w \in WayNrs :
           cache'[i][w] = cache[i][w] \/ cache'[i][w] = [cache[i][w] EXCEPT !.valid = {}]
    <3>1. cache' = cache \/ cache' = SnoopInvalidate(cache, idx, tag, word)
      BY <1>5 DEF OtherWrite
    <3>2. ASSUME cache' = SnoopInvalidate(cache, idx, tag, word),
                 NEW i \in Indices, NEW w \in WayNrs
          PROVE  cache'[i][w] = cache[i][w] \/ cache'[i][w] = [cache[i][w] EXCEPT !.valid = {}]
      BY <3>2 DEF SnoopInvalidate, WithoutWord, State, Sane, CacheType
    <3> QED BY <3>1, <3>2
  <2>2. order' = order
    BY <1>5 DEF OtherWrite
  <2>3. ASSUME NEW i \in Indices, NEW w \in WayNrs
        PROVE  /\ cache'[i][w].lru = cache[i][w].lru
               /\ cache'[i][w].valid = cache[i][w].valid \/ cache'[i][w].valid = {}
    <3>1. PICK line \in Line : line = cache[i][w]
      BY <1>2
    <3>2. CASE cache'[i][w] = line
      BY <3>1, <3>2
    <3>3. CASE cache'[i][w] = [line EXCEPT !.valid = {}]
      BY <3>1, <3>3 DEF Line
    <3> QED BY <2>1, <3>1, <3>2, <3>3
  <2>4. Ranked'
    <3>1. \A i \in Indices, w \in WayNrs : cache'[i][w].valid \subseteq cache[i][w].valid
      BY <2>3
    <3> QED BY <2>2, <2>3, <3>1, RestRanks DEF LruInv
  <2>5. Complete(cache)'
    BY <2>3 DEF LruInv, Complete
  <2> QED BY <1>3, <2>4, <2>5
<1> QED BY <1>1, <1>4, <1>5

LEMMA StutterInOrder ==
    ASSUME LruInv, UNCHANGED vars
    PROVE  LruInv'
BY DEF vars, LruInv, Ordered, Ranked, Complete

\* At the start no way has been used, and none holds anything.
LEMMA LruStarts == Init => LruInv
<1> SUFFICES ASSUME Init PROVE LruInv
  OBVIOUS
<1>1. PICK tag \in Tags, data \in Contents : cache = EmptyCache(tag, data)
  BY DEF Init
<1>2. \A i \in Indices, w \in WayNrs : cache[i][w].lru = 0 /\ cache[i][w].valid = {}
  BY <1>1 DEF EmptyCache
<1>3. Ordered
  BY DEF Init, Ordered
<1> QED BY <1>2, <1>3 DEF LruInv, Ranked, Complete

\* An instruction cache of two ways that is filled to the end of its lines loses the
\* line used longest ago, however it was flushed, frozen or locked in between
\* (replacement_selector and lru_update, vectorcache.cpp:830).  With more ways, or if
\* single words are filled, it does not.
THEOREM OldestLineLeaves ==
    ASSUME Repl = 1, NWays = 2, LineFetch \/ Burst
    PROVE  SpecInstr => LruVictim
<1> DEFINE Inv == State /\ LruInv
<1>1. Init => Inv
  BY Starts, LruStarts
<1>2. Inv /\ [NextInstr]_vars => Inv' /\ [LruStep]_vars
  <2> SUFFICES ASSUME Inv, [NextInstr]_vars PROVE Inv' /\ [LruStep]_vars
    OBVIOUS
  <2>1. Ordered'
    BY OrderKept DEF Next, NextInstr, LruInv
  <2>2. State'
    BY LoadsKeep, SoftwareKeeps, StutterKeeps DEF NextInstr
  <2>3. CASE Loads
    BY <2>1, <2>2, <2>3, LoadsInOrder DEF LruInv
  <2>4. CASE Control \/ Locks
    BY <2>1, <2>2, <2>4, SoftwareInOrder DEF LruInv
  <2>5. CASE UNCHANGED vars
    BY <2>2, <2>5, StutterInOrder
  <2> QED BY <2>3, <2>4, <2>5 DEF NextInstr
<1>3. [LruStep]_vars
      => [\A idx \in Indices, way \in WayNrs :
             Evicted(idx, way) =>
                 \A other \in WayNrs \ {way} : <<way, other>> \in order[idx]]_vars
  BY DEF LruStep
<1> QED BY <1>1, <1>2, <1>3, PTL DEF SpecInstr, LruVictim

\* The same of a data cache whose lines are fetched whole; the snooping of other
\* masters empties lines and does not count as a use.
THEOREM OldestDataLineLeaves ==
    ASSUME Repl = 1, NWays = 2, LineFetch, ~Burst
    PROVE  Spec => LruVictim
<1> DEFINE Inv == DataInv /\ LruInv
<1>1. Init => Inv
  BY Starts, LruStarts DEF DataInv
<1>2. Inv /\ [Next]_vars => Inv' /\ [LruStep]_vars
  <2> SUFFICES ASSUME Inv, [Next]_vars PROVE Inv' /\ [LruStep]_vars
    OBVIOUS
  <2>1. Ordered'
    BY OrderKept DEF LruInv, DataInv
  <2>2. DataInv'
    BY DataInvKept
  <2>3. CASE Loads
    BY <2>1, <2>2, <2>3, LoadsInOrder DEF LruInv, DataInv
  <2>4. CASE Control \/ Locks
    BY <2>1, <2>2, <2>4, SoftwareInOrder DEF LruInv, DataInv
  <2>5. CASE Stores
    BY <2>1, <2>2, <2>5, StoresInOrder DEF LruInv, DataInv
  <2>6. CASE UNCHANGED vars
    BY <2>2, <2>6, StutterInOrder
  <2> QED BY <2>3, <2>4, <2>5, <2>6 DEF Next
<1>3. [LruStep]_vars
      => [\A idx \in Indices, way \in WayNrs :
             Evicted(idx, way) =>
                 \A other \in WayNrs \ {way} : <<way, other>> \in order[idx]]_vars
  BY DEF LruStep
<1> QED BY <1>1, <1>2, <1>3, PTL DEF Spec, LruVictim
=============================================================================
