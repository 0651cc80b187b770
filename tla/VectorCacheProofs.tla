------------------------- MODULE VectorCacheProofs -------------------------
(***************************************************************************)
(* Lemmas about a cache as a value, for any number of sets, ways, words    *)
(* and tags, and every strategy in which the replacement stays within its  *)
(* set, whatever the cache is part of.                                     *)
(***************************************************************************)
EXTENDS VectorCache, TLAPS

-----------------------------------------------------------------------------
(* What is true of a cache as a value                                      *)

\* one bit stands for the line if lines are fetched whole
WholeLines(c) ==
    LineFetch => \A i \in Indices, w \in WayNrs : c[i][w].valid \subseteq {0}

\* a set whose ways are not all marked
Marks(c) ==
    Repl = 2 => \A i \in Indices : \E w \in WayNrs : c[i][w].lrr = 0

\* there is a way to replace: the last one of a set is never locked, and none is
\* if lines cannot be locked
Unlocked(c) ==
    \A i \in Indices : /\ ~c[i][NWays - 1].lock
                       /\ ~SetLock => \A w \in WayNrs : ~c[i][w].lock

\* the cache as a value, whatever the memory holds
Sane(c) ==
    /\ c \in CacheType
    /\ WholeLines(c)
    /\ Marks(c)
    /\ Unlocked(c)

\* each good word is the one the view of the memory has
Sound(c, view) ==
    \A i \in Indices, w \in WayNrs : \A word \in GoodWords(c[i][w]) :
        c[i][w].entry[word] = view[c[i][w].atag][i][word]

\* no word is in two ways
Single(c) ==
    \A i \in Indices : \A w1, w2 \in WayNrs :
        /\ GoodWords(c[i][w1]) \cap GoodWords(c[i][w2]) # {}
        /\ c[i][w1].atag = c[i][w2].atag
        => w1 = w2

Views == [Tags -> [Indices -> Contents]]

\* two lines that differ at most in their replacement history
SameLine(l1, l2) ==
    /\ l1.valid = l2.valid
    /\ l1.atag = l2.atag
    /\ l1.lock = l2.lock
    /\ l1.entry = l2.entry

-----------------------------------------------------------------------------
(* Lookup                                                                  *)

\* A non-empty set of ways has a smallest and a largest member.
LEMMA MinWay ==
    ASSUME NEW S \in SUBSET (0..3), S # {}
    PROVE  Min(S) \in S /\ Max(S) \in S
<1>1. \E x \in S : \A y \in S : x =< y
  <2>1. 0 \in S \/ 1 \in S \/ 2 \in S \/ 3 \in S
    <3>1. PICK n \in S : TRUE
      OBVIOUS
    <3>2. n \in 0..3 /\ (n = 0 \/ n = 1 \/ n = 2 \/ n = 3)
      BY <3>1
    <3> QED BY <3>1, <3>2
  <2> QED BY <2>1
<1>2. \E x \in S : \A y \in S : x >= y
  <2>1. 0 \in S \/ 1 \in S \/ 2 \in S \/ 3 \in S
    <3>1. PICK n \in S : TRUE
      OBVIOUS
    <3>2. n \in 0..3 /\ (n = 0 \/ n = 1 \/ n = 2 \/ n = 3)
      BY <3>1
    <3> QED BY <3>1, <3>2
  <2> QED BY <2>1
<1> QED BY <1>1, <1>2 DEF Min, Max

LEMMA Ways == WayNrs \subseteq 0..3 /\ NWays - 1 \in WayNrs /\ NoWay \notin WayNrs
BY VectorCacheAssumption DEF WayNrs, NoWay

LEMMA CounterRange == MaxLru \in Nat
<1>1. NWays = 1 \/ NWays = 2 \/ NWays = 3 \/ NWays = 4
  BY VectorCacheAssumption
<1> QED BY <1>1 DEF MaxLru

\* A word is good exactly if the VALID bits it needs are set.
LEMMA GoodIsValid ==
    ASSUME NEW line \in Line, NEW word \in Words
    PROVE  word \in GoodWords(line) <=> ValidBits({word}) \subseteq line.valid
BY DEF GoodWords, ValidBits, Line

\* locate_line returns a way that holds the word, or there is none.
LEMMA Located ==
    ASSUME NEW c \in CacheType, NEW idx \in Indices, NEW tag \in Tags, NEW word \in Words
    PROVE  /\ LocateLine(c, idx, tag, word) = NoWay =>
                  \A w \in WayNrs :
                      c[idx][w].atag = tag => word \notin GoodWords(c[idx][w])
           /\ LocateLine(c, idx, tag, word) # NoWay =>
                  /\ LocateLine(c, idx, tag, word) \in WayNrs
                  /\ c[idx][LocateLine(c, idx, tag, word)].atag = tag
                  /\ word \in GoodWords(c[idx][LocateLine(c, idx, tag, word)])
<1> DEFINE M == Matches(c, idx, tag, word)
<1>1. M \subseteq WayNrs
  BY DEF Matches
<1>2. M # {} => Min(M) \in M
  BY <1>1, Ways, MinWay
<1>3. \A w \in WayNrs : c[idx][w] \in Line
  BY DEF CacheType
<1>4. \A w \in WayNrs :
         w \in M <=> c[idx][w].atag = tag /\ word \in GoodWords(c[idx][w])
  BY <1>3, GoodIsValid DEF Matches
<1>5. LocateLine(c, idx, tag, word) = IF M = {} THEN NoWay ELSE Min(M)
  BY DEF LocateLine
<1> QED BY <1>1, <1>2, <1>4, <1>5, Ways

-----------------------------------------------------------------------------
(* Replacement                                                             *)

\* lookup_line with a way of the set is a line of the set.
LEMMA SlotInSet ==
    ASSUME NEW way \in WayNrs
    PROVE  way \div NWays = 0 /\ way % NWays = way
<1>1. NWays = 1 \/ NWays = 2 \/ NWays = 3 \/ NWays = 4
  BY VectorCacheAssumption
<1> QED BY <1>1 DEF WayNrs

\* The running counter reaches an unlocked way, and stops there.
LEMMA RandomFinds ==
    ASSUME NEW c \in CacheType, Unlocked(c), NEW idx \in Indices, NEW r \in WayNrs
    PROVE  /\ RandomSteps(c, idx, r) \in WayNrs
           /\ (r + RandomSteps(c, idx, r)) % NWays \in WayNrs
           /\ ~c[idx][(r + RandomSteps(c, idx, r)) % NWays].lock
<1> DEFINE S == {n \in WayNrs : ~c[idx][(r + n) % NWays].lock}
<1>1. \E n \in WayNrs : (r + n) % NWays = NWays - 1
  <2>1. NWays = 1 \/ NWays = 2 \/ NWays = 3 \/ NWays = 4
    BY VectorCacheAssumption
  <2>2. NWays - 1 - r \in WayNrs
    BY <2>1 DEF WayNrs
  <2>3. (r + (NWays - 1 - r)) % NWays = NWays - 1
    BY <2>1 DEF WayNrs
  <2> QED BY <2>2, <2>3
<1>2. S # {}
  BY <1>1 DEF Unlocked
<1>3. Min(S) \in S
  BY <1>2, Ways, MinWay
<1>4. \A n \in WayNrs : (r + n) % NWays \in WayNrs
  <2>1. NWays = 1 \/ NWays = 2 \/ NWays = 3 \/ NWays = 4
    BY VectorCacheAssumption
  <2> QED BY <2>1 DEF WayNrs
<1> QED BY <1>3, <1>4 DEF RandomSteps

\* replacement_selector stays within its set: with LRR as long as no line is
\* locked, because then one of the two marks is off.
LEMMA SelectedWay ==
    ASSUME Repl = 2 => ~SetLock, NEW c, Sane(c), NEW idx \in Indices, NEW r \in WayNrs
    PROVE  ReplacementSelector(c, idx, r) \in WayNrs
<1>1. CASE Repl = 0
  BY <1>1, VectorCacheAssumption DEF ReplacementSelector, WayNrs
<1>2. CASE Repl = 1
  <2> DEFINE idle == {way \in WayNrs : c[idx][way].lru = 0}
  <2>1. idle # {} => Max(idle) \in idle
    BY Ways, MinWay
  <2>2. 0 \in WayNrs
    BY VectorCacheAssumption DEF WayNrs
  <2> QED BY <1>2, <2>1, <2>2 DEF ReplacementSelector, SelectLru
<1>3. CASE Repl = 2
  <2> DEFINE seen == IF idx + 1 \in Indices THEN 0..2 ELSE 0..1
             free == {way \in seen : Slot(c, idx, way).lrr = 0 /\ ~Slot(c, idx, way).lock}
  <2>1. WayNrs = 0..1
    BY <1>3, VectorCacheAssumption DEF WayNrs
  <2>2. PICK w \in WayNrs : c[idx][w].lrr = 0 /\ ~c[idx][w].lock
    BY <1>3 DEF Sane, Marks, Unlocked
  <2>3. w \in free
    <3>1. idx + 0 = idx
      BY VectorCacheAssumption DEF Indices
    <3>2. Slot(c, idx, w) = c[idx][w]
      BY <3>1, SlotInSet DEF Slot
    <3> QED BY <2>1, <2>2, <3>2
  <2>4. free \subseteq 0..3
    OBVIOUS
  <2>5. \E x \in free : \A y \in free : x =< y
    <3>1. 0 \in free \/ 1 \in free \/ 2 \in free
      BY <2>3, <2>4, <2>1
    <3> QED BY <3>1, <2>4
  <2>6. Min(free) \in free /\ \A y \in free : Min(free) =< y
    BY <2>5 DEF Min
  <2>7. Min(free) =< w
    BY <2>3, <2>6
  <2>8. Min(free) \in 0..1
    BY <2>1, <2>4, <2>6, <2>7
  <2>9. SelectLrr(c, idx) = Min(free)
    BY <2>3 DEF SelectLrr
  <2> QED BY <1>3, <2>1, <2>8, <2>9 DEF ReplacementSelector
<1>4. CASE Repl = 3
  BY <1>4, RandomFinds DEF ReplacementSelector, Sane
<1> QED BY <1>1, <1>2, <1>3, <1>4, VectorCacheAssumption

\* allocate_line takes a way of the set, and with pseudo-random replacement of
\* whole lines one that is unlocked or empty.
LEMMA AllocatedWay ==
    ASSUME Repl = 2 => ~SetLock, NEW c, Sane(c), NEW idx \in Indices,
           NEW words \in SUBSET Words, NEW r \in WayNrs
    PROVE  /\ AllocateWay(c, idx, words, r) \in WayNrs
           /\ NextRand(c, idx, words, r) \in WayNrs
           /\ LineFetch /\ Repl # 1 =>
                  \/ c[idx][AllocateWay(c, idx, words, r)].valid = {}
                  \/ ~c[idx][AllocateWay(c, idx, words, r)].lock
<1> DEFINE S == Invalid(c, idx, words)
<1>1. S # {} => Min(S) \in S /\ Min(S) \in WayNrs
  BY Ways, MinWay DEF Invalid
<1>2. ReplacementSelector(c, idx, r) \in WayNrs
  BY SelectedWay
<1>3. AllocateWay(c, idx, words, r) \in WayNrs
  BY <1>1, <1>2 DEF AllocateWay
<1>4. NextRand(c, idx, words, r) \in WayNrs
  <2>1. NWays = 1 \/ NWays = 2 \/ NWays = 3 \/ NWays = 4
    BY VectorCacheAssumption
  <2>2. RandomSteps(c, idx, r) \in WayNrs
    BY RandomFinds DEF Sane
  <2>3. \A n \in WayNrs : (r + n + 1) % NWays \in WayNrs
    BY <2>1 DEF WayNrs
  <2> QED BY <2>2, <2>3 DEF NextRand
<1>5. ASSUME LineFetch, S # {}
      PROVE  c[idx][AllocateWay(c, idx, words, r)].valid = {}
  <2>1. Min(S) \in WayNrs /\ {0} \cap c[idx][Min(S)].valid = {}
    BY <1>1, <1>5 DEF Invalid, ValidBits
  <2>2. c[idx][Min(S)].valid \subseteq {0}
    BY <2>1, <1>5 DEF Sane, WholeLines
  <2> QED BY <1>5, <2>1, <2>2 DEF AllocateWay
<1>6. ASSUME Repl # 1, S = {}
      PROVE  ~c[idx][AllocateWay(c, idx, words, r)].lock
  <2>1. AllocateWay(c, idx, words, r) = ReplacementSelector(c, idx, r)
    BY <1>6 DEF AllocateWay
  <2>2. CASE Repl = 0
    <3>1. NWays - 1 = 0 /\ ReplacementSelector(c, idx, r) = 0
      BY <2>2, VectorCacheAssumption DEF ReplacementSelector
    <3> QED BY <2>1, <3>1 DEF Sane, Unlocked
  <2>3. CASE Repl = 2
    BY <2>1, <2>3, <1>2 DEF Sane, Unlocked
  <2>4. CASE Repl = 3
    BY <2>1, <2>4, RandomFinds DEF ReplacementSelector, Sane
  <2> QED BY <1>6, <2>2, <2>3, <2>4, VectorCacheAssumption
<1> QED BY <1>3, <1>4, <1>5, <1>6
-----------------------------------------------------------------------------
(* Updates                                                                 *)

\* The replacement strategies rewrite marks and counters of a set, nothing else.
LEMMA HistoryOnly ==
    ASSUME NEW ways \in [WayNrs -> Line], NEW used \in WayNrs
    PROVE  /\ LrrUpdate(ways, used) \in [WayNrs -> Line]
           /\ LruUpdate(ways, used) \in [WayNrs -> Line]
           /\ \A w \in WayNrs : /\ SameLine(LrrUpdate(ways, used)[w], ways[w])
                                /\ SameLine(LruUpdate(ways, used)[w], ways[w])
                                /\ LruUpdate(ways, used)[w].lrr = ways[w].lrr
                                /\ w # used => LrrUpdate(ways, used)[w].lrr = 0
<1>1. ASSUME NEW w \in WayNrs
      PROVE  /\ LrrUpdate(ways, used)[w] \in Line
             /\ LruUpdate(ways, used)[w] \in Line
             /\ SameLine(LrrUpdate(ways, used)[w], ways[w])
             /\ SameLine(LruUpdate(ways, used)[w], ways[w])
             /\ LruUpdate(ways, used)[w].lrr = ways[w].lrr
             /\ w # used => LrrUpdate(ways, used)[w].lrr = 0
  <2>1. ways[w] \in Line /\ ways[used] \in Line
    OBVIOUS
  <2>2. LrrUpdate(ways, used)[w] = [ways[w] EXCEPT !.lrr = IF w = used THEN 1 ELSE 0]
    BY DEF LrrUpdate
  <2>3. LruUpdate(ways, used)[w] =
            [ways[w] EXCEPT !.lru = IF w = used THEN MaxLru
                                    ELSE IF @ > ways[used].lru THEN @ - 1 ELSE @]
    BY DEF LruUpdate
  <2>4. MaxLru \in Nat
    BY CounterRange
  <2> QED BY <2>1, <2>2, <2>3, <2>4 DEF Line, SameLine
<1>2. /\ LrrUpdate(ways, used) = [w \in WayNrs |-> LrrUpdate(ways, used)[w]]
      /\ LruUpdate(ways, used) = [w \in WayNrs |-> LruUpdate(ways, used)[w]]
  BY DEF LrrUpdate, LruUpdate
<1> QED BY <1>1, <1>2

\* A filled line is a line.
LEMMA FilledShape ==
    ASSUME NEW line \in Line, NEW tag \in Tags, NEW words \in SUBSET Words,
           NEW data \in Contents
    PROVE  /\ Filled(line, tag, words, data) \in Line
           /\ Filled(line, tag, words, data).lrr = line.lrr
           /\ Filled(line, tag, words, data).lock = line.lock
           /\ LineFetch => Filled(line, tag, words, data).valid = {0}
<1>1. 0 \in Words
  BY VectorCacheAssumption DEF Words
<1>2. [w \in Words |-> IF w \in words THEN data[w] ELSE line.entry[w]] \in Contents
  BY DEF Contents, Line
<1> QED BY <1>1, <1>2 DEF Filled, Line

\* update_line with a way of the set changes the contents of that line only, and
\* leaves the cache sane.
LEMMA Updated ==
    ASSUME NEW c, Sane(c), NEW idx \in Indices, NEW way \in WayNrs, NEW tag \in Tags,
           NEW words \in SUBSET Words, NEW data \in Contents
    PROVE  LET u == UpdateLine(c, idx, way, tag, words, data)
           IN  /\ Sane(u)
               /\ SameLine(u[idx][way], Filled(c[idx][way], tag, words, data))
               /\ \A i \in Indices, w \in WayNrs :
                      i # idx \/ w # way => SameLine(u[i][w], c[i][w])
<1> DEFINE u      == UpdateLine(c, idx, way, tag, words, data)
           line   == c[idx][way]
           new    == Filled(line, tag, words, data)
           filled == [c EXCEPT ![idx][way] = new]
<1>1. line \in Line /\ c \in CacheType
  BY DEF Sane, CacheType
<1>2. new \in Line /\ new.lrr = line.lrr /\ new.lock = line.lock
      /\ (LineFetch => new.valid = {0})
  <2>1. line \in Line
    BY <1>1
  <2> HIDE DEF line, u, filled
  <2>2. words \in SUBSET Words
    OBVIOUS
  <2>3. new \in Line
    BY <2>1, <2>2, FilledShape
  <2>4. new.lrr = line.lrr /\ new.lock = line.lock
    BY <2>1, <2>2, FilledShape
  <2>5. LineFetch => new.valid = {0}
    BY <2>1, <2>2, FilledShape
  <2> QED BY <2>3, <2>4, <2>5
<1>3. filled \in CacheType
  BY <1>1, <1>2 DEF CacheType
<1>4. /\ filled[idx][way] = new
      /\ \A i \in Indices, w \in WayNrs : i # idx \/ w # way => filled[i][w] = c[i][w]
  BY <1>1 DEF CacheType
<1>5. u = [filled EXCEPT ![idx] =
              CASE Repl = 2 /\ line.atag # tag -> LrrUpdate(@, way)
                [] Repl = 1 -> LruUpdate(@, way)
                [] OTHER -> @]
  <2>1. idx + 0 = idx
    BY VectorCacheAssumption DEF Indices
  <2>2. Slot(c, idx, way) = line
    BY <2>1, SlotInSet DEF Slot
  <2> QED BY <2>1, <2>2, SlotInSet DEF UpdateLine
<1>6. filled[idx] \in [WayNrs -> Line]
  BY <1>3 DEF CacheType
<1>7. /\ u[idx] \in [WayNrs -> Line]
      /\ \A w \in WayNrs : SameLine(u[idx][w], filled[idx][w])
      /\ u \in CacheType
      /\ \A i \in Indices : i # idx => u[i] = filled[i]
  <2>1. CASE Repl = 2 /\ line.atag # tag
    <3> DEFINE ways == LrrUpdate(filled[idx], way)
    <3>1. u = [filled EXCEPT ![idx] = ways]
      BY <1>5, <2>1
    <3>2. ways \in [WayNrs -> Line]
          /\ \A w \in WayNrs : SameLine(ways[w], filled[idx][w])
      BY <1>6, HistoryOnly
    <3> HIDE DEF ways, u, filled
    <3> QED BY <1>3, <3>1, <3>2 DEF CacheType
  <2>2. CASE Repl = 1
    <3> DEFINE ways == LruUpdate(filled[idx], way)
    <3>1. u = [filled EXCEPT ![idx] = ways]
      BY <1>5, <2>2
    <3>2. ways \in [WayNrs -> Line]
          /\ \A w \in WayNrs : SameLine(ways[w], filled[idx][w])
      BY <1>6, HistoryOnly
    <3> HIDE DEF ways, u, filled
    <3> QED BY <1>3, <3>1, <3>2 DEF CacheType
  <2>3. CASE ~(Repl = 2 /\ line.atag # tag) /\ Repl # 1
    <3>1. u = filled
      BY <1>3, <1>5, <2>3 DEF CacheType
    <3> QED BY <1>3, <1>6, <3>1 DEF SameLine
  <2> QED BY <2>1, <2>2, <2>3
<1>8. \A i \in Indices, w \in WayNrs : SameLine(u[i][w], filled[i][w])
  BY <1>7 DEF SameLine
<1>9. SameLine(u[idx][way], new)
      /\ \A i \in Indices, w \in WayNrs : i # idx \/ w # way => SameLine(u[i][w], c[i][w])
  BY <1>4, <1>8
<1>10. WholeLines(u)
  BY <1>2, <1>9 DEF Sane, WholeLines, SameLine
<1>11. Unlocked(u)
  <2>1. \A i \in Indices, w \in WayNrs : u[i][w].lock = c[i][w].lock
    BY <1>2, <1>9 DEF SameLine
  <2> QED BY <2>1, Ways DEF Sane, Unlocked
<1>12. Marks(u)
  <2> SUFFICES ASSUME Repl = 2, NEW i \in Indices PROVE \E w \in WayNrs : u[i][w].lrr = 0
    BY DEF Marks
  <2>1. WayNrs = {0, 1}
    BY VectorCacheAssumption DEF WayNrs
  <2>2. \A w \in WayNrs : filled[i][w].lrr = c[i][w].lrr
    BY <1>2, <1>4
  <2>3. CASE i = idx /\ line.atag # tag
    <3>1. u[idx] = LrrUpdate(filled[idx], way)
      BY <1>3, <1>5, <2>3 DEF CacheType
    <3>2. PICK other \in WayNrs : other # way
      BY <2>1
    <3> QED BY <1>6, <2>3, <3>1, <3>2, HistoryOnly
  <2>4. CASE ~(i = idx /\ line.atag # tag)
    <3>1. u[i] = filled[i]
      BY <1>3, <1>5, <2>4 DEF CacheType
    <3> QED BY <2>2, <3>1 DEF Sane, Marks
  <2> QED BY <2>3, <2>4
<1> QED BY <1>7, <1>9, <1>10, <1>11, <1>12 DEF Sane

-----------------------------------------------------------------------------
(* Contents                                                                *)

\* u has the lines of c, perhaps with fewer good words
Fewer(u, c) ==
    \A i \in Indices, w \in WayNrs :
        /\ u[i][w].valid \subseteq c[i][w].valid
        /\ u[i][w].atag = c[i][w].atag
        /\ u[i][w].entry = c[i][w].entry

\* Taking VALID bits away does no harm.
LEMMA FewerKeeps ==
    ASSUME NEW c, NEW u, Fewer(u, c)
    PROVE  /\ \A view : Sound(c, view) => Sound(u, view)
           /\ Single(c) => Single(u)
<1>1. \A i \in Indices, w \in WayNrs : GoodWords(u[i][w]) \subseteq GoodWords(c[i][w])
  BY DEF Fewer, GoodWords
<1>2. ASSUME NEW view, Sound(c, view) PROVE Sound(u, view)
  BY <1>1, <1>2 DEF Fewer, Sound
<1>3. ASSUME Single(c) PROVE Single(u)
  BY <1>1, <1>3 DEF Fewer, Single
<1> QED BY <1>2, <1>3

\* The good words of a line that is filled.
LEMMA FilledGood ==
    ASSUME NEW line \in Line, NEW tag \in Tags, NEW words \in SUBSET Words,
           NEW data \in Contents
    PROVE  GoodWords(Filled(line, tag, words, data)) =
               IF LineFetch THEN Words
               ELSE (IF line.atag = tag THEN line.valid ELSE {}) \cup words
BY DEF GoodWords, Filled, Line

\* A line filled from the memory is sound: a word is new, or it was good under
\* the same tag before.
LEMMA FillIsSound ==
    ASSUME NEW c, Sane(c), NEW view \in Views, Sound(c, view),
           NEW idx \in Indices, NEW way \in WayNrs, NEW tag \in Tags,
           NEW words \in SUBSET Words, LineFetch => words = Words
    PROVE  Sound(UpdateLine(c, idx, way, tag, words, view[tag][idx]), view)
<1> DEFINE data == view[tag][idx]
           u    == UpdateLine(c, idx, way, tag, words, data)
           line == c[idx][way]
           new  == Filled(line, tag, words, data)
<1>1. data \in Contents /\ line \in Line
  BY DEF Views, Sane, CacheType
<1>2. /\ SameLine(u[idx][way], new)
      /\ \A i \in Indices, w \in WayNrs : i # idx \/ w # way => SameLine(u[i][w], c[i][w])
  BY <1>1, Updated
<1>3. new.atag = tag /\ new.entry = [w \in Words |-> IF w \in words THEN data[w] ELSE line.entry[w]]
  BY <1>1 DEF Filled, Line
<1>4. ASSUME NEW word \in GoodWords(new) PROVE new.entry[word] = data[word]
  <2>1. GoodWords(new) = IF LineFetch THEN Words
                         ELSE (IF line.atag = tag THEN line.valid ELSE {}) \cup words
    <3> HIDE DEF line, data
    <3> QED BY <1>1, FilledGood
  <2>2. word \in Words
    BY <1>1, <1>4, <2>1 DEF Line
  <2>3. CASE word \in words
    BY <1>3, <2>2, <2>3
  <2>4. CASE word \notin words
    <3>1. ~LineFetch /\ line.atag = tag /\ word \in line.valid
      BY <1>4, <2>1, <2>2, <2>4
    <3>2. line.entry[word] = view[tag][idx][word]
      BY <3>1 DEF Sound, GoodWords
    <3> QED BY <1>3, <2>2, <2>4, <3>2
  <2> QED BY <2>3, <2>4
<1> SUFFICES ASSUME NEW i \in Indices, NEW w \in WayNrs, NEW word \in GoodWords(u[i][w])
             PROVE  u[i][w].entry[word] = view[u[i][w].atag][i][word]
  BY DEF Sound
<1>5. CASE i = idx /\ w = way
  <2>1. GoodWords(u[i][w]) = GoodWords(new)
    BY <1>2, <1>5 DEF GoodWords, SameLine
  <2>2. u[i][w].entry = new.entry /\ u[i][w].atag = tag
    BY <1>2, <1>3, <1>5 DEF SameLine
  <2> QED BY <1>4, <1>5, <2>1, <2>2
<1>6. CASE ~(i = idx /\ w = way)
  <2>1. SameLine(u[i][w], c[i][w])
    BY <1>2, <1>6
  <2> HIDE DEF u
  <2> QED BY <2>1 DEF Sound, GoodWords, SameLine
<1> QED BY <1>5, <1>6

\* A line may be filled if no other way has one of its good words.
LEMMA FillIsSingle ==
    ASSUME NEW c, Sane(c), Single(c), NEW idx \in Indices, NEW way \in WayNrs,
           NEW tag \in Tags, NEW words \in SUBSET Words, NEW data \in Contents,
           \A w \in WayNrs \ {way} :
               c[idx][w].atag = tag =>
                   GoodWords(c[idx][w])
                       \cap GoodWords(Filled(c[idx][way], tag, words, data)) = {}
    PROVE  Single(UpdateLine(c, idx, way, tag, words, data))
<1> DEFINE u    == UpdateLine(c, idx, way, tag, words, data)
           line == c[idx][way]
           new  == Filled(line, tag, words, data)
<1>1. line \in Line
  BY DEF Sane, CacheType
<1>2. /\ SameLine(u[idx][way], new)
      /\ \A i \in Indices, w \in WayNrs : i # idx \/ w # way => SameLine(u[i][w], c[i][w])
  BY Updated
<1>3. new.atag = tag
  BY <1>1 DEF Filled, Line
<1>4. \A i \in Indices, w \in WayNrs :
         GoodWords(u[i][w]) = IF i = idx /\ w = way THEN GoodWords(new) ELSE GoodWords(c[i][w])
  BY <1>2 DEF SameLine, GoodWords
<1>5. \A i \in Indices, w \in WayNrs :
         u[i][w].atag = IF i = idx /\ w = way THEN tag ELSE c[i][w].atag
  BY <1>2, <1>3 DEF SameLine
<1> HIDE DEF u, new
<1> SUFFICES ASSUME NEW i \in Indices, NEW w1 \in WayNrs, NEW w2 \in WayNrs,
                    GoodWords(u[i][w1]) \cap GoodWords(u[i][w2]) # {},
                    u[i][w1].atag = u[i][w2].atag
             PROVE  w1 = w2
  BY DEF Single, u
<1>6. CASE i # idx \/ (w1 # way /\ w2 # way)
  BY <1>4, <1>5, <1>6 DEF Single
<1>7. CASE i = idx /\ w1 = way
  BY <1>4, <1>5, <1>7 DEF new
<1>8. CASE i = idx /\ w2 = way
  BY <1>4, <1>5, <1>8 DEF new
<1> QED BY <1>6, <1>7, <1>8

\* The words a miss asks for are words of the line, all of them if lines are
\* fetched whole, and else the missing one is among them.
LEMMA MissWordsShape ==
    ASSUME NEW word \in Words
    PROVE  /\ MissWords(word) \in SUBSET Words
           /\ word \in MissWords(word)
           /\ LineFetch => MissWords(word) = Words
           /\ ~LineFetch /\ ~Burst => MissWords(word) = {word}
BY VectorCacheAssumption DEF MissWords, Words

\* A hit changes the replacement history only.
LEMMA TouchSane ==
    ASSUME NEW c, Sane(c), NEW idx \in Indices, NEW way \in WayNrs
    PROVE  /\ Sane(Touch(c, idx, way))
           /\ \A i \in Indices, w \in WayNrs : SameLine(Touch(c, idx, way)[i][w], c[i][w])
<1>1. c \in CacheType /\ c[idx] \in [WayNrs -> Line]
  BY DEF Sane, CacheType
<1>2. CASE Repl # 1
  BY <1>2 DEF Touch, SameLine
<1>3. CASE Repl = 1
  <2> DEFINE ways == LruUpdate(c[idx], way)
             u    == [c EXCEPT ![idx] = ways]
  <2>1. /\ ways \in [WayNrs -> Line]
        /\ \A w \in WayNrs : SameLine(ways[w], c[idx][w])
    BY <1>1, HistoryOnly
  <2>2. Touch(c, idx, way) = u
    BY <1>3 DEF Touch
  <2> HIDE DEF ways
  <2>3. u \in CacheType
    BY <1>1, <2>1 DEF CacheType
  <2>4. \A i \in Indices, w \in WayNrs : SameLine(u[i][w], c[i][w])
    BY <1>1, <2>1 DEF CacheType, SameLine
  <2> HIDE DEF u
  <2>5. WholeLines(u)
    BY <2>4 DEF Sane, WholeLines, SameLine
  <2>6. Unlocked(u)
    BY <2>4, Ways DEF Sane, Unlocked, SameLine
  <2>7. Marks(u)
    BY <1>3 DEF Marks
  <2> QED BY <2>2, <2>3, <2>4, <2>5, <2>6, <2>7 DEF Sane
<1> QED BY <1>2, <1>3

\* view2 is what view1 becomes if word of the line tag, idx is written
Written(view1, view2, tag, idx, word) ==
    \A t \in Tags, i \in Indices, w \in Words :
        view2[t][i][w] = view1[t][i][w] \/ (t = tag /\ i = idx /\ w = word)

\* A write to a word that no line has leaves a cache sound.
LEMMA WrittenElsewhere ==
    ASSUME NEW c, Sane(c), NEW view1, NEW view2, Sound(c, view1),
           NEW tag \in Tags, NEW idx \in Indices, NEW word \in Words,
           Written(view1, view2, tag, idx, word),
           \A w \in WayNrs : c[idx][w].atag = tag => word \notin GoodWords(c[idx][w])
    PROVE  Sound(c, view2)
<1> SUFFICES ASSUME NEW i \in Indices, NEW w \in WayNrs, NEW good \in GoodWords(c[i][w])
             PROVE  c[i][w].entry[good] = view2[c[i][w].atag][i][good]
  BY DEF Sound
<1>1. c[i][w] \in Line
  BY DEF Sane, CacheType
<1>2. good \in Words /\ c[i][w].atag \in Tags
  BY <1>1 DEF GoodWords, Line
<1>3. c[i][w].entry[good] = view1[c[i][w].atag][i][good]
  BY DEF Sound
<1> QED BY <1>2, <1>3 DEF Written

\* what a store that hits makes of the cache
Stored(c, idx, tag, word, val) ==
    UpdateLine(c, idx, LocateLine(c, idx, tag, word), tag, {word}, [w \in Words |-> val])

\* A store that hits writes the one word the set has for it.
LEMMA StoreHits ==
    ASSUME NEW c, Sane(c), Single(c), NEW tag \in Tags, NEW idx \in Indices,
           NEW word \in Words, NEW val \in Values, LocateLine(c, idx, tag, word) # NoWay
    PROVE  LET u == Stored(c, idx, tag, word, val)
           IN  /\ Sane(u) /\ Single(u)
               /\ \A i \in Indices, w \in WayNrs : u[i][w].atag = c[i][w].atag
               /\ \A view1, view2 :
                     /\ Sound(c, view1)
                     /\ Written(view1, view2, tag, idx, word)
                     /\ view2[tag][idx][word] = val
                     => Sound(u, view2)
<1> DEFINE way  == LocateLine(c, idx, tag, word)
           data == [w \in Words |-> val]
           u    == UpdateLine(c, idx, way, tag, {word}, data)
           line == c[idx][way]
           new  == Filled(line, tag, {word}, data)
<1>1. way \in WayNrs /\ line.atag = tag /\ word \in GoodWords(line)
  BY Located DEF Sane
<1>2. data \in Contents /\ {word} \in SUBSET Words
  BY DEF Contents
<1>3. line \in Line
  BY <1>1 DEF Sane, CacheType
<1> HIDE DEF way, data
<1>4. /\ Sane(u)
      /\ SameLine(u[idx][way], new)
      /\ \A i \in Indices, w \in WayNrs :
             i # idx \/ w # way => SameLine(u[i][w], c[i][w])
  BY <1>1, <1>2, Updated
<1>5. GoodWords(new) = GoodWords(line)
  <2>1. GoodWords(new) = IF LineFetch THEN Words
                         ELSE (IF line.atag = tag THEN line.valid ELSE {}) \cup {word}
    <3> HIDE DEF line
    <3> QED BY <1>3 DEF GoodWords, Filled, Line
  <2> QED BY <1>1, <2>1 DEF GoodWords
<1>6. new.atag = tag /\ new.entry = [w \in Words |-> IF w \in {word} THEN data[w] ELSE line.entry[w]]
  BY <1>3 DEF Filled, Line
<1>7. \A w \in WayNrs \ {way} :
          c[idx][w].atag = tag => GoodWords(c[idx][w]) \cap GoodWords(line) = {}
  BY <1>1 DEF Single
<1>8. Single(u)
  BY <1>1, <1>2, <1>5, <1>7, FillIsSingle
<1>9. ASSUME NEW view1, NEW view2, Sound(c, view1),
             Written(view1, view2, tag, idx, word), view2[tag][idx][word] = val
      PROVE  Sound(u, view2)
  <2> SUFFICES ASSUME NEW i \in Indices, NEW w \in WayNrs, NEW good \in GoodWords(u[i][w])
               PROVE  u[i][w].entry[good] = view2[u[i][w].atag][i][good]
    BY DEF Sound
  <2> HIDE DEF u, new
  <2>1. CASE i = idx /\ w = way
    <3>1. good \in GoodWords(line)
      BY <1>4, <1>5, <2>1 DEF GoodWords, SameLine
    <3>2. good \in Words
      BY <1>3, <3>1 DEF GoodWords, Line
    <3>3. u[i][w].entry = new.entry /\ u[i][w].atag = tag
      BY <1>4, <1>6, <2>1 DEF SameLine
    <3>4. CASE good = word
      BY <1>9, <1>6, <2>1, <3>2, <3>3, <3>4 DEF data
    <3>5. CASE good # word
      <4>1. line.entry[good] = view1[tag][idx][good]
        BY <1>1, <1>9, <3>1 DEF Sound
      <4>2. view2[tag][idx][good] = view1[tag][idx][good]
        BY <1>9, <3>2, <3>5 DEF Written
      <4> QED BY <1>6, <2>1, <3>2, <3>3, <3>5, <4>1, <4>2
    <3> QED BY <3>4, <3>5
  <2>2. CASE ~(i = idx /\ w = way)
    <3>1. SameLine(u[i][w], c[i][w])
      BY <1>4, <2>2
    <3>2. good \in GoodWords(c[i][w])
      BY <3>1 DEF GoodWords, SameLine
    <3>3. c[i][w] \in Line
      BY DEF Sane, CacheType
    <3>4. good \in Words /\ c[i][w].atag \in Tags
      BY <3>2, <3>3 DEF GoodWords, Line
    <3>5. c[i][w].entry[good] = view1[c[i][w].atag][i][good]
      BY <1>9, <3>2 DEF Sound
    <3>6. ~(c[i][w].atag = tag /\ i = idx /\ good = word)
      BY <1>1, <1>7, <2>2, <3>2
    <3> QED BY <1>9, <3>1, <3>4, <3>5, <3>6 DEF Written, SameLine
  <2> QED BY <2>1, <2>2
<1>10. \A i \in Indices, w \in WayNrs : u[i][w].atag = c[i][w].atag
  <2> HIDE DEF u, new
  <2> QED BY <1>1, <1>4, <1>6 DEF SameLine
<1> QED BY <1>4, <1>8, <1>9, <1>10 DEF way, data, Stored

\* snoop_invalidate takes the word, or its line, from every way that has it.
LEMMA Snoops ==
    ASSUME NEW c, Sane(c), NEW tag \in Tags, NEW idx \in Indices, NEW word \in Words
    PROVE  LET u == SnoopInvalidate(c, idx, tag, word)
           IN  /\ Sane(u)
               /\ Fewer(u, c)
               /\ \A w \in WayNrs : u[idx][w].atag = tag => word \notin GoodWords(u[idx][w])
               /\ \A i \in Indices, w \in WayNrs : u[i][w].lock = c[i][w].lock
<1> DEFINE u == SnoopInvalidate(c, idx, tag, word)
           hit(w) == WithoutWord(c[idx][w], word)
           ways == [w \in WayNrs |-> IF c[idx][w].atag = tag THEN hit(w) ELSE c[idx][w]]
<1>1. c \in CacheType /\ \A i \in Indices, w \in WayNrs : c[i][w] \in Line
  BY DEF Sane, CacheType
<1>2. u = [c EXCEPT ![idx] = ways]
  BY DEF SnoopInvalidate
<1>3. ASSUME NEW w \in WayNrs
      PROVE  /\ ways[w] \in Line
             /\ ways[w].valid \subseteq c[idx][w].valid
             /\ ways[w].atag = c[idx][w].atag
             /\ ways[w].entry = c[idx][w].entry
             /\ ways[w].lock = c[idx][w].lock
             /\ ways[w].lrr = c[idx][w].lrr
             /\ ways[w].atag = tag => word \notin GoodWords(ways[w])
  <2>1. CASE c[idx][w].atag = tag
    <3>1. ways[w] = hit(w)
      BY <2>1
    <3>2. hit(w) \in Line /\ hit(w).valid = IF LineFetch THEN {} ELSE c[idx][w].valid \ {word}
      BY <1>1 DEF Line, WithoutWord
    <3>3. word \notin GoodWords(hit(w))
      BY <3>2 DEF GoodWords
    <3> QED BY <1>1, <3>1, <3>2, <3>3 DEF Line, WithoutWord
  <2>2. CASE c[idx][w].atag # tag
    BY <1>1, <2>2
  <2> QED BY <2>1, <2>2
<1> HIDE DEF ways, u
<1>4. u \in CacheType
  <2>1. ways \in [WayNrs -> Line]
    BY <1>3 DEF ways
  <2> QED BY <1>1, <1>2, <2>1 DEF CacheType
<1>5. u[idx] = ways /\ \A i \in Indices : i # idx => u[i] = c[i]
  BY <1>1, <1>2 DEF CacheType
<1>6. Fewer(u, c)
  BY <1>3, <1>5 DEF Fewer
<1>7. \A i \in Indices, w \in WayNrs : u[i][w].lock = c[i][w].lock /\ u[i][w].lrr = c[i][w].lrr
  BY <1>3, <1>5
<1>8. WholeLines(u)
  BY <1>6 DEF Sane, WholeLines, Fewer
<1>9. Marks(u)
  BY <1>7 DEF Sane, Marks
<1>10. Unlocked(u)
  BY <1>7, Ways DEF Sane, Unlocked
<1>11. \A w \in WayNrs : u[idx][w].atag = tag => word \notin GoodWords(u[idx][w])
  BY <1>3, <1>5
<1> QED BY <1>4, <1>6, <1>7, <1>8, <1>9, <1>10, <1>11 DEF Sane, u

\* A flush leaves no good word.
LEMMA Flushed ==
    ASSUME NEW c, Sane(c)
    PROVE  /\ Sane(Flush(c))
           /\ Fewer(Flush(c), c)
           /\ \A i \in Indices, w \in WayNrs :
                  GoodWords(Flush(c)[i][w]) = {} /\ Flush(c)[i][w].lock = c[i][w].lock
<1> DEFINE u == Flush(c)
<1>1. \A i \in Indices, w \in WayNrs : c[i][w] \in Line
  BY DEF Sane, CacheType
<1>2. \A i \in Indices, w \in WayNrs : u[i][w] = [c[i][w] EXCEPT !.valid = {}]
  BY DEF Flush
<1>3. u \in CacheType
  <2>1. \A i \in Indices, w \in WayNrs : [c[i][w] EXCEPT !.valid = {}] \in Line
    BY <1>1 DEF Line
  <2> QED BY <2>1 DEF Flush, CacheType
<1>4. \A i \in Indices, w \in WayNrs :
          /\ u[i][w].valid = {}
          /\ u[i][w].atag = c[i][w].atag
          /\ u[i][w].entry = c[i][w].entry
          /\ u[i][w].lock = c[i][w].lock
          /\ u[i][w].lrr = c[i][w].lrr
  <2> TAKE i \in Indices, w \in WayNrs
  <2> DEFINE line == c[i][w]
  <2>1. line \in Line /\ u[i][w] = [line EXCEPT !.valid = {}]
    BY <1>1, <1>2
  <2> HIDE DEF u, line
  <2>2. /\ u[i][w].valid = {} /\ u[i][w].atag = line.atag /\ u[i][w].entry = line.entry
        /\ u[i][w].lock = line.lock /\ u[i][w].lrr = line.lrr
    BY <2>1 DEF Line
  <2> QED BY <2>2 DEF line
<1> HIDE DEF u
<1>5. WholeLines(u)
  BY <1>4 DEF WholeLines
<1>6. Marks(u)
  BY <1>4 DEF Sane, Marks
<1>7. Unlocked(u)
  <2>1. Unlocked(c) /\ NWays - 1 \in WayNrs
    BY Ways DEF Sane
  <2>2. ASSUME NEW i \in Indices, NEW w \in WayNrs PROVE u[i][w].lock = c[i][w].lock
    BY <1>4
  <2>3. ASSUME NEW i \in Indices
        PROVE  /\ ~u[i][NWays - 1].lock
               /\ ~SetLock => \A w \in WayNrs : ~u[i][w].lock
    BY <2>1, <2>2 DEF Unlocked
  <2> QED BY <2>3 DEF Unlocked
<1>8. Fewer(u, c)
  BY <1>4 DEF Fewer
<1>9. \A i \in Indices, w \in WayNrs : GoodWords(u[i][w]) = {}
  BY <1>4 DEF GoodWords
<1> QED BY <1>3, <1>4, <1>5, <1>6, <1>7, <1>8, <1>9 DEF Sane, u

\* The constructor makes an empty cache.
LEMMA Emptied ==
    ASSUME NEW tag \in Tags, NEW data \in Contents
    PROVE  /\ Sane(EmptyCache(tag, data))
           /\ \A i \in Indices, w \in WayNrs : GoodWords(EmptyCache(tag, data)[i][w]) = {}
<1> DEFINE line == [valid |-> {}, atag |-> tag, lrr |-> 0, lru |-> 0, lock |-> FALSE,
                    entry |-> data]
           c    == EmptyCache(tag, data)
<1>1. c = [i \in Indices |-> [way \in WayNrs |-> line]]
  BY DEF EmptyCache
<1>2. line \in Line
  BY CounterRange DEF Line
<1>3. \A i \in Indices, w \in WayNrs :
          c[i][w].valid = {} /\ c[i][w].lrr = 0 /\ c[i][w].lock = FALSE
  BY <1>1
<1>4. c \in CacheType
  <2> HIDE DEF line, c
  <2> QED BY <1>1, <1>2 DEF CacheType
<1> HIDE DEF c
<1>5. Sane(c)
  BY <1>3, <1>4, Ways DEF Sane, WholeLines, Marks, Unlocked
<1>6. \A i \in Indices, w \in WayNrs : GoodWords(c[i][w]) = {}
  BY <1>3 DEF GoodWords
<1> QED BY <1>5, <1>6 DEF c
=============================================================================
