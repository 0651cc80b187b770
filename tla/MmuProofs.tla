----------------------------- MODULE MmuProofs -----------------------------
(***************************************************************************)
(* Proofs about Mmu for any page tables, any changes software makes to     *)
(* them and any size of the buffers.                                       *)
(***************************************************************************)
EXTENDS Mmu, FiniteSetTheorems, TLAPS

-----------------------------------------------------------------------------
(* The walk                                                                *)

LEMMA EntryFacts ==
    ASSUME NEW e \in Entries
    PROVE  \/ e.et \in {0, 3}
           \/ e.et = 1 /\ e.table \in Tables
           \/ e.et = 2 /\ e.frame \in Frames /\ e.perm \in 0..7
BY DEF Entries, Invalid, Reserved, PTD, PTE

LEMMA OrFacts == \A a, b \in Nat : Or(a, b) \in Frames
BY DEF Or, Frames

LEMMA IndexFacts ==
    ASSUME NEW va \in Frames, NEW level \in {1, 2, 3}
    PROVE  Index(va, level) \in {0, 1} /\ Offset(va, level) \in Nat
BY DEF Index, Offset, Frames

\* a walk ends at a page, or with a fault of some level
Ends(walk) ==
    \/ walk.ok = TRUE /\ walk.entry = TRUE /\ walk.perm \in 0..7 /\ walk.page \in Frames
    \/ /\ walk.ok = FALSE /\ walk.entry \in BOOLEAN /\ walk.level \in 0..3
       /\ walk.ft \in {1, 4} /\ walk.page \in Frames

LEMMA FaultEnds ==
    \A level \in 0..3, ft \in {1, 4} : Ends(Fault(level, ft))
BY DEF Ends, Fault, Frames

LEMMA FoundEnds ==
    ASSUME NEW va \in Frames, NEW level \in {1, 2, 3}, NEW e,
           e.frame \in Frames, e.perm \in 0..7
    PROVE  Ends(Found(va, level, e))
<1>1. Or(e.frame, Offset(va, level)) \in Frames
  BY OrFacts, IndexFacts DEF Frames
<1> QED
  BY <1>1 DEF Ends, Found

LEMMA RootPageEnds ==
    ASSUME NEW va \in Frames, NEW e, e.frame \in Frames
    PROVE  Ends(RootPage(va, e))
<1>1. Or(e.frame, va) \in Frames
  BY OrFacts DEF Frames
<1> QED
  BY <1>1 DEF Ends, RootPage

LEMMA CellFacts ==
    ASSUME table \in [Cells -> Entries], NEW t \in Tables, NEW va \in Frames,
           NEW level \in {1, 2, 3}
    PROVE  table[<<t, Index(va, level)>>] \in Entries
<1>1. <<t, Index(va, level)>> \in Cells
  BY IndexFacts DEF Cells
<1> QED
  BY <1>1

LEMMA ThirdEnds ==
    ASSUME NEW va \in Frames, NEW e \in Entries
    PROVE  Ends(Third(va, e))
BY EntryFacts, FaultEnds, FoundEnds DEF Third

LEMMA SecondEnds ==
    ASSUME table \in [Cells -> Entries], NEW va \in Frames, NEW e \in Entries
    PROVE  Ends(Second(va, e))
<1>1. ASSUME e.et = 1 PROVE Ends(Third(va, table[<<e.table, Index(va, 3)>>]))
  <2>1. e.table \in Tables
    BY <1>1, EntryFacts
  <2> DEFINE n == table[<<e.table, Index(va, 3)>>]
  <2>2. n \in Entries
    BY <2>1, CellFacts
  <2> HIDE DEF n
  <2>3. Ends(Third(va, n))
    BY <2>2, ThirdEnds
  <2> QED
    BY <2>3 DEF n
<1> QED
  BY <1>1, EntryFacts, FaultEnds, FoundEnds DEF Second

LEMMA FirstEnds ==
    ASSUME table \in [Cells -> Entries], NEW va \in Frames, NEW e \in Entries
    PROVE  Ends(First(va, e))
<1>1. ASSUME e.et = 1 PROVE Ends(Second(va, table[<<e.table, Index(va, 2)>>]))
  <2>1. e.table \in Tables
    BY <1>1, EntryFacts
  <2> DEFINE n == table[<<e.table, Index(va, 2)>>]
  <2>2. n \in Entries
    BY <2>1, CellFacts
  <2> HIDE DEF n
  <2>3. Ends(Second(va, n))
    BY <2>2, SecondEnds
  <2> QED
    BY <2>3 DEF n
<1> QED
  BY <1>1, EntryFacts, FaultEnds, FoundEnds DEF First

LEMMA WalkEnds ==
    ASSUME table \in [Cells -> Entries], context \in Contexts, NEW va \in Frames
    PROVE  Ends(Walk(va))
<1> DEFINE e == table[<<Root, context>>]
<1>1. e \in Entries
  BY DEF Cells
<1>2. ASSUME e.et = 1 PROVE Ends(First(va, table[<<e.table, Index(va, 1)>>]))
  <2>1. e.table \in Tables
    BY <1>1, <1>2, EntryFacts
  <2> DEFINE n == table[<<e.table, Index(va, 1)>>]
  <2>2. n \in Entries
    BY <2>1, CellFacts
  <2> HIDE DEF n
  <2>3. Ends(First(va, n))
    BY <2>2, FirstEnds
  <2> QED
    BY <2>3 DEF n
<1> QED
  BY <1>1, <1>2, EntryFacts, FaultEnds, RootPageEnds DEF Walk

LEMMA AccessTypes ==
    ASSUME NEW kind \in Kinds, NEW asi \in Asis
    PROVE  /\ AccessType(kind, asi) \in 0..7
           /\ Instruction(asi) <=> AccessType(kind, asi) \in {2, 3, 6, 7}
           /\ kind = "store" => AccessType(kind, asi) \in 4..7
           /\ kind = "store" => (Supervisor(asi) <=> AccessType(kind, asi) \in {5, 7})
BY DEF Kinds, Asis, AccessType, Instruction, Supervisor

LEMMA TableFacts ==
    \A at \in 0..7, perm \in 0..7 : AccessTable[at + 1][perm + 1] \in {0, 2, 3}
BY DEF AccessTable

\* the two tables of permissions agree about stores
LEMMA TablesAgree ==
    ASSUME NEW perm \in 0..7, NEW at \in 4..7, AccessTable[at + 1][perm + 1] = 0
    PROVE  "W" \in Allowed(perm, at \in {5, 7})
<1>1. /\ AccessTable[5] = <<2, 0, 2, 0, 2, 2, 3, 3>>
      /\ AccessTable[6] = <<2, 0, 2, 0, 2, 0, 2, 0>>
      /\ AccessTable[7] = <<2, 2, 2, 0, 2, 2, 3, 3>>
      /\ AccessTable[8] = <<2, 2, 2, 0, 2, 2, 2, 0>>
  BY DEF AccessTable
<1>2. CASE at \in {5, 7}
  <2>1. perm \in {1, 3, 5, 7}
    BY <1>1, <1>2
  <2> QED
    BY <1>2, <2>1 DEF Allowed
<1>3. CASE at \in {4, 6}
  <2>1. perm \in {1, 3} /\ at \notin {5, 7}
    BY <1>1, <1>3
  <2> QED
    BY <2>1 DEF Allowed
<1> QED
  BY <1>2, <1>3

-----------------------------------------------------------------------------
(* The look-up                                                             *)

\* The fault of an access: none, of the walk, or of the permissions.
LEMMA TranslatedFacts ==
    ASSUME table \in [Cells -> Entries], context \in Contexts, NEW va \in Frames,
           NEW at \in 0..7
    PROVE  /\ Translated(va, at).page \in Frames
           /\ Translated(va, at).page = Walk(va).page
           /\ Translated(va, at).entry = Walk(va).entry
           /\ Translated(va, at).level \in 0..3
           /\ Translated(va, at).ft \in 0..4
           /\ Translated(va, at).ft = 0 => Walk(va).ok
<1> DEFINE walk == Walk(va)
           t    == Translated(va, at)
<1>1. Ends(walk)
  BY WalkEnds
<1>2. /\ t.page = walk.page /\ t.entry = walk.entry
      /\ t.ft = IF walk.ok THEN AccessTable[at + 1][walk.perm + 1] ELSE walk.ft
      /\ t.level = IF walk.ok THEN 0 ELSE walk.level
  BY DEF Translated
<1> HIDE DEF walk, t
<1>3. t.page = walk.page /\ t.entry = walk.entry /\ t.page \in Frames
  BY <1>1, <1>2, Zenon DEF Ends
<1>4. CASE walk.ok = TRUE
  <2>1. AccessTable[at + 1][walk.perm + 1] \in {0, 2, 3}
    BY <1>1, <1>4, TableFacts DEF Ends
  <2>2. t.level \in 0..3 /\ t.ft \in 0..4
    BY <1>2, <1>4, <2>1
  <2> QED
    BY <1>3, <1>4, <2>2, Zenon DEF walk, t
<1>5. CASE walk.ok = FALSE
  <2>1. walk.level \in 0..3 /\ walk.ft \in {1, 4}
    BY <1>1, <1>5 DEF Ends
  <2>2. t.level \in 0..3 /\ t.ft \in 0..4 /\ t.ft # 0
    BY <1>2, <1>5, <2>1
  <2> QED
    BY <1>3, <2>2, Zenon DEF walk, t
<1> QED
  BY <1>1, <1>4, <1>5, Zenon DEF Ends

LEMMA BitsFacts ==
    /\ \A n \in 0..7 : Bits(n) \subseteq 0..2
    /\ \A n \in 0..3 : Bits(n) \subseteq 0..1
<1>1. \A n \in 0..7 : Bits(n) \subseteq 0..2
  BY DEF Bits
<1>2. \A n \in 0..3 : 2 \notin Bits(n)
  <2>1. 2 ^ 2 = 4
    OBVIOUS
  <2>2. \A n \in 0..3 : (n \div 4) % 2 = 0
    OBVIOUS
  <2> QED
    BY <2>1, <2>2 DEF Bits
<1> QED
  BY <1>1, <1>2

\* A buffer that is full has an entry to remove.
LEMMA LowestIsThere ==
    ASSUME NEW buffer \in SUBSET Frames, buffer # {}
    PROVE  Lowest(buffer) \in buffer
<1>1. \E va \in buffer : \A x \in buffer : va <= x
  <2>1. CASE buffer \subseteq 0..7 /\ 0 \in buffer
    BY <2>1
  <2>2. CASE buffer \subseteq 1..7 /\ 1 \in buffer
    BY <2>2
  <2>3. CASE buffer \subseteq 2..7 /\ 2 \in buffer
    BY <2>3
  <2>4. CASE buffer \subseteq 3..7 /\ 3 \in buffer
    BY <2>4
  <2>5. CASE buffer \subseteq 4..7 /\ 4 \in buffer
    BY <2>5
  <2>6. CASE buffer \subseteq 5..7 /\ 5 \in buffer
    BY <2>6
  <2>7. CASE buffer \subseteq 6..7 /\ 6 \in buffer
    BY <2>7
  <2>8. CASE buffer \subseteq 7..7 /\ 7 \in buffer
    BY <2>8
  <2>9. buffer \subseteq 0..7
    BY DEF Frames
  <2>10. buffer \subseteq 0..7 => 0 \in buffer \/ buffer \subseteq 1..7
    OBVIOUS
  <2>11. buffer \subseteq 1..7 => 1 \in buffer \/ buffer \subseteq 2..7
    OBVIOUS
  <2>12. buffer \subseteq 2..7 => 2 \in buffer \/ buffer \subseteq 3..7
    OBVIOUS
  <2>13. buffer \subseteq 3..7 => 3 \in buffer \/ buffer \subseteq 4..7
    OBVIOUS
  <2>14. buffer \subseteq 4..7 => 4 \in buffer \/ buffer \subseteq 5..7
    OBVIOUS
  <2>15. buffer \subseteq 5..7 => 5 \in buffer \/ buffer \subseteq 6..7
    OBVIOUS
  <2>16. buffer \subseteq 6..7 => 6 \in buffer \/ buffer \subseteq 7..7
    OBVIOUS
  <2>17. buffer \subseteq 7..7 => 7 \in buffer
    <3>1. PICK x \in buffer : TRUE
      OBVIOUS
    <3> QED
      BY <3>1
  <2> QED
    BY <2>1, <2>2, <2>3, <2>4, <2>5, <2>6, <2>7, <2>8, <2>9, <2>10, <2>11, <2>12, <2>13,
       <2>14, <2>15, <2>16, <2>17
<1> QED
  BY <1>1 DEF Lowest

LEMMA InsertedFits ==
    ASSUME NEW buffer \in SUBSET Pages, Cardinality(buffer) <= TlbSize, NEW va \in Pages
    PROVE  /\ Inserted(buffer, va) \subseteq Pages
           /\ Cardinality(Inserted(buffer, va)) <= TlbSize
<1>1. IsFiniteSet(Frames)
  <2>1. 0 \in Int /\ 7 \in Int
    OBVIOUS
  <2>2. IsFiniteSet(0..7)
    BY <2>1, FS_Interval, Zenon
  <2> QED
    BY <2>2 DEF Frames
<1>2. IsFiniteSet(buffer) /\ buffer \subseteq Frames
  BY <1>1, FS_Subset, MmuAssumption
<1>3. Cardinality(buffer) \in Nat /\ TlbSize \in 2..32
  BY <1>2, FS_CardinalityType, MmuAssumption
<1>4. CASE Cardinality(buffer) = TlbSize
  <2> DEFINE rest == buffer \ {Lowest(buffer)}
  <2>1. buffer # {}
    BY <1>3, <1>4, FS_EmptySet
  <2>2. Lowest(buffer) \in buffer
    BY <1>2, <2>1, LowestIsThere
  <2>3. IsFiniteSet(rest) /\ Cardinality(rest) = Cardinality(buffer) - 1
    BY <1>2, <2>2, FS_RemoveElement
  <2>4. /\ IsFiniteSet(rest \cup {va})
        /\ Cardinality(rest \cup {va}) \in {Cardinality(rest), Cardinality(rest) + 1}
    BY <2>3, FS_AddElement
  <2>5. Inserted(buffer, va) = rest \cup {va}
    BY <1>4 DEF Inserted
  <2> QED
    BY <1>3, <1>4, <2>3, <2>4, <2>5
<1>5. CASE Cardinality(buffer) # TlbSize
  <2>1. Cardinality(buffer \cup {va}) \in {Cardinality(buffer), Cardinality(buffer) + 1}
    BY <1>2, FS_AddElement
  <2>2. Inserted(buffer, va) = buffer \cup {va}
    BY <1>5 DEF Inserted
  <2> QED
    BY <1>3, <1>5, <2>1, <2>2
<1> QED
  BY <1>4, <1>5

-----------------------------------------------------------------------------
(* The fault registers                                                     *)

History == faults \subseteq [at : 0..7, ft : 0..4, level : 0..3, va : Frames]

FsrType == [ow : BOOLEAN, at : SUBSET (0..2), ft : SUBSET (0..2), level : SUBSET (0..1),
            fav : BOOLEAN]

IInv == TypeOK /\ History /\ FaultDescribed /\ Honest

\* a fault of a data space
OfData(f) == f.at \notin {2, 3, 6, 7}

\* Without a fault the register is clear, and clear is what no fault sums up to.
LEMMA Clear ==
    /\ NoFsr \in FsrType
    /\ faults = {} => (FaultDescribed <=> fsr = NoFsr)
<1>1. NoFsr \in FsrType
  BY DEF NoFsr, FsrType
<1>2. ASSUME faults = {} PROVE FaultDescribed <=> fsr = NoFsr
  <2>1. /\ UNION {Bits(f.at) : f \in faults} = {}
        /\ UNION {Bits(f.ft) : f \in faults} = {}
        /\ UNION {Bits(f.level) : f \in faults} = {}
        /\ (faults # {}) = FALSE
        /\ (\E f \in faults : f.at \notin {2, 3, 6, 7}) = FALSE
    BY <1>2
  <2> QED
    BY <1>2, <2>1, Zenon DEF FaultDescribed, NoFsr
<1> QED
  BY <1>1, <1>2

\* One more fault adds its bits to the sums.
LEMMA SumsGrow ==
    ASSUME NEW new, faults' = faults \cup {new}
    PROVE  /\ UNION {Bits(f.at) : f \in faults'}
                = (UNION {Bits(f.at) : f \in faults}) \cup Bits(new.at)
           /\ UNION {Bits(f.ft) : f \in faults'}
                = (UNION {Bits(f.ft) : f \in faults}) \cup Bits(new.ft)
           /\ UNION {Bits(f.level) : f \in faults'}
                = (UNION {Bits(f.level) : f \in faults}) \cup Bits(new.level)
           /\ (\E f \in faults' : OfData(f)) <=> (\E f \in faults : OfData(f)) \/ OfData(new)
<1>1. (\E f \in faults' : OfData(f)) <=> (\E f \in faults : OfData(f)) \/ OfData(new)
  BY DEF OfData
<1>2. \A f : f \in faults' <=> f \in faults \/ f = new
  OBVIOUS
<1>3. (UNION {Bits(f.at) : f \in faults'}) = (UNION {Bits(f.at) : f \in faults}) \cup Bits(new.at)
  BY <1>2
<1>4. (UNION {Bits(f.ft) : f \in faults'}) = (UNION {Bits(f.ft) : f \in faults}) \cup Bits(new.ft)
  BY <1>2
<1>5. (UNION {Bits(f.level) : f \in faults'})
        = (UNION {Bits(f.level) : f \in faults}) \cup Bits(new.level)
  BY <1>2
<1> QED
  BY <1>1, <1>3, <1>4, <1>5, Zenon

\* What is collected with a fault: its bits and all that was there.
LEMMA CollectedAdds ==
    ASSUME FaultDescribed, NEW at \in 0..7, NEW res, NEW asi \in Asis
    PROVE  Collected(at, res, asi) =
             [ow    |-> TRUE,
              at    |-> (UNION {Bits(f.at) : f \in faults}) \cup Bits(at),
              ft    |-> (UNION {Bits(f.ft) : f \in faults}) \cup Bits(res.ft),
              level |-> (UNION {Bits(f.level) : f \in faults}) \cup Bits(res.level),
              fav   |-> (\E f \in faults : OfData(f)) \/ ~Instruction(asi)]
<1>1. /\ fsr.ow = (faults # {})
      /\ fsr.at = UNION {Bits(f.at) : f \in faults}
      /\ fsr.ft = UNION {Bits(f.ft) : f \in faults}
      /\ fsr.level = UNION {Bits(f.level) : f \in faults}
      /\ fsr.fav = \E f \in faults : OfData(f)
  BY DEF FaultDescribed, OfData
<1>2. (fsr.ow \/ fsr = NoFsr) = TRUE
  <2>1. faults = {} => fsr = NoFsr
    BY Clear
  <2> QED
    BY <1>1, <2>1, Zenon
<1> QED
  BY <1>1, <1>2, Zenon DEF Collected

LEMMA CollectedType ==
    ASSUME NEW at \in 0..7, NEW res, res.ft \in 0..4, res.level \in 0..3, NEW asi \in Asis,
           fsr \in FsrType
    PROVE  Collected(at, res, asi) \in FsrType
<1> DEFINE o == fsr.ow \/ fsr = NoFsr
           a == fsr.at \cup Bits(at)
           f == fsr.ft \cup Bits(res.ft)
           l == fsr.level \cup Bits(res.level)
           v == fsr.fav \/ ~Instruction(asi)
<1>1. o \in BOOLEAN /\ v \in BOOLEAN
  OBVIOUS
<1>2. a \subseteq 0..2 /\ f \subseteq 0..2 /\ l \subseteq 0..1
  BY BitsFacts DEF FsrType
<1>3. Collected(at, res, asi) = [ow |-> o, at |-> a, ft |-> f, level |-> l, fav |-> v]
  BY DEF Collected
<1> HIDE DEF o, a, f, l, v
<1> QED
  BY <1>1, <1>2, <1>3 DEF FsrType

LEMMA ReportKeeps ==
    ASSUME IInv, NEW va \in Frames, NEW asi \in Asis, NEW at \in 0..7, NEW result,
           result.ft \in 0..4, result.level \in 0..3, Instruction(asi) <=> at \in {2, 3, 6, 7},
           Report(va, at, result, asi)
    PROVE  fsr' \in FsrType /\ far' \in Frames /\ History' /\ FaultDescribed'
<1>1. fsr \in FsrType /\ far \in Frames
  BY DEF IInv, TypeOK, FsrType
<1>2. CASE result.ft = 0
  <2>1. UNCHANGED <<fsr, far, faults>>
    BY <1>2 DEF Report
  <2> QED
    BY <1>1, <2>1 DEF IInv, History, FaultDescribed
<1>3. CASE result.ft # 0
  <2> DEFINE new == [at |-> at, ft |-> result.ft, level |-> result.level, va |-> va]
  <2>1. fsr' = Collected(at, result, asi) /\ far' = va /\ faults' = faults \cup {new}
    BY <1>3 DEF Report
  <2>2. fsr' \in FsrType /\ far' \in Frames
    BY <1>1, <2>1, CollectedType
  <2>3. /\ new \in [at : 0..7, ft : 0..4, level : 0..3, va : Frames]
        /\ new.at = at /\ new.ft = result.ft /\ new.level = result.level /\ new.va = va
    OBVIOUS
  <2> HIDE DEF new
  <2>4. History'
    BY <2>1, <2>3 DEF IInv, History
  <2>5. FaultDescribed'
    <3>1. (faults' # {}) = TRUE
      BY <2>1
    <3>2. (\E f \in faults' : OfData(f)) = ((\E f \in faults : OfData(f)) \/ ~Instruction(asi))
      <4>1. OfData(new) <=> ~Instruction(asi)
        BY <2>3 DEF OfData
      <4> QED
        BY <2>1, <4>1, SumsGrow, Zenon
    <3>3. fsr' = [ow    |-> faults' # {},
                  at    |-> UNION {Bits(f.at) : f \in faults'},
                  ft    |-> UNION {Bits(f.ft) : f \in faults'},
                  level |-> UNION {Bits(f.level) : f \in faults'},
                  fav   |-> \E f \in faults' : OfData(f)]
      <4>1. /\ UNION {Bits(f.at) : f \in faults'}
                  = (UNION {Bits(f.at) : f \in faults}) \cup Bits(at)
            /\ UNION {Bits(f.ft) : f \in faults'}
                  = (UNION {Bits(f.ft) : f \in faults}) \cup Bits(result.ft)
            /\ UNION {Bits(f.level) : f \in faults'}
                  = (UNION {Bits(f.level) : f \in faults}) \cup Bits(result.level)
        BY <2>1, <2>3, SumsGrow
      <4>2. FaultDescribed
        BY DEF IInv
      <4>3. fsr' = [ow    |-> TRUE,
                    at    |-> (UNION {Bits(f.at) : f \in faults}) \cup Bits(at),
                    ft    |-> (UNION {Bits(f.ft) : f \in faults}) \cup Bits(result.ft),
                    level |-> (UNION {Bits(f.level) : f \in faults}) \cup Bits(result.level),
                    fav   |-> (\E f \in faults : OfData(f)) \/ ~Instruction(asi)]
        BY <2>1, <4>2, CollectedAdds, Zenon
      <4> QED
        BY <3>1, <3>2, <4>1, <4>3, Zenon
    <3>4. \E f \in faults' : far' = f.va
      BY <2>1, <2>3
    <3> QED
      BY <3>3, <3>4, Zenon DEF FaultDescribed, OfData
  <2> QED
    BY <2>2, <2>4, <2>5
<1> QED
  BY <1>2, <1>3

\* What a look-up comes to: what it lets through is mapped, and goes where the walk ends.
LEMMA ResultFacts ==
    ASSUME IInv, NEW va \in Pages, NEW kind \in Kinds, NEW asi \in Asis
    PROVE  /\ Result(va, kind, asi).page \in Frames
           /\ Result(va, kind, asi).ft \in 0..4
           /\ Result(va, kind, asi).level \in 0..3
           /\ Result(va, kind, asi).passes =>
                 Mapped(va) /\ Result(va, kind, asi).page = PageOf(va)
<1> DEFINE res == Translated(va, AccessType(kind, asi))
<1>1. va \in Frames /\ AccessType(kind, asi) \in 0..7
  BY AccessTypes, MmuAssumption
<1>2. /\ res.page \in Frames /\ res.ft \in 0..4 /\ res.level \in 0..3
      /\ res.entry = Walk(va).entry
      /\ res.page = Walk(va).page
  BY <1>1, TranslatedFacts DEF IInv, TypeOK
<1> HIDE DEF res
<1>3. CASE enabled
  <2>1. Result(va, kind, asi) =
          [passes |-> Passes(res, asi), page |-> res.page, ft |-> res.ft, level |-> res.level]
    BY <1>3 DEF Result, res
  <2>2. Passes(res, asi) => res.entry
    BY DEF Passes
  <2> QED
    BY <1>2, <1>3, <2>1, <2>2 DEF Mapped, PageOf
<1>4. CASE ~enabled
  <2>1. Result(va, kind, asi) = [passes |-> TRUE, page |-> va, ft |-> 0, level |-> 0]
    BY <1>4 DEF Result
  <2> QED
    BY <1>1, <1>4, <2>1 DEF Mapped, PageOf
<1> QED
  BY <1>3, <1>4

LEMMA LookUpKeeps ==
    ASSUME IInv, NEW va \in Pages, NEW kind \in Kinds, NEW asi \in Asis,
           LookUp(va, kind, asi, Result(va, kind, asi))
    PROVE  /\ fsr' \in FsrType /\ far' \in Frames
           /\ tlb' \in [Sides -> SUBSET Pages]
           /\ \A s \in Sides : Cardinality(tlb'[s]) <= TlbSize
           /\ History' /\ FaultDescribed'
<1> DEFINE at  == AccessType(kind, asi)
           result == Result(va, kind, asi)
           b == Buffer(kind)
<1>1. va \in Frames /\ at \in 0..7 /\ (Instruction(asi) <=> at \in {2, 3, 6, 7})
  BY AccessTypes, MmuAssumption
<1>2. result.ft \in 0..4 /\ result.level \in 0..3
  BY ResultFacts
<1>3. /\ tlb \in [Sides -> SUBSET Pages]
      /\ \A s \in Sides : Cardinality(tlb[s]) <= TlbSize
  BY DEF IInv, TypeOK
<1>4. b \in Sides
  BY DEF Buffer, Sides
<1>5. /\ Report(va, at, result, asi)
      /\ tlb' = tlb \/ tlb' = [tlb EXCEPT ![b] = Inserted(tlb[b], va)]
  BY <1>3, <1>4 DEF LookUp
<1> HIDE DEF at, result, b
<1>6. /\ Inserted(tlb[b], va) \subseteq Pages
      /\ Cardinality(Inserted(tlb[b], va)) <= TlbSize
  BY <1>3, <1>4, InsertedFits
<1>7. /\ tlb' \in [Sides -> SUBSET Pages]
      /\ \A s \in Sides : Cardinality(tlb'[s]) <= TlbSize
  BY <1>3, <1>4, <1>5, <1>6
<1> QED
  BY <1>1, <1>2, <1>5, <1>7, ReportKeeps

-----------------------------------------------------------------------------
(* The accesses                                                            *)

\* Only the tables, the context and the enable bit decide about a translation.
LEMMA SameTranslation ==
    ASSUME table' = table, context' = context, enabled' = enabled, NEW va
    PROVE  (Mapped(va))' = Mapped(va) /\ (PageOf(va))' = PageOf(va) /\ (Walk(va))' = Walk(va)
<1>1. (Walk(va))' = Walk(va)
  BY DEF Walk, First, Second, Third
<1> QED
  BY <1>1 DEF Mapped, PageOf

LEMMA MissSound ==
    ASSUME IInv, NEW va \in Pages, NEW kind \in {"load", "fetch"}, NEW asi \in Asis,
           Miss(va, kind, asi)
    PROVE  IInv'
<1> DEFINE result == Result(va, kind, asi)
           s == Side(kind)
<1>1. kind \in Kinds /\ s \in Sides
  BY DEF Kinds, Side, Sides
<1>2. /\ LookUp(va, kind, asi, result)
      /\ cache' = IF result.passes /\ result.page \in Cacheable
                  THEN [cache EXCEPT ![s][va] = mem[result.page]] ELSE cache
      /\ UNCHANGED <<registers, table, mem, ops, tidy>>
  BY DEF Miss
<1>3. result.page \in Frames /\ (result.passes => Mapped(va) /\ result.page = PageOf(va))
  BY <1>1, ResultFacts
<1> HIDE DEF result, s
<1>4. /\ fsr' \in FsrType /\ far' \in Frames
      /\ tlb' \in [Sides -> SUBSET Pages]
      /\ \A t \in Sides : Cardinality(tlb'[t]) <= TlbSize
      /\ History' /\ FaultDescribed'
  BY <1>1, <1>2, LookUpKeeps DEF result
<1>5. /\ cache \in [Sides -> [Pages -> Values \cup {NoVal}]] /\ mem \in [Frames -> Values]
  BY DEF IInv, TypeOK
<1>6. cache' \in [Sides -> [Pages -> Values \cup {NoVal}]]
  BY <1>1, <1>2, <1>3, <1>5
<1>7. TypeOK'
  BY <1>2, <1>4, <1>6 DEF IInv, TypeOK, FsrType, registers
<1>8. Honest'
  <2> SUFFICES ASSUME NEW t \in Sides, NEW x \in Pages, tidy'[t], cache'[t][x] # NoVal
               PROVE  (Mapped(x))' /\ cache'[t][x] = mem'[(PageOf(x))']
    BY DEF Honest
  <2>1. (Mapped(x))' = Mapped(x) /\ (PageOf(x))' = PageOf(x)
    BY <1>2, SameTranslation DEF registers
  <2>2. mem' = mem /\ tidy' = tidy
    BY <1>2
  <2>3. CASE cache'[t][x] = cache[t][x]
    <3>1. Mapped(x) /\ cache[t][x] = mem[PageOf(x)]
      BY <2>2, <2>3 DEF IInv, Honest
    <3> QED
      BY <2>1, <2>2, <2>3, <3>1
  <2>4. CASE cache'[t][x] # cache[t][x]
    <3>1. t = s /\ x = va /\ result.passes /\ cache'[t][x] = mem[result.page]
      BY <1>1, <1>2, <1>5, <2>4
    <3> QED
      BY <1>3, <2>1, <2>2, <3>1
  <2> QED
    BY <2>3, <2>4
<1> QED
  BY <1>4, <1>7, <1>8 DEF IInv

LEMMA ForcedSound ==
    ASSUME IInv, NEW va \in Pages, NEW asi \in Asis, Forced(va, asi)
    PROVE  IInv'
<1> DEFINE result == Result(va, "load", asi)
<1>1. "load" \in Kinds /\ "d" \in Sides
  BY DEF Kinds, Sides
<1>2. PICK garbage \in Values :
        cache' = [cache EXCEPT !["d"][va] = IF result.passes THEN mem[result.page] ELSE garbage]
  BY DEF Forced
<1>3. /\ LookUp(va, "load", asi, result)
      /\ tidy' = [tidy EXCEPT !["d"] = tidy["d"] /\ result.passes]
      /\ UNCHANGED <<registers, table, mem, ops>>
  BY DEF Forced, IInv, TypeOK
<1>4. result.page \in Frames /\ (result.passes => Mapped(va) /\ result.page = PageOf(va))
  BY <1>1, ResultFacts
<1> HIDE DEF result
<1>5. /\ fsr' \in FsrType /\ far' \in Frames
      /\ tlb' \in [Sides -> SUBSET Pages]
      /\ \A t \in Sides : Cardinality(tlb'[t]) <= TlbSize
      /\ History' /\ FaultDescribed'
  BY <1>1, <1>3, LookUpKeeps DEF result
<1>6. /\ cache \in [Sides -> [Pages -> Values \cup {NoVal}]] /\ mem \in [Frames -> Values]
      /\ tidy \in [Sides -> BOOLEAN]
  BY DEF IInv, TypeOK
<1>7. cache' \in [Sides -> [Pages -> Values \cup {NoVal}]]
  BY <1>1, <1>2, <1>4, <1>6
<1>8. /\ tidy' \in [Sides -> BOOLEAN]
      /\ \A t \in Sides : tidy'[t] => tidy[t] /\ (t = "d" => result.passes)
  <2>1. (tidy["d"] /\ result.passes) \in BOOLEAN
    OBVIOUS
  <2> QED
    BY <1>1, <1>3, <1>6, <2>1
<1>9. TypeOK'
  BY <1>3, <1>5, <1>7, <1>8 DEF IInv, TypeOK, FsrType, registers
<1>10. Honest'
  <2> SUFFICES ASSUME NEW t \in Sides, NEW x \in Pages, tidy'[t], cache'[t][x] # NoVal
               PROVE  (Mapped(x))' /\ cache'[t][x] = mem'[(PageOf(x))']
    BY DEF Honest
  <2>1. (Mapped(x))' = Mapped(x) /\ (PageOf(x))' = PageOf(x)
    BY <1>3, SameTranslation DEF registers
  <2>2. mem' = mem
    BY <1>3
  <2>3. CASE t = "d" /\ x = va
    <3>1. cache'[t][x] = mem[result.page] /\ result.passes
      BY <1>1, <1>2, <1>6, <1>8, <2>3
    <3> QED
      BY <1>4, <2>1, <2>2, <2>3, <3>1
  <2>4. CASE ~(t = "d" /\ x = va)
    <3>1. cache'[t][x] = cache[t][x]
      BY <1>1, <1>2, <1>6, <2>4
    <3>2. Mapped(x) /\ cache[t][x] = mem[PageOf(x)]
      BY <1>8, <3>1 DEF IInv, Honest
    <3> QED
      BY <2>1, <2>2, <3>1, <3>2
  <2> QED
    BY <2>3, <2>4
<1> QED
  BY <1>5, <1>9, <1>10 DEF IInv

LEMMA StoreSound ==
    ASSUME IInv, NEW va \in Pages, NEW asi \in Asis, NEW val \in Values,
           Store(va, asi, val)
    PROVE  IInv'
<1> DEFINE result == Result(va, "store", asi)
           hit == cache["d"][va] # NoVal
           others == Others(va, result.page)
<1>1. "store" \in Kinds /\ "d" \in Sides /\ "i" \in Sides /\ Sides = {"i", "d"} /\ "i" # "d"
  BY DEF Kinds, Sides
<1>2. /\ LookUp(va, "store", asi, result)
      /\ cache' = IF hit THEN [cache EXCEPT !["d"][va] = val] ELSE cache
      /\ mem' = IF result.passes THEN [mem EXCEPT ![result.page] = val] ELSE mem
      /\ tidy' = [i |-> tidy.i /\ mem' = mem,
                  d |-> tidy.d /\ (IF result.passes THEN others = {} ELSE ~hit)]
      /\ UNCHANGED <<registers, table, ops>>
  BY DEF Store
<1>3. result.page \in Frames /\ (result.passes => Mapped(va) /\ result.page = PageOf(va))
  BY <1>1, ResultFacts
<1> HIDE DEF result
<1>4. /\ fsr' \in FsrType /\ far' \in Frames
      /\ tlb' \in [Sides -> SUBSET Pages]
      /\ \A t \in Sides : Cardinality(tlb'[t]) <= TlbSize
      /\ History' /\ FaultDescribed'
  BY <1>1, <1>2, LookUpKeeps DEF result
<1>5. /\ cache \in [Sides -> [Pages -> Values \cup {NoVal}]] /\ mem \in [Frames -> Values]
      /\ tidy \in [Sides -> BOOLEAN]
  BY DEF IInv, TypeOK
<1>6. /\ cache' \in [Sides -> [Pages -> Values \cup {NoVal}]]
      /\ mem' \in [Frames -> Values]
  BY <1>1, <1>2, <1>3, <1>5
<1>7. tidy' \in [Sides -> BOOLEAN]
  <2> DEFINE a == tidy.i /\ mem' = mem
             b == tidy.d /\ (IF result.passes THEN others = {} ELSE ~hit)
  <2>1. a \in BOOLEAN /\ b \in BOOLEAN
    OBVIOUS
  <2>2. tidy' = [i |-> a, d |-> b]
    BY <1>2
  <2> HIDE DEF a, b
  <2> QED
    BY <1>1, <2>1, <2>2
<1>8. /\ tidy'["i"] => tidy["i"] /\ mem' = mem
      /\ tidy'["d"] => tidy["d"] /\ (IF result.passes THEN others = {} ELSE ~hit)
  BY <1>2, Zenon
<1> HIDE DEF hit, others
<1>9. TypeOK'
  BY <1>2, <1>4, <1>6, <1>7 DEF IInv, TypeOK, FsrType, registers
<1>10. Honest'
  <2> SUFFICES ASSUME NEW t \in Sides, NEW x \in Pages, tidy'[t], cache'[t][x] # NoVal
               PROVE  (Mapped(x))' /\ cache'[t][x] = mem'[(PageOf(x))']
    BY DEF Honest
  <2>1. (Mapped(x))' = Mapped(x) /\ (PageOf(x))' = PageOf(x)
    BY <1>2, SameTranslation DEF registers
  <2>2. tidy[t]
    BY <1>1, <1>8
  <2>3. ASSUME cache'[t][x] = cache[t][x]
        PROVE  Mapped(x) /\ cache[t][x] = mem[PageOf(x)]
    BY <2>2, <2>3 DEF IInv, Honest
  <2>4. CASE t = "i"
    <3>1. cache'[t][x] = cache[t][x] /\ mem' = mem
      BY <1>1, <1>2, <1>5, <1>8, <2>4
    <3> QED
      BY <2>1, <2>3, <3>1
  <2>5. CASE t = "d" /\ result.passes /\ x = va
    <3>1. hit
      BY <1>2, <2>5 DEF hit
    <3>2. cache'[t][x] = val /\ mem'[result.page] = val
      BY <1>1, <1>2, <1>3, <1>5, <2>5, <3>1
    <3> QED
      BY <1>3, <2>1, <2>5, <3>2
  <2>6. CASE t = "d" /\ result.passes /\ x # va
    <3>1. cache'[t][x] = cache[t][x]
      BY <1>1, <1>2, <1>5, <2>6
    <3>2. Mapped(x) /\ cache[t][x] = mem[PageOf(x)] /\ cache["d"][x] # NoVal
      BY <2>3, <2>6, <3>1
    <3>3. PageOf(x) # result.page
      <4>1. x \notin others
        BY <1>8, <2>6
      <4> QED
        BY <2>6, <3>2, <4>1 DEF others, Others
    <3>4. mem'[PageOf(x)] = mem[PageOf(x)]
      BY <1>2, <1>5, <3>3, <2>6
    <3> QED
      BY <2>1, <3>1, <3>2, <3>4
  <2>7. CASE t = "d" /\ ~result.passes
    <3>1. cache'[t][x] = cache[t][x] /\ mem' = mem
      BY <1>2, <1>8, <2>7
    <3> QED
      BY <2>1, <2>3, <3>1
  <2> QED
    BY <1>1, <2>4, <2>5, <2>6, <2>7
<1> QED
  BY <1>4, <1>9, <1>10 DEF IInv

-----------------------------------------------------------------------------
(* The operating system                                                    *)

\* After a change of the translation nothing is promised of what a cache holds.
LEMMA UntidyKeeps ==
    ASSUME IInv, Untidy, cache' = cache
    PROVE  tidy' \in [Sides -> BOOLEAN] /\ Honest'
<1>1. \A s \in Sides : tidy'[s] = \A va \in Pages : cache[s][va] = NoVal
  BY DEF Untidy
<1>2. tidy' \in [Sides -> BOOLEAN]
  BY DEF Untidy
<1>3. Honest'
  BY <1>1 DEF Honest
<1> QED
  BY <1>2, <1>3

LEMMA OpKeeps == IInv /\ Op => ops' \in 0..MaxOps
BY MmuAssumption DEF IInv, TypeOK, Op

LEMMA WriteTableSound ==
    ASSUME IInv, NEW w \in Writable, WriteTable(w[1], w[2])
    PROVE  IInv'
<1>1. w[1] \in Cells /\ w[2] \in Entries
  BY MmuAssumption
<1>2. table' \in [Cells -> Entries]
  BY <1>1 DEF WriteTable, IInv, TypeOK
<1>3. tidy' \in [Sides -> BOOLEAN] /\ Honest' /\ ops' \in 0..MaxOps
  BY UntidyKeeps, OpKeeps DEF WriteTable
<1>4. TypeOK'
  BY <1>2, <1>3 DEF WriteTable, registers, IInv, TypeOK
<1> QED
  BY <1>3, <1>4 DEF WriteTable, IInv, History, FaultDescribed

LEMMA WriteContextSound ==
    ASSUME IInv, NEW c \in Contexts, WriteContext(c)
    PROVE  IInv'
<1>1. tidy' \in [Sides -> BOOLEAN] /\ Honest' /\ ops' \in 0..MaxOps
  BY UntidyKeeps, OpKeeps DEF WriteContext
<1>2. TypeOK'
  BY <1>1 DEF WriteContext, IInv, TypeOK
<1> QED
  BY <1>1, <1>2 DEF WriteContext, IInv, History, FaultDescribed

LEMMA WriteControlSound ==
    ASSUME IInv, NEW e \in BOOLEAN, NEW nf \in BOOLEAN, WriteControl(e, nf)
    PROVE  IInv'
<1>1. tidy' \in [Sides -> BOOLEAN] /\ Honest' /\ ops' \in 0..MaxOps
  BY UntidyKeeps, OpKeeps DEF WriteControl
<1>2. TypeOK'
  BY <1>1 DEF WriteControl, IInv, TypeOK
<1> QED
  BY <1>1, <1>2 DEF WriteControl, IInv, History, FaultDescribed

\* What does not touch a copy, the tables or a history leaves the caches honest.
LEMMA HonestStays ==
    ASSUME IInv, UNCHANGED <<registers, table, mem>>, NEW s \in Sides,
           tidy'[s] => tidy[s], cache'[s] = cache[s]
    PROVE  \A va \in Pages :
             tidy'[s] /\ cache'[s][va] # NoVal =>
                 (Mapped(va))' /\ cache'[s][va] = mem'[(PageOf(va))']
<1> SUFFICES ASSUME NEW va \in Pages, tidy'[s], cache'[s][va] # NoVal
             PROVE  (Mapped(va))' /\ cache'[s][va] = mem'[(PageOf(va))']
  OBVIOUS
<1>1. (Mapped(va))' = Mapped(va) /\ (PageOf(va))' = PageOf(va)
  BY SameTranslation DEF registers
<1>2. Mapped(va) /\ cache[s][va] = mem[PageOf(va)]
  BY DEF IInv, Honest
<1> QED
  BY <1>1, <1>2

LEMMA ReadStatusSound ==
    ASSUME IInv, ReadStatus
    PROVE  IInv'
<1>1. NoFsr \in FsrType
  BY Clear
<1>2. TypeOK'
  BY <1>1 DEF ReadStatus, registers, IInv, TypeOK, FsrType
<1>3. Honest'
  BY HonestStays DEF ReadStatus, Honest
<1>4. faults' = {} /\ fsr' = NoFsr
  BY DEF ReadStatus
<1>5. History' /\ FaultDescribed'
  <2>1. /\ UNION {Bits(f.at) : f \in faults'} = {}
        /\ UNION {Bits(f.ft) : f \in faults'} = {}
        /\ UNION {Bits(f.level) : f \in faults'} = {}
        /\ (faults' # {}) = FALSE
        /\ (\E f \in faults' : f.at \notin {2, 3, 6, 7}) = FALSE
    BY <1>4
  <2>2. FaultDescribed'
    BY <1>4, <2>1, Zenon DEF FaultDescribed, NoFsr
  <2> QED
    BY <1>4, <2>2 DEF History
<1> QED
  BY <1>2, <1>3, <1>5 DEF IInv

LEMMA FlushCacheSound ==
    ASSUME IInv, NEW s \in Sides, FlushCache(s)
    PROVE  IInv'
<1>1. /\ cache \in [Sides -> [Pages -> Values \cup {NoVal}]] /\ tidy \in [Sides -> BOOLEAN]
  BY DEF IInv, TypeOK
<1>2. /\ cache' \in [Sides -> [Pages -> Values \cup {NoVal}]]
      /\ tidy' \in [Sides -> BOOLEAN]
      /\ \A va \in Pages : cache'[s][va] = NoVal
      /\ \A t \in Sides \ {s} : cache'[t] = cache[t] /\ tidy'[t] = tidy[t]
  BY <1>1 DEF FlushCache
<1>3. TypeOK'
  BY <1>2 DEF FlushCache, registers, IInv, TypeOK
<1>4. Honest'
  BY <1>2, HonestStays DEF FlushCache, Honest
<1> QED
  BY <1>3, <1>4 DEF FlushCache, IInv, History, FaultDescribed

LEMMA FlushTlbSound ==
    ASSUME IInv, FlushTlb
    PROVE  IInv'
<1>1. \A s \in Sides : tlb'[s] = {} /\ Cardinality(tlb'[s]) <= TlbSize
  BY FS_EmptySet, MmuAssumption DEF FlushTlb
<1>2. tlb' \in [Sides -> SUBSET Pages]
  BY DEF FlushTlb
<1>3. TypeOK'
  BY <1>1, <1>2 DEF FlushTlb, registers, IInv, TypeOK
<1>4. Honest'
  BY HonestStays DEF FlushTlb, Honest
<1> QED
  BY <1>3, <1>4 DEF FlushTlb, IInv, History, FaultDescribed

-----------------------------------------------------------------------------
(* The theorems                                                            *)

LEMMA InitSound == Init => IInv
<1> SUFFICES ASSUME Init PROVE IInv
  OBVIOUS
<1>1. /\ table \in [Cells -> Entries] /\ mem \in [Frames -> Values]
      /\ cache \in [Sides -> [Pages -> Values \cup {NoVal}]]
  BY MmuAssumption DEF Init
<1>2. /\ tlb \in [Sides -> SUBSET Pages]
      /\ \A s \in Sides : Cardinality(tlb[s]) <= TlbSize
  BY FS_EmptySet, MmuAssumption DEF Init
<1>3. tidy \in [Sides -> BOOLEAN] /\ ops \in 0..MaxOps /\ far \in Frames
  BY MmuAssumption DEF Init, Frames
<1>4. fsr \in FsrType
  BY Clear DEF Init
<1>5. TypeOK
  BY <1>1, <1>2, <1>3, <1>4 DEF Init, TypeOK, FsrType
<1>6. faults = {} /\ fsr = NoFsr
  BY DEF Init
<1>7. History /\ FaultDescribed
  BY <1>6, Clear DEF History
<1>8. Honest
  BY DEF Init, Honest
<1> QED
  BY <1>5, <1>7, <1>8 DEF IInv

LEMMA NextSound == IInv /\ [Next]_vars => IInv'
<1> SUFFICES ASSUME IInv, [Next]_vars PROVE IInv'
  OBVIOUS
<1>1. CASE Access
  <2>1. PICK va \in Pages :
          \/ \E asi \in FetchAsis : Miss(va, "fetch", asi)
          \/ \E asi \in DataAsis :
                \/ Miss(va, "load", asi)
                \/ Forced(va, asi)
                \/ \E val \in Values : Store(va, asi, val)
    BY <1>1 DEF Access
  <2>2. FetchAsis \subseteq Asis /\ DataAsis \subseteq Asis
    BY MmuAssumption DEF FetchAsis, Asis
  <2> QED
    BY <2>1, <2>2, MissSound, StoreSound, ForcedSound
<1>2. ASSUME NEW w \in Writable, WriteTable(w[1], w[2]) PROVE IInv'
  BY <1>2, WriteTableSound
<1>3. ASSUME NEW c \in Contexts, WriteContext(c) PROVE IInv'
  BY <1>3, WriteContextSound
<1>4. ASSUME NEW e \in BOOLEAN, NEW nf \in BOOLEAN, WriteControl(e, nf) PROVE IInv'
  BY <1>4, WriteControlSound
<1>5. ASSUME NEW s \in Sides, FlushCache(s) PROVE IInv'
  BY <1>5, FlushCacheSound
<1>6. CASE UNCHANGED vars
  <2>1. TypeOK'
    BY <1>6 DEF vars, registers, IInv, TypeOK
  <2>2. Honest'
    BY <1>6, HonestStays DEF vars, registers, Honest
  <2> QED
    BY <1>6, <2>1, <2>2 DEF vars, IInv, History, FaultDescribed
<1> QED
  BY <1>1, <1>2, <1>3, <1>4, <1>5, <1>6, ReadStatusSound, FlushTlbSound DEF Next, System

\* The registers stay in type and no buffer outgrows its size, for any size and any
\* sequence of walks (mmu.cpp:635-651, 873-930).
THEOREM MmuTypes == Spec => []TypeOK
<1>1. IInv => TypeOK
  BY DEF IInv
<1> QED
  BY <1>1, InitSound, NextSound, PTL DEF Spec

\* Virtual caches that are flushed after every change of the translation return what
\* the translation leads to, for all page tables and all changes to them.
THEOREM CachesAreHonest == Spec => []Honest
<1>1. IInv => Honest
  BY DEF IInv
<1> QED
  BY <1>1, InitSound, NextSound, PTL DEF Spec

\* The status register sums up the faults since it was read, in any number and order,
\* and the address is that of one of them (mmu.cpp:576-595, 784-798).
THEOREM FaultsAreDescribed == Spec => []FaultDescribed
<1>1. IInv => FaultDescribed
  BY DEF IInv
<1> QED
  BY <1>1, InitSound, NextSound, PTL DEF Spec

\* A store that changes memory with faults enabled is one its own ASI permits.
LEMMA ChangesMayBeWritten ==
    ASSUME IInv, NEW va \in Pages, NEW asi \in Asis, NEW val \in Values,
           Store(va, asi, val), mem' # mem, enabled, ~noFault
    PROVE  MayWrite(va, asi)
<1> DEFINE at  == AccessType("store", asi)
           res == Translated(va, at)
<1>1. /\ at \in 0..7 /\ at \in 4..7 /\ va \in Frames
      /\ Supervisor(asi) = (at \in {5, 7})
  BY AccessTypes, MmuAssumption DEF Kinds, Supervisor
<1>2. Ends(Walk(va))
  BY <1>1, WalkEnds DEF IInv, TypeOK
<1>3. res.ft = 0 => Walk(va).ok
  BY <1>1, TranslatedFacts DEF IInv, TypeOK
<1>4. Passes(res, asi)
  <2>1. Result(va, "store", asi).passes
    BY DEF Store
  <2> QED
    BY <2>1 DEF Result
<1>5. res.ft = 0
  BY <1>4 DEF Passes, Traps
<1>6. Walk(va).ok /\ Walk(va).perm \in 0..7
  BY <1>2, <1>3, <1>5 DEF Ends
<1>7. res.ft = AccessTable[at + 1][Walk(va).perm + 1]
  BY <1>6 DEF Translated
<1> HIDE DEF at, res
<1>8. "W" \in Allowed(Walk(va).perm, at \in {5, 7})
  BY <1>1, <1>5, <1>6, <1>7, TablesAgree
<1> QED
  BY <1>1, <1>6, <1>8 DEF MayWrite

\* No sequence of changes to tables and registers lets a store through that its user, or
\* the supervisor, may not do there (mmu.cpp:178-187, 394-421, 610-630).
THEOREM StoresAreAllowed == Spec => StoresAllowed
<1>1. IInv /\ [Next]_vars =>
        [\A va \in Pages, asi \in DataAsis :
          mem' # mem /\ enabled /\ ~noFault /\ ~MayWrite(va, asi)
              => \A val \in Values : ~Store(va, asi, val)]_vars
  <2>1. DataAsis \subseteq Asis
    BY MmuAssumption
  <2> QED
    BY <2>1, ChangesMayBeWritten
<1> QED
  BY <1>1, InitSound, NextSound, PTL DEF Spec, StoresAllowed
=============================================================================
