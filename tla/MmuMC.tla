------------------------------- MODULE MmuMC -------------------------------
(* A tree of three tables for TLC, and the entries software may replace.   *)
EXTENDS Mmu, TLC

MCTables == {"t1", "t2", "t3"}

Tree ==
    [c \in Cells |->
        CASE c = <<Root, 0>>  -> PTD("t1")
          [] c = <<"t1", 0>>  -> PTD("t2")
          [] c = <<"t2", 0>>  -> PTD("t3")
          [] c = <<"t3", 0>>  -> PTE(0, 3)      \* everybody may do anything
          [] c = <<"t3", 1>>  -> PTE(1, 5)      \* users may only read
          [] c = <<"t2", 1>>  -> PTE(1, 3)      \* everybody may do anything
          [] OTHER            -> Invalid]

\* Faults of both types, at the second level and the last; pages at every level, the
\* context table included (the other context has one of level 1); two addresses for
\* one page; a page of the supervisor only.
Changes ==
    { << <<Root, 1>>, PTD("t3") >>, << <<Root, 0>>, PTE(0, 3) >>,
      << <<"t2", 0>>, Reserved  >>, << <<"t3", 0>>, Invalid   >>,
      << <<"t3", 0>>, PTE(2, 6) >>, << <<"t3", 1>>, PTE(0, 3) >> }

Interchange == Permutations(Values)
=============================================================================
