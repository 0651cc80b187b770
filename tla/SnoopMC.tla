------------------------------ MODULE SnoopMC ------------------------------
(* Values for TLC: two processors and the instructions that read and write. *)
EXTENDS SnoopSystem, TLC

SWAPA  == [lock |-> TRUE, forced |-> TRUE]
LDSTUBA == [lock |-> FALSE, forced |-> TRUE]

MCOwnId == [c \in CPUs |-> c]

MCFetched == Addresses
MCNone    == {}
MCSwapa   == {SWAPA}
MCLdstuba == {LDSTUBA}

Interchangeable == Permutations(CPUs) \cup Permutations(Tags) \cup Permutations(Values)
=============================================================================
