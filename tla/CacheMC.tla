------------------------------ MODULE CacheMC ------------------------------
(* Values for TLC.  Tags and values are model values where only their       *)
(* identity counts, and then they are interchangeable.                      *)
EXTENDS DataCache, TLC

MCTags == 0..2
MCFourTags == 0..3

Interchangeable == Permutations(Tags) \cup Permutations(Values)
=============================================================================
