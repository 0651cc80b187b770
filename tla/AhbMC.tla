------------------------------- MODULE AhbMC -------------------------------
(***************************************************************************)
(* Instances of AhbBus for TLC: two processors, masters 0 and 1, and the   *)
(* AHBIn, master 2, on a bus with one memory.                              *)
(***************************************************************************)
EXTENDS AhbBus, TLC

OneLine == {"x"}
TwoLines == {"x", "y"}
OneWordFrame == <<"x">>
TwoWordFrame == <<"x", "y">>

Interchange == Permutations(Values)
=============================================================================
