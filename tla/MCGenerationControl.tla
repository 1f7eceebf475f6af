------------------------- MODULE MCGenerationControl -------------------------
(* A small instance of GenerationControl: two processes, which are alike,  *)
(* two generations and two sessions.                                       *)
EXTENDS GenerationControl, TLC

CONSTANTS p1, p2

Rows == [generation |-> 2, discovery |-> 0, session |-> 2]
Swaps == Permutations({p1, p2})
=============================================================================
