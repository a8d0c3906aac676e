-------------------------- MODULE MCGlobalHandles --------------------------
(* GlobalHandles for TLC.                                                   *)
EXTENDS GlobalHandles, TLC

CONSTANTS b1, b2, o1

Symmetry == Permutations(Block)
=============================================================================
