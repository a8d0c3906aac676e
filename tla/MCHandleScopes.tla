--------------------------- MODULE MCHandleScopes ---------------------------
(* HandleScopes for TLC: small blocks, so that scopes often cross a block   *)
(* boundary, and two objects, to tell the values of handles apart.         *)
EXTENDS HandleScopes, TLC

CONSTANTS b1, b2, b3, o1, o2

Symmetry == Permutations(Block) \cup Permutations(Object)
=============================================================================
