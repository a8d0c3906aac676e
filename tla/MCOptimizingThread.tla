------------------------- MODULE MCOptimizingThread -------------------------
(* A few closures for TLC: two of one literal, and one of its own.          *)
EXTENDS OptimizingThread

CONSTANTS f1, f2, f3, s1, s2

TwoOfOneLiteral == [f \in Function |-> IF f = f3 THEN s2 ELSE s1]
=============================================================================
