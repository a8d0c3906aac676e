----------------------------- MODULE MCWXBridge -----------------------------
EXTENDS WXBridge, TLC

Symmetry == Permutations(Instance)
=============================================================================
