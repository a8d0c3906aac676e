------------------------ MODULE MCIncrementalMarking ------------------------
EXTENDS IncrementalMarking

CONSTANTS a, b, l

Lengths == [o \in Object |-> IF o \in Large THEN 2 ELSE 1]
Stored == [o \in Object |-> IF o = a THEN {b} ELSE {a}]
=============================================================================
