--------------------------- MODULE MCThreadManager ---------------------------
EXTENDS ThreadManager, TLC

CONSTANTS t1, t2

\* t1 nests a Locker in an Unlocker and has the Isolate::Scope; t2 has one
\* Locker at a time, and an Unlocker where it is preempted.
Scopes == t1 :> 3 @@ t2 :> 1
Entries1 == t1 :> 1 @@ t2 :> 0

\* Enough for t1 to be inside twice more while t2 is inside once more.
ManyScopes == t1 :> 3 @@ t2 :> 2
Entries2 == t1 :> 2 @@ t2 :> 1

\* t2 may open its next Locker deeper or less deep in its stack.
Depths == t1 :> {1} @@ t2 :> {1, 2}
=============================================================================
