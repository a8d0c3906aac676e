--------------------------- MODULE MCUnboundQueue ---------------------------
(* An instance of UnboundQueue small enough to check: fewer addresses than  *)
(* records, so that the allocator hands addresses out again.                *)
EXTENDS UnboundQueue

CONSTANTS n1, n2, n3, n4
=============================================================================
