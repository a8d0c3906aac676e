CONSTANTS
  n1 = n1
  n2 = n2
  n3 = n3
  n4 = n4
  Null = Null
  Node = {n1, n2, n3, n4}
  MaxRecords = 5
SPECIFICATION Spec
INVARIANT DequeueFindsRecord
CHECK_DEADLOCK FALSE
