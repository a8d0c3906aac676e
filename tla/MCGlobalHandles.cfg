SPECIFICATION Spec
CONSTANTS
  b1 = b1
  b2 = b2
  o1 = o1
  Block = {b1, b2}
  kSize = 2
  Object = {o1}
  Null = Null
  MaxHandles = 3
  MaxRounds = 2
  InCallback = {"Create", "Destroy", "MakeWeak", "Scavenge", "MarkCompact"}
SYMMETRY Symmetry
INVARIANTS
  TypeOK
  HandlesValid
  ListsExact
  NoneForgotten
