CONSTANTS
  a = a
  b = b
  l = l
  Object = {a, b, l}
  Length <- Lengths
  Young = {a}
  Large = {l}
  Movable = {a, b}
  Holds <- Stored
  Nil = Nil
  Trimmed = Trimmed
  Stale = Stale
SPECIFICATION Spec
INVARIANTS
  TypeOK
  TriColor
  QueuedAreGrey
  PointersValid
