SPECIFICATION Spec
CONSTANTS
  b1 = b1
  b2 = b2
  b3 = b3
  o1 = o1
  o2 = o2
  Block = {b1, b2, b3}
  NoBlock = NoBlock
  NoPtr = NoPtr
  kHandleBlockSize = 2
  Object = {o1, o2}
  Junk = Junk
  MaxDepth = 4
SYMMETRY Symmetry
INVARIANTS
  TypeOK
  NoScopeNoBlocks
  RootsAreLive
PROPERTY ImplementsStack
