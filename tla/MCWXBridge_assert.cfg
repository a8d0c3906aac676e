SPECIFICATION Spec
CONSTANTS
  NoException = NoException
  Framework = Framework
  Instance = {i1, i2}
  Callback = {"callNative", "nativeLog"}
  LogClassFound = TRUE
  Tame = FALSE
  MaxFrames = 5
SYMMETRY Symmetry
INVARIANTS
  ReturnedNotCaught
