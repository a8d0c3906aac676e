SPECIFICATION Spec
CONSTANTS
  NoException = NoException
  Framework = Framework
  Instance = {i1, i2}
  Callback = {"callNative", "nativeLog"}
  LogClassFound = FALSE
  Tame = TRUE
  MaxFrames = 6
SYMMETRY Symmetry
INVARIANTS
  TrueMeansNotCaught
  OwnExceptions
PROPERTIES
  EnteredWithoutExternal
