SPECIFICATION Spec
CONSTANTS
  NoException = NoException
  Framework = Framework
  Instance = {i1, i2}
  Callback = {"callNative", "callAddElement", "setTimeoutNative", "nativeLog"}
  LogClassFound = TRUE
  Tame = FALSE
  MaxFrames = 5
SYMMETRY Symmetry
INVARIANTS
  TypeOK
  LocalRefsDeleted
  EmptyMeansCaught
  CatcherRegistered
  ScheduledUnderCallback
