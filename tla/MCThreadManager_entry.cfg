SPECIFICATION Spec
CONSTANTS
  t1 = t1
  t2 = t2
  Thread = {t1, t2}
  NoThread = NoThread
  State = {s1, s2}
  NoState = NoState
  kIllegalLimit = kIllegalLimit
  kInterruptLimit = kInterruptLimit
  NoLimit = NoLimit
  Depth <- Depths
  MaxHandles = 0
  MaxScopes <- ManyScopes
  MaxEntries <- Entries2
INVARIANT EntryIsOwn
CHECK_DEADLOCK FALSE
