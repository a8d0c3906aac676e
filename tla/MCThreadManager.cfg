SPECIFICATION FairSpec
CONSTANTS
  t1 = t1
  t2 = t2
  Thread = {t1, t2}
  NoThread = NoThread
  State = {s1, s2}
  NoState = NoState
  kIllegalLimit = kIllegalLimit
  kInterruptLimit = kInterruptLimit
  NoLimit = NoLimit
  Depth <- Depths
  MaxHandles = 1
  MaxScopes <- Scopes
  MaxEntries <- Entries1
INVARIANTS
  TypeOK
  StatesAccounted
  CollectorSeesAll
  LimitsMatch
PROPERTIES
  ImplementsPerThread
  LockReleased
CHECK_DEADLOCK FALSE
