CONSTANTS
  f1 = f1
  f2 = f2
  f3 = f3
  s1 = s1
  s2 = s2
  NoFunction = NoFunction
  Function = {f1, f2, f3}
  Shared = {s1, s2}
  SharedOf <- TwoOfOneLiteral
  HasLoops = {s2}
  QueueLength = 2
  Delay = TRUE
  MaxJobs = 3
SPECIFICATION FairSpec
INVARIANTS
  TypeOK
  DequeueFindsJob
  WaitersHaveJobs
  MarksUnoptimized
  DrainedAtStop
  ListIsExact
PROPERTIES CallEnds StopEnds
CHECK_DEADLOCK FALSE
