CONSTANTS
  f1 = f1
  f2 = f2
  f3 = f3
  s1 = s1
  s2 = s2
  NoFunction = NoFunction
  Function = {f1, f2}
  Shared = {s1}
  SharedOf <- TwoOfOneLiteral
  HasLoops = {s1}
  QueueLength = 3
  Delay = FALSE
  MaxJobs = 3
SPECIFICATION Spec
INVARIANT ListedOnce
CHECK_DEADLOCK FALSE
