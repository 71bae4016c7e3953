SPECIFICATION Spec
CONSTANTS
  c1 = c1
  c2 = c2
  Calls = {c1, c2}
  Workloads <- Stream
  Surround = 1
  EndsChar <- EveryOther
  MaxStates = 3
  SampleNum = 2
  StreamInterval = 1
  ForceInterval = 2
  MaxPauses = 0
  MaxQueued = 2
INVARIANT
  IncompleteIsDeferred
CHECK_DEADLOCK FALSE
