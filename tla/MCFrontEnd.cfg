SPECIFICATION FairSpec
CONSTANTS
  c1 = c1
  c2 = c2
  Calls = {c1, c2}
  Workloads <- Mixed
  Surround = 1
  EndsChar <- EveryToken
  MaxStates = 2
  SampleNum = 2
  StreamInterval = 1
  ForceInterval = 2
  MaxPauses = 1
  MaxQueued = 2
INVARIANTS
  AnswerIsExact
  FinalIsLast
  NothingIsSkipped
PROPERTIES
  EveryCallReturns
  NothingStaysBehind
CHECK_DEADLOCK FALSE
