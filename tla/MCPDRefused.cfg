\* The pool of D has just room for both requests: one is refused at first.
SPECIFICATION Spec
CONSTANTS
  r1 = r1
  r2 = r2
  None = None
  Reqs <- Two
  NumChunks <- Chunks21
  LoneTail = {r2}
  Abortable = {}
  Impatient = {}
  PPages = {1, 2}
  DPages = {1, 2, 3}
  Reserved = 0
  MaxInflight = 2
  MaxNewTokens = 2
  MaxAnswers = 2
  MaxFaults = 0
  Window = 1
INVARIANT NoPageLost
