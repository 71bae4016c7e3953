SPECIFICATION Spec
CONSTANTS
  None = None
  q1 = q1
  q2 = q2
  q3 = q3
  Reqs = {q1, q3}
  PromptLen <- ShortAndLong
  Deployments <- AcrossRanks
  ChunkSize = 2
  MaxRunning = 2
  Overlap = {TRUE}
  PauseModes = {}
  MaxPauses = 0
  PauseAfterPrefill = FALSE
INVARIANT ChunkedAbortIsLast
