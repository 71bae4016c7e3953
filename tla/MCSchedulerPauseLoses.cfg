SPECIFICATION Spec
CONSTANTS
  None = None
  q1 = q1
  q2 = q2
  q3 = q3
  Reqs = {q1, q2}
  PromptLen <- ShortAndLong
  Deployments <- NoAborts
  ChunkSize = 2
  MaxRunning = 2
  Overlap = {TRUE}
  PauseModes = {"in_place"}
  MaxPauses = 1
  PauseAfterPrefill = TRUE
INVARIANT PausedRequestsStay
