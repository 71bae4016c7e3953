SPECIFICATION FairSpec
CONSTANTS
  None = None
  q1 = q1
  q2 = q2
  q3 = q3
  Reqs = {q1, q2}
  PromptLen <- ShortAndLong
  Deployments <- Live
  ChunkSize = 2
  MaxRunning = 2
  Overlap = {TRUE, FALSE}
  PauseModes = {"in_place"}
  MaxPauses = 1
  PauseAfterPrefill = FALSE
INVARIANT
  LastRequestFits
PROPERTIES
  LateResultsAreDropped
  EveryRequestAnswered
  FullOnlyWhileExhausted
