SPECIFICATION FairSpec
CONSTANTS
  None = None
  q1 = q1
  q2 = q2
  q3 = q3
  Reqs = {q1, q2}
  PromptLen <- ShortAndLong
  Deployments <- RetractPause
  ChunkSize = 2
  MaxRunning = 2
  Overlap = {TRUE}
  PauseModes = {"retract"}
  MaxPauses = 1
  PauseAfterPrefill = FALSE
PROPERTY
  RetractedIsRecomputed
