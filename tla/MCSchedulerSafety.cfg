SPECIFICATION Spec
CONSTANTS
  None = None
  q1 = q1
  q2 = q2
  q3 = q3
  Reqs = {q1, q2, q3}
  PromptLen <- ShortAndLong
  Deployments <- Safety
  ChunkSize = 2
  MaxRunning = 2
  Overlap = {TRUE, FALSE}
  PauseModes = {"in_place", "retract"}
  MaxPauses = 1
  PauseAfterPrefill = FALSE
INVARIANTS
  NeverCrashes
  OneHome
  AnsweredOnce
  TokensAccounted
  ChunksInFlight
  KVTracksTokens
