\* Two requests share the pools of both servers; r1 may be aborted, and one
\* fault may happen anywhere.
SPECIFICATION Spec
CONSTANTS
  r1 = r1
  r2 = r2
  None = None
  Reqs <- Two
  NumChunks <- Chunks21
  LoneTail = {r2}
  Abortable <- One
  Impatient = {}
  PPages = {1, 2}
  DPages = {1, 2, 3}
  Reserved = 0
  MaxInflight = 2
  MaxNewTokens = 2
  MaxAnswers = 2
  MaxFaults = 1
  Window = 1
INVARIANTS
  SourcePagesIntact DestPagesHeld OwnKV OneOwner ChunkOwnersAgree HealthySucceed OneHome
