\* One request whose transfer may be aborted and time out on either side.
SPECIFICATION FairSpec
CONSTANTS
  r1 = r1
  r2 = r2
  None = None
  Reqs <- One
  NumChunks <- Chunks2
  LoneTail = {}
  Abortable <- One
  Impatient <- One
  PPages = {1, 2}
  DPages = {1, 2, 3}
  Reserved = 1
  MaxInflight = 2
  MaxNewTokens = 2
  MaxAnswers = 2
  MaxFaults = 0
  Window = 1
INVARIANTS SourcePagesHeld DestPagesHeld NoPageLost
PROPERTIES AnsweredOnce EveryRequestAnswered PagesReturn
