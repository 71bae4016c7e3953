SPECIFICATION Spec
CONSTANTS
  q1 = q1
  q2 = q2
  q3 = q3
  a = a
  b = b
  Reqs = {q1, q2, q3}
  Tokens = {a, b}
  OutputTokens = {a}
  Deployments <- Servers
  ChunkSize = 2
  MaxRunning = 3
  RetractSteps = 1
INVARIANTS
  EveryPageHasOneOwner
  LocksAreExact
  PrefixStaysCached
  KVMatchesKey
  NeverOutOfMemory
