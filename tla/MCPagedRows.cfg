SPECIFICATION RowSpec
CONSTANTS
  Ranks = {r0, r1}
  NumPages = 3
  Reqs = {q1, q2}
  PageSize = 2
  MaxLen = 5
INVARIANTS
  TypeOK
  NoDuplicates
  PagePartition
  RowLayout
  RowsDivideHeld
PROPERTY
  ImplementsKVPool
SYMMETRY Symmetric
