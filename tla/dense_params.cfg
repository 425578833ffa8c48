SPECIFICATION Spec
CONSTANTS
  k1 = k1  k2 = k2  k3 = k3  k4 = k4  E = E  D = D
  v0 = v0  v1 = v1  v2 = v2
  NULL = NULL  MISSING = MISSING
  Key <- MCKey
  Val <- MCVal
  Hash <- MCHash
  DefaultKey = k1
  DefaultVal = v0
  HT_MIN_BUCKETS = 4
  HT_DEFAULT_STARTING_BUCKETS = 4
  SizeMax = 31
  MaxSize = 7
  Obj = {m1}
  Items <- ThreeItems
  Ranges <- NoSequence
  EmptyKeys = {E}
  DeletedKeys = {D, k3}
  Expected = {2, 5}
  Requests = {0}
  Factors <- SomeFactors
INVARIANTS ThresholdsInSync LookupsCorrect SearchesEnd CompactionEnds
PROPERTIES InsertionBoundsLoad NoThrashing NeverShrinksAtZero
