SPECIFICATION BoundedSpec
CONSTANTS
  SizeMax = 63
  HT_MIN_BUCKETS = 4
  HT_DEFAULT_STARTING_BUCKETS = 4
  Key <- MCKey
  DefaultKey = 0
  v0 = v0
  v1 = v1
  Val <- MCVal
  DefaultVal = v0
  Hash <- MCHash
  MaxSize = 16
  GROUP_SIZE = 3
  CHAR_BIT = 2
  BYTE = 4  SHORT = 1  INT = 1  LONG = 2
  UNINITIALIZED = UNINITIALIZED
  m1 = m1
  m2 = m2
  Obj <- MCObj
  Items <- MCItems
  Ranges <- MCRanges
  DeletedKeys = {0}
  Expected = {0, 5}
  Requests = {5}
  Factors <- MCFactors
  MISSING = MISSING
  NONE = NONE
  MaxElements = 4
INVARIANTS CountersExact LookupsCorrect MoveFreesBehind
PROPERTIES MoveEnds ImplementsHashMap
VIEW WithoutAnswers
