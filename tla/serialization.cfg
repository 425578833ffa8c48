SPECIFICATION BoundedSpec
CONSTANTS
  SizeMax = 31
  HT_MIN_BUCKETS = 4
  HT_DEFAULT_STARTING_BUCKETS = 4
  k1 = k1  k2 = k2  E = E  R = R
  v0 = v0  v1 = v1
  Key <- MCKey
  DefaultKey = k1
  Val = {v0, v1}
  DefaultVal = v0
  Hash <- MCHash
  MaxSize = 7
  NULL = NULL
  GROUP_SIZE = 3
  CHAR_BIT = 2
  BYTE = 5  SHORT = 1  INT = 1  LONG = 2
  UNINITIALIZED = UNINITIALIZED
  EmptyKey = E
  DeletedKey = R
  Items <- MCItems
  Expected = {0, 3}
  MaxFile = 30
  MaxObjects = 2
INVARIANTS LoadedInOrder ClearRecovers
PROPERTIES LoadsWhatWasSaved
