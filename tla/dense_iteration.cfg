SPECIFICATION Spec
CONSTANTS
  k1 = k1  k2 = k2  k3 = k3  k4 = k4  E = E  D = D  v = v
  NULL = NULL  NONE = NONE
  Key <- MCKey
  Val = {v}
  Hash <- MCHash
  DefaultKey = k1
  DefaultVal = v
  HT_MIN_BUCKETS = 4
  HT_DEFAULT_STARTING_BUCKETS = 4
  SizeMax = 31
  MaxSize = 7
  Items <- MCItems
  EmptyKey = E
  DeletedKey = D
  Sizes = {0, 4}
INVARIANTS IteratorStaysValid WalkIsComplete OnlyErasedAreGone
