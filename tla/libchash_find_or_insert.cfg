SPECIFICATION BoundedSpec
CONSTANTS
  k1 = k1  k2 = k2  k3 = k3  w1 = w1
  v0 = v0  v1 = v1
  Key <- MCKey
  Hash32 <- MCHash32
  KeyTrunc <- MCKeyTrunc
  Kinds = {"Sparse", "Dense"}
  Data = {v0, v1}
  Goals <- MCGoals
  WORD_BITS = 2
  BM_WORDS = 2
  DISK_BITS = 2
  MIN_HASH_SIZE = 4
  MaxBuckets = 16
  MaxOccupied = 3
  EMPTY = EMPTY
  DELETED = DELETED
  NULL = NULL
  UNINITIALIZED = UNINITIALIZED
VIEW WithoutAnswers
INVARIANT SanityCheck
