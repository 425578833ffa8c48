SPECIFICATION ChurnSpec
CONSTANTS
  Count = 64
  Window = 3
  Churned = m
  NULL = NULL  MISSING = MISSING
  Key <- MCKey
  Val = {v0}
  Hash <- MCHash
  DefaultKey = 0
  DefaultVal = v0
  HT_MIN_BUCKETS = 4
  HT_DEFAULT_STARTING_BUCKETS = 4
  SizeMax = 255
  MaxSize = 63
  Obj = {m}
  Items = {}
  Ranges = {}
  EmptyKeys = {}
  DeletedKeys = {}
  Expected = {}
  Requests = {}
  Factors = {}
INVARIANTS CapacityBounded WindowIsThere
