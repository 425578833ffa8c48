SPECIFICATION Spec
CONSTANTS
  g1 = g1  g2 = g2
  t1 = t1  t2 = t2
  NULL = NULL
  Group <- MCGroup
  Object <- MCObject
  Address <- MCAddress
  Types <- MCTypes
  GROUP_SIZE = 3
  BucketCounts = {2, 3}
INVARIANTS LifetimesRespected ArraysOwned
SYMMETRY Symmetry
