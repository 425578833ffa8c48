SPECIFICATION BoundedSpec
CONSTANTS
  GROUP_SIZE = 4
  CHAR_BIT = 2
  BYTE = 4  SHORT = 1  INT = 1  LONG = 2
  default_value = 0
  UNINITIALIZED = UNINITIALIZED
  UNASSIGNED = UNASSIGNED
  Obj = {t1, t2}
  Val = {0, 1}
  Sizes = {0, 2, 4, 5}
  MaxAssigned = 3
SYMMETRY ObjSymmetry
INVARIANTS CountsAgree OffsetsAreRanks WalkVisitsAssigned ComparisonsAgree
PROPERTIES ImplementsArray
