SPECIFICATION Spec
INVARIANT TypeOK
INVARIANT FreeListExact
INVARIANT BlocksFit
PROPERTY AllocatorSpec
CONSTANTS
  Capacity = 3
  Junk = Junk
  ElemSizes = {1, 3, 4, 11}
  WordSize = 2
  Header = 4
  IntLimit = 16
CHECK_DEADLOCK FALSE
