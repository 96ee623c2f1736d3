SPECIFICATION Spec
CONSTANTS
  a1 = a1
  a2 = a2
  a3 = a3
  a4 = a4
  a5 = a5
  Address <- Addresses
  Sizes = {1, 2}
  TableCount = 2
  RehashAtPercent = 70
  ExpandFactor = 3
  MaxAllocations = 3
  MaxBytes = 3
  NullPointer = nullpointer
PROPERTIES
  DeinitReturnsLeaks
