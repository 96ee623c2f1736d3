SPECIFICATION FairSpec
CONSTANTS
  MaxCount = 6
  MaxWord = 7
  NoIndex = noindex
INVARIANTS
  TypeOK
  Narrowing
  ReturnsLowerBound
  HalvesEachTurn
PROPERTIES
  Terminates
CHECK_DEADLOCK FALSE
