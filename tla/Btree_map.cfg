SPECIFICATION Spec
CONSTANTS
  MaxWord = 2
  ValueSize = 2
  Value <- WideValues
  MinCapacity = 1
  ExpandFactor = 3
  MaxCapacity = 3
  Place = {p1, p2}
  Undef = undef
  Nothing = nothing
SYMMETRY PlaceSymmetry
INVARIANTS
  TypeOK
  KeysAscending
  RoomForEntries
  QueriesAgree
  UnusedKeyIsUnused
PROPERTIES
  OnlyCompactShrinks
  EntriesStayPut
  ImplementsDictionary
