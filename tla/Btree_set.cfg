SPECIFICATION Spec
CONSTANTS
  MaxWord = 4
  ValueSize = 0
  Value <- EmptyValues
  MinCapacity = 2
  ExpandFactor = 2
  MaxCapacity = 4
  Place = {p1}
  Undef = undef
  Nothing = nothing
INVARIANTS
  UnusedKeyIsUnused
PROPERTIES
  ImplementsDictionary
