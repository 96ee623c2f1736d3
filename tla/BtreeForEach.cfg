SPECIFICATION ForEachSpec
CONSTANTS
  MaxWord = 2
  ValueSize = 1
  Value <- WordValues
  MinCapacity = 3
  ExpandFactor = 2
  MaxCapacity = 3
  MaxIndex = 3
  Place = {p1}
  Undef = undef
  Nothing = nothing
INVARIANTS
  IndexNamesCurrent
  OnlyCurrentTouched
PROPERTIES
  VisitsInOrder
  VisitsAll
  LoopEnds
