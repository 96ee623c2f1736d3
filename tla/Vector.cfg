SPECIFICATION Spec
CONSTANTS
  Element = {x, y}
  MinCapacity = 2
  ExpandFactor = 2
  MaxCapacity = 4
  MaxSource = 2
  Undef = undef
  Nothing = nothing
INVARIANTS
  TypeOK
  RoomForElements
PROPERTIES
  RefusalChangesNothing
  ImplementsList
