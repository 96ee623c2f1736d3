SPECIFICATION Spec
CONSTANTS
  MaxWord = 2
  ValueSize = 2
  Value <- WideValues
  MinCapacity = 1
  ExpandFactor = 2
  MaxCapacity = 2
  Place = {p1}
  Undef = undef
  Nothing = nothing
PROPERTY
  ExistingKeyIsReturned
