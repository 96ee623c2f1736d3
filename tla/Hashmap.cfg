SPECIFICATION Spec
CONSTANTS
  k1 = k1
  k2 = k2
  k3 = k3
  k4 = k4
  Key = {k1, k2, k3}
  Value = {1, 2}
  Hash <- ReservedHash
  MaxHash = 7
  InitialCounts = {2, 4}
  RehashAtPercent = 70
  ExpandFactor = 3
  SizeLimit = 256
  MaxTableCount = 6
  Nothing = nothing
INVARIANTS
  TypeOK
  EveryEntryIsFound
  CountsEntries
  PowerOfTwoWalksEnd
PROPERTIES
  RehashMakesRoom
  ImplementsDictionary
