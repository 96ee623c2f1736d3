SPECIFICATION Spec
CONSTANTS
  k1 = k1
  k2 = k2
  k3 = k3
  k4 = k4
  Key = {k1, k2, k3, k4}
  Value = {1}
  Hash <- SpreadHash
  MaxHash = 7
  InitialCounts = {4}
  RehashAtPercent = 70
  ExpandFactor = 3
  SizeLimit = 65536
  MaxTableCount = 4
  Nothing = nothing
INVARIANTS
  CallsReturn
