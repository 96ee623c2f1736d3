SPECIFICATION FairSpec
CONSTANTS
  Letter = {a, b}
  CR = CR
  LF = LF
  NUL = NUL
  Delimiter = comma
  MaxText = 5
  MaxCalls = 5
  Nothing = nothing
INVARIANTS
  ReadsLinesInOrder
  RefusalLosesBeginnings
  StringsAreTerminated
  TokensAreFields
PROPERTIES
  GetlineReturns
