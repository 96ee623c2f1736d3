SPECIFICATION Spec
CONSTANTS
  Letter = {a}
  CR = CR
  LF = LF
  NUL = NUL
  Delimiter = comma
  MaxText = 2
  MaxCalls = 5
  Nothing = nothing
INVARIANTS
  NothingLeftAtEnd
