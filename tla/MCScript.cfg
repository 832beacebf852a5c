CONSTANTS
  x = x v1 = v1 s1 = s1 s2 = s2
  None = None
  Names = {x}
  Values = {v1}
  Servers = {s1, s2}
  MaxDepth = 2
  MaxLines = 4
  Fronts <- MCFronts
  Lines <- MCLines
SPECIFICATION Spec
INVARIANTS PrefsScoped NeverUnasked SaidOnce CodeIsTrue
PROPERTY OnlyItsOwn
CHECK_DEADLOCK FALSE
