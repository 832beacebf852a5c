CONSTANTS
  x = x v1 = v1 s1 = s1 s2 = s2
  None = None
  Names = {x}
  Values = {v1}
  Servers = {s1, s2}
  MaxDepth = 2
  MaxLines = 3
  Fronts <- NamedFronts
  Lines <- MCLines
SPECIFICATION Spec
INVARIANT PathKept
CHECK_DEADLOCK FALSE
