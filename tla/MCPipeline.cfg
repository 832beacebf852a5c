SPECIFICATION Spec
CONSTANTS
  N = 3
  Cap = 1
  Values = {1, 2, 3}
  Source <- MCSource
  Outs <- MCOuts
INVARIANTS NoSilentEnd TheCause
PROPERTIES LineEnds IsALine
CHECK_DEADLOCK FALSE
