SPECIFICATION Spec
CONSTANTS
  Docs = {d1, d2}
  MaxSeq = 3
  MaxRuns = 2
  Batches = {1, 2}
  Sinces = {2}
SYMMETRY Symmetry
INVARIANTS TypeOK NoGap FooterIsTrue
PROPERTIES IsALog
CHECK_DEADLOCK FALSE
