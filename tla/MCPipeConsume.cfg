SPECIFICATION ConsumeSpec
CONSTANTS
  Inputs <- MCInputs
  Held <- MCHeld
  Batch = 2
  MaxWrites = 1
INVARIANTS RowPerValue OkIsTrue WrittenAccounted
CHECK_DEADLOCK FALSE
