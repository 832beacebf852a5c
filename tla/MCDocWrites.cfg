SPECIFICATION Spec
CONSTANTS
  Operators = {o1, o2}
  Commands <- MCCommands
  Attempts = 3
  MaxLeaves = 3
  MaxOthers = 2
INVARIANTS OnlyWhatWasAsked NothingLostUnasked ChangedOnce KeptIsThere
CHECK_DEADLOCK FALSE
