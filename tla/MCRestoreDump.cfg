SPECIFICATION RestoreSpec
CONSTANTS
  Dumps <- MCDumps
  Targets <- MCTargets
  Batches = {1, 2}
  InlineLimit = 3
  BatchBytes = 8
  MaxRuns = 2
  MaxEdits = 1
INVARIANTS AllRestored RevisionKept RequestBounded
CHECK_DEADLOCK FALSE
