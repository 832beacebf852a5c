SPECIFICATION FairSpec
CONSTANTS
  Requests = {r1, r2, r3}
  Streamed = {r3}
  MaxEvents = 2
INVARIANTS FreshReplay NoStampede
PROPERTIES Answers
CHECK_DEADLOCK FALSE
