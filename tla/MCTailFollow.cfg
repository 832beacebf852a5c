SPECIFICATION FairSpec
CONSTANTS
  Docs = {d1, d2}
  MaxSeq = 4
  MaxDrops = 2
  MaxGarbled = 1
  InFlight = 2
INVARIANT OnceInOrder
PROPERTY Delivered
CHECK_DEADLOCK FALSE
