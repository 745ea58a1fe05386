SPECIFICATION FairSpec
CONSTANTS
  Interval = 3
  MaxPending = 4
INVARIANTS TypeOK OneChain RunsInTime
PROPERTIES KeepsRepeating
CHECK_DEADLOCK FALSE
