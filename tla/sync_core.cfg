SPECIFICATION FairSpec
CONSTANTS
  Aggregates = {1, 2}
  Writers = {w1, w2}
  PageSize = 1
  MaxCursor = 4
  MaxFaults = 1
INVARIANTS
  TypeOK
  OnlyOvertakenMissed
  AckedIsDurable
  NothingInvented
PROPERTIES
  VisibleNeverGoesBack
  ReplicaSpec
  CatchesUp
CHECK_DEADLOCK FALSE
