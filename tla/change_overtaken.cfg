SPECIFICATION Spec
CONSTANTS
  Aggregates = {1, 2}
  Writers = {w1, w2}
  PageSize = 1
  MaxCursor = 3
  MaxFaults = 0
INVARIANTS
  StoreCoversCursor
CHECK_DEADLOCK FALSE
