SPECIFICATION FairSpec
CONSTANTS
  Opportunities = {o1}
  Commands = {1, 2}
  Targets = {"closed", "following"}
  MaxForeign = 2
  MaxActive = 1
  MaxAttempts = 2
  MaxFaults = 1
INVARIANTS
  TypeOK
  OnlyOverSeen
  ConflictMeansUntouched
  SucceededMeansApplied
PROPERTIES
  QueuedSettles
  
CHECK_DEADLOCK FALSE
