SPECIFICATION Spec
CONSTANTS
  Tasks = {t1, t2}
  MaxLogins = 2
  MaxVersion = 1
  MaxCreds = 2
  MaxFaults = 0
PROPERTIES
  NewTokenAccepted
CHECK_DEADLOCK FALSE
