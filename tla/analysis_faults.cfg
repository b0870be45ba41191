SPECIFICATION Spec
CONSTANTS
  Messages = {m1}
  Runs = {r1}
  Procs = {p1, p2}
  Requests = {q1}
  QuotaLimit = 2
  MaxRetries = 1
  MaxLock = 2
  Linked = {m1}
  Modes = {"PRIMARY"}
  Faults = {"crash", "enqueue", "database", "disabled"}
  None = None
SYMMETRY Symmetry
INVARIANTS
  FailedRunNotCharged
  ChargedOnlyForDelivered
PROPERTIES
  SettledIsFinal
CHECK_DEADLOCK FALSE
