SPECIFICATION Spec
CONSTANTS
  Messages = {m1}
  Runs = {r1, r2}
  Procs = {p1, p2}
  Requests = {q1}
  QuotaLimit = 2
  MaxRetries = 1
  MaxLock = 1
  Linked = {}
  Modes = {"PRIMARY"}
  Faults = {}
  None = None
SYMMETRY Symmetry
INVARIANTS
  ActivePrimaryReserved
CHECK_DEADLOCK FALSE
