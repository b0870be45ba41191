SPECIFICATION Spec
CONSTANTS
  Messages = {m1}
  Runs = {r1, r2}
  Procs = {p1, p2}
  Requests = {q1}
  QuotaLimit = 2
  MaxRetries = 1
  MaxLock = 1
  Linked = {}
  Modes = {"PRIMARY", "SHADOW"}
  Faults = {"stall"}
  None = None
SYMMETRY Symmetry
INVARIANTS
  TypeOK
  QuotaRespected
  OneCommitter
  OneActiveRun
PROPERTIES
  ShadowOnlyObserves
CHECK_DEADLOCK FALSE
