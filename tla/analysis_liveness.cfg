SPECIFICATION FairSpec
CONSTANTS
  Messages = {m1, m2}
  Runs = {r1}
  Procs = {p1, p2}
  Requests = {}
  QuotaLimit = 1
  MaxRetries = 1
  MaxLock = 1
  Linked = {}
  Modes = {"PRIMARY"}
  Faults = {"enqueue", "disabled"}
  None = None
PROPERTIES
  AnalysisSettles
CHECK_DEADLOCK FALSE
