SPECIFICATION Spec
CONSTANTS
  Keys = {k1}
  Procs = {p1, p2}
  AutoReply = AutoReply
  Targets = {"ai_auto_reply", "closed"}
  MaxVersion = 4
  MaxTasks = 2
  MaxFaults = 0
PROPERTIES
  LegalWhenClaimed
SYMMETRY Symmetry
CHECK_DEADLOCK FALSE
