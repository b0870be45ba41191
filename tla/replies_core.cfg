SPECIFICATION Spec
CONSTANTS
  Keys = {k1}
  Procs = {p1, p2, p3}
  AutoReply = AutoReply
  Targets = {"ai_auto_reply", "closed"}
  MaxVersion = 4
  MaxTasks = 3
  MaxFaults = 2
INVARIANTS
  TypeOK
  EachSentOnce
  HeldWhileSending
PROPERTIES
  ClaimedWhenOpen
  RepliesSpec
SYMMETRY Symmetry
CHECK_DEADLOCK FALSE
