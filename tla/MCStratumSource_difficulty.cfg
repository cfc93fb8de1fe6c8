\* One connection and one job, sent while the client suggests a difficulty.
CONSTANTS
  EventCap = 4
  CmdCap = 1
  SchedCap = 1
  MaxSessions = 1
  MaxNotes = 1
  MaxCmds = 0
SPECIFICATION Spec
INVARIANTS
  DefaultDifficultyHidden
CHECK_DEADLOCK FALSE
