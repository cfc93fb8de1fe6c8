\* One connection, one job and one command are enough to lose the job.
CONSTANTS
  EventCap = 4
  CmdCap = 1
  SchedCap = 1
  MaxSessions = 1
  MaxNotes = 1
  MaxCmds = 1
SPECIFICATION Spec
INVARIANTS
  LatestJobDelivered
CHECK_DEADLOCK FALSE
