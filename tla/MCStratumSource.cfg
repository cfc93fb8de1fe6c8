\* Two connections, two notifications (two jobs, or one and a change of
\* settings, on one connection or both), an event channel that the handshake
\* and a notification overfill, a command channel that a share and a
\* suggestion overfill, and a scheduler that may leave one event unread.
CONSTANTS
  EventCap = 2
  CmdCap = 1
  SchedCap = 1
  MaxSessions = 2
  MaxNotes = 2
  MaxCmds = 1
SPECIFICATION FairSpec
INVARIANTS
  TemplatesOfOneSession
  DeadWorkCleared

  
CHECK_DEADLOCK FALSE
