\* One late reply is enough to leave every later request a reply behind.
CONSTANTS
  IdSpace = 3
  BadLimit = 2
  MaxLate = 1
  MaxBringUps = 1
SPECIFICATION Spec
PROPERTIES
  MatchingReplyAwaited
CHECK_DEADLOCK FALSE
