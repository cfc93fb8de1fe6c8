\* The replies of one late and one aborted request, and of a third: three ids.
CONSTANTS
  IdSpace = 3
  BadLimit = 2
  MaxLate = 1
  MaxBringUps = 2
SPECIFICATION FairSpec
INVARIANTS
  SafeWhenOff
  RailBeforeRelease
PROPERTIES
  HotStops
  CancelCompletes
CHECK_DEADLOCK FALSE
