\* A ring of two ids and channels of one: full, empty and wrapped are all near.
CONSTANTS
  Slots = 2
  ShareCap = 1
  NonceCap = 2
  MaxTasks = 2
  MaxJobs = 4
  MaxNonces = 3
SPECIFICATION FairSpec
PROPERTIES
  UpdateAnswered
CHECK_DEADLOCK FALSE
