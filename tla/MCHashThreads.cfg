\* A ring of two ids and channels of one: full, empty and wrapped are all near.
CONSTANTS
  Slots = 2
  ShareCap = 1
  NonceCap = 2
  MaxTasks = 3
  MaxJobs = 4
  MaxNonces = 3
  NonceSpace = 3
  HashesPerCycle = 2
  CpuShareCap = 1
  MaxCpuTasks = 2
  MaxHashes = 5
SPECIFICATION ThreadsSpec
INVARIANTS
  LateSharesKept
  ReplacedDiscarded
  NoHeaderTwice
PROPERTIES
  ReplaceAnswered
  DroppedThreadExits
  HasherResponds
CHECK_DEADLOCK FALSE
