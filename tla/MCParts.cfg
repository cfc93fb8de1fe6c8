CONSTANTS
  \* JobSpace: bytes of one bit, so that slots are wider and narrower than the counter.
  Radix = 2
  COUNTER_WIDTH = 3
  MAX_WIDTH = 4
  VersionBits = 4
  GpLow = 1
  GpCount = 2
  MaxParts = 3
  MaxBranches = 2
  \* ChipFrames
  Model = "BM1370"
  WireInputs <- Streams
  ReadSizes = {1, 11}
  \* Regulator
  VoutExponents <- Exponents
  Raisable = {"VOUT_UV_FAULT", "VOUT_OV_WARN", "IOUT_OC_FAULT", "PEC_FAULT"}
  MaxRaised = 2
  MaxIgnored = 1
  MaxCommands = 2
  \* Sensors
  Temperatures <- Tenths
  TachCounts = {255, 256, 65535}
  MaxChanges = 1
  \* JobSources
  EventCap = 1
  CommandCap = 1
  SourceRates = {0, 2}
  ShareInterval = 3
  PoolHashes = 5
  MaxEmitted = 3
  MaxOrders = 2
  \* ShareTargets
  TicksPerSecond = 2
  HASHRATE_WINDOW = 1
  MinSamples = 2
  MaxSamples = 2
  HIGH_DIFFICULTY_THRESHOLD = 3
  HIGH_DIFFICULTY_DEBOUNCE = 1
  Expectations = {20, 40}
  JobTargets = {1, 70}
  MaxTicks = 3
  MaxFound = 3
  \* Suggestion
  SUGGEST_MIN_INTERVAL = 2
  SUGGESTED_SHARE_RATE = 3
  Hashrates = {0, 4, 5, 6, 8}
  LastTick = 6
  \* Api
  Requests = {r1, r2}
  ApiBoards = {b1}
  ApiCommandCap = 1
  BoardRegCap = 1
  \* ControlPackets
  ControlCalls <- EachCall
  FirstIds = {255}
  max_length = 10
  MaxCalls = 2
  MaxControlLate = 1
  \* Scheduler: one source without jobs and two threads that change their rates.
  Sources = {s1}
  Threads = {t1, t2}
  Rates = {slow, fast}
  NoRate = NoRate
  MaxJobs = 0
  MaxShares = 0
SPECIFICATION PartsSpec
INVARIANTS
  EachExtranonceOnce
  PoolRebuildsHeader
  FramesSurvive
  ValuesTravel
  CheckHonest
  LimitsInForce
  ReadingsTrue
  MeasuresHonest
  FloorFollowsHashrate
  PatchSeesItsCommand
  ControlCallsTrue
  ToldIsCurrent
PROPERTIES
  ImplementsPipe
  GateOpening
  GateOpens
CHECK_DEADLOCK FALSE
