CONSTANTS
  Devices = {"gamma", "mouse"}
  DeviceInfo <- Infos
  RETRIES = 2
  RegCap = 1
  MaxPlugs = 1
  MaxChips = 2
  ChannelCapacity = 2
  ATTEMPTS = 2
  MaxLost = 1
  MaxNonces = 1
SPECIFICATION BringUpSpec
INVARIANTS
  EnumerationSound
  NoDeviceLost
  UpMeansConfigured
  RampSound
PROPERTIES
  AnnouncedOnce
  EnumerationCompletes
  BringUpEnds
CHECK_DEADLOCK FALSE
