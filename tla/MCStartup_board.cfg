\* One board and one device that is none.
CONSTANTS
  Devices = {"gamma", "mouse"}
  DeviceInfo <- Infos
  RETRIES = 1
  RegCap = 2
  MaxPlugs = 0
SPECIFICATION Spec
PROPERTIES
  BoardsStay
CHECK_DEADLOCK FALSE
