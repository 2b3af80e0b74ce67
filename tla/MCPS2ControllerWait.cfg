\* Nothing is late and no key is pressed, but a line may have no device.
SPECIFICATION FairSpec
CONSTANTS
  Kinds = {"keyboard", "terminal", "mouse", "none"}
  FirmwareConfs = {101, 67}
  LeftOvers <- MCLeftOvers
  ScanCode = 28
  SELFTEST_TIMEOUT = 1
  IdTimeout = 1
  MaxFaults = 0
  MaxPresses = 0
CHECK_DEADLOCK FALSE
PROPERTY
  WaitsReturn
