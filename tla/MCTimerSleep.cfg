\* As in MCDrivers.cfg.
SPECIFICATION TimerFairSpec
CONSTANTS
  MS_IN_SEC = 10
  UInt32 = 64
  LowDivider = 2
  HZ = 3
  PIT_FREQUENCY = 24
  MAX_DIVIDER = 7
  Sleeps = {0, 3, 4, 7, 10}
  MaxTime = 60
PROPERTY
  SleepsAtLeastItsTime
