\* 101 = 0x65: both interrupts of the first line and translation on, the
\* second clock off; 67 = 0x43: both interrupts and translation on.  The
\* scan code 28 = 0x1c of a key reads as a configuration with the first
\* clock off.
SPECIFICATION FairSpec
CONSTANTS
  Kinds = {"keyboard", "terminal", "mouse", "none"}
  FirmwareConfs = {101, 67}
  LeftOvers <- MCLeftOvers
  ScanCode = 28
  SELFTEST_TIMEOUT = 1
  IdTimeout = 1
  MaxFaults = 1
  MaxPresses = 1
CHECK_DEADLOCK FALSE
INVARIANTS
  ProbeFindsKeyboards
  ConfiguredAsProbed
  AnswersAreNotStolen
  PanicMeansFailedSelfTest
PROPERTIES
  InitializationEnds
  BytesAreHandled
