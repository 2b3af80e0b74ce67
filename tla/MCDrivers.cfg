\* Keys 1, 2 print, 2 has no shifted symbol (like enter); 3 is the left
\* shift, 4 a function key, 5 is not in the table.
\* A second has 10 ms and 3 ticks; a tick has 5 hardware ticks of 2 periods.
\* The counter does not wrap around within MaxTime, which is where it stops.
SPECIFICATION DriversSpec
CONSTANTS
  Printable = {1, 2}
  Shiftable = {1}
  Special = {3, 4}
  Unmapped = {5}
  kb_key_lshift = 3
  Repeating = {1, 3, 5}
  FifoSize = 3
  MaxTyped = 2
  MS_IN_SEC = 10
  UInt32 = 64
  LowDivider = 2
  HZ = 3
  PIT_FREQUENCY = 24
  MAX_DIVIDER = 7
  Sleeps = {0, 3, 4, 7, 10}
  MaxTime = 60
INVARIANTS
  PrintsWhatWasTyped
  KeyStatusFollowsKeyboard
  JiffiesCountTicks
PROPERTY
  HandlerReturnsUnlessPressed
  SleepsToWithinATick
  SleepsEnd
