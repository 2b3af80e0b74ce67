\* A smaller keyboard than in MCDrivers.cfg; the left shift repeats.
SPECIFICATION FairSpec
CONSTANTS
  Printable = {1}
  Shiftable = {1}
  Special = {3}
  Unmapped = {5}
  kb_key_lshift = 3
  Repeating = {1, 3, 5}
  FifoSize = 2
  MaxTyped = 1
PROPERTY
  HandlerReturns
