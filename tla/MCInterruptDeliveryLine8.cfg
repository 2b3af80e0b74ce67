\* The first line of the slave is raised as well.
SPECIFICATION IrqFairSpec
CONSTANTS
  Lines = {0, 8, 12}
  Handled = {0, 12}
  MaxRequests = 4
  MaxLocks = 2
INVARIANT
  EveryInterruptIsEnded
