\* The timer, a line nobody handles, the first line of the slave that is
\* ended properly, the second PS/2 line and the last line.
SPECIFICATION IrqFairSpec
CONSTANTS
  Lines = {0, 5, 9, 12, 15}
  Handled = {0, 12}
  MaxRequests = 6
  MaxLocks = 2
INVARIANTS
  EveryInterruptIsEnded
  SectionsExcludeInterrupts
PROPERTY
  RequestsAreServed
