\* kmalloc: two slabs, of two elements of 8 bytes and of one of 16, each in 2
\* pages, and one page for the chain.  Placed badly, they leave no room for
\* each other: panic() stops the kernel.
SPECIFICATION LibrarySpec
CONSTANTS
  Value = {a, b, c, d, e}
  null = null
  MaxOrder = 2
  Frames = {4, 6, 7, 8, 9}
  Words = {0, 7, 99}
  Node = {n1, n2, n3}
  before_begin_ = before_begin
  no_node = no_node
  Element = {x, y}
  Pointer = {p1, p2, q1}
  Object = {o1, o2, r1}
  Array = {q1, r1}
  Numbers <- MCNumbers
  Strings <- MCStrings
  Registers = {0, 31, 2147483647}
  Widths = {0, 4}
  Fills = {32, 48}
  Lengths = {0, 1, 3}
  StackSize = 3
  TMP = TMP
  FirstPage = 5
  RegionEnd = 13
  PAGE_SIZE = 16
  chain_memory = 16
  chain_length_ = 2
  SizeofSlab = 5
  Bytes = {0, 9, 40}
  MaxHeld = 4
CHECK_DEADLOCK FALSE
INVARIANTS
  LinksAreInverse
  ObjectsHaveOneHolder
  NumbersReadBack
  DumpsAreAligned
  BufferHoldsPrefix
  AllocationsAreDisjoint
  FreedMemoryReturns
PROPERTIES
  ImplementsCircularListSpec
  ImplementsFreeListSpec
  ImplementsForwardListSpec
  BacktraceEnds
