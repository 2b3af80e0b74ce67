SPECIFICATION FairSpec
CONSTANTS
  MaxOrder = 2
  RegionBegin = 5
  FirstFree = 6
  RegionEnd = 16
  MaxRequest = 5
INVARIANTS
  PagesHaveOneOwner
  MapMarksLastPages
  FreeListsCoalesced
PROPERTY
  CallsReturn
  ImplementsPageAllocatorSpec
