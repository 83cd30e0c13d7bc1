CONSTANTS
  HeaderSize = 2
  PageSize = 4
  PlacementBase = 5
  PlacementSize = 3
  HeapBase = 8
  HeapSize = 16
  Sizes = {0, 1, 2, 5}
SPECIFICATION Spec
INVARIANTS
  ListWellFormed
  BlocksMatchOwners
  LiveBuffersDisjoint
  DoubleFreeHarmless
  FreedHeapIsFresh
  AlignedAllocationExact
PROPERTIES
  ImplementsAllocator
