CONSTANTS
  HeaderSize = 2
  PageSize = 6
  HeapBase = 6
  MaxPages = 3
  Sizes = {0, 1, 3, 9}
SPECIFICATION Spec
INVARIANTS
  UserListWellFormed
  UserHeapReusable
PROPERTIES
  ImplementsUserAllocator
