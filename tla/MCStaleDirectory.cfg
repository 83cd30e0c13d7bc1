CONSTANTS
  PageSize = 2
  TableSize = 3
  NumTables = 3
  KernelIndex = 2
  Dir = {d1, d2}
  KernelDir = kernel
  Table = {t1, t2, t3}
  KernelTable = {k}
  Null = Null
  Frame = {1, 2, 3, 4}
  KernelPages = {6, 8}
  Segments <- AlignedSegments
  HeapRequests = {1, 2, 8}
SYMMETRY Symmetry
SPECIFICATION Spec
CHECK_DEADLOCK FALSE
PROPERTIES
  EndSparesOthers
