CONSTANTS
  Node = {n1, n2, n3}
  FileSystem = {s1, s2}
  Volume <- MCVolume
  Image <- MCImage
  NDrives = 2
  MaxFd = 4
  NDirs = 2
  Word = 8
  MaxProcesses = 2
  Letters = {"A", "b", "1"}
  Paths <- MCPaths
  Modes <- MCModes
  Sizes = {1, 7}
  SeekOffsets = {1, 7}
  Dangling = Dangling
  NULL = NULL
SPECIFICATION Spec
SYMMETRY Symmetry
INVARIANTS
  NothingDangles
  DescriptorsKeepTheirFile
  OffsetInFile
  ListingsInOrder
