CONSTANTS
  Machines <- MCMachines
  SectorSize = 2
  Word = 128
  ShortId = {id1, id2, id3, id4}
  Writes <- MCWrites
  WriteOffsets = {0, 1, 2, 3, 4}
  NDirect = 1
  Names = {".", "d", "f", "gone", "e", "big", "l", "never"}
  ReadSizes = {7, 20}
SPECIFICATION Spec
SYMMETRY Symmetry
INVARIANTS
  DevicesListedOnce
  VolumesAddressable
  FileReadsBack
  ListingComplete
 
