CONSTANTS
  Proc = {p1, p2, p3}
  Dir = {d1, d2, d3}
  KernelDir = kernel
  None = None
  MaxPid = 2
  ExitCodes <- MCExitCodes
  Exceptions = {14}
  Images <- AllImages
SPECIFICATION FairSpec
CHECK_DEADLOCK FALSE
INVARIANTS
  OneRunsOthersWait
  SpacesIntact
PROPERTIES
  ResumedWithStatus
  WaitingIsResumed
