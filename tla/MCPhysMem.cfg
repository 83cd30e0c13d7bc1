CONSTANTS
  NumFrames = 7
  FramesPerByte = 2
  BootFrames = {0, 1, 2, 3}
  FrameSize = 2
  Maps <- SmallMaps
SPECIFICATION MapSpec
INVARIANTS
  CounterExact
  BootFramesKept
  TameReservedKept
