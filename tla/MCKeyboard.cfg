CONSTANTS
  Capacity = 4
  Layout <- GermanLayout
  Negative = {"sharp s"}
  MaxRead = 2
  Key = {"LEFT_CONTROL", "RIGHT_CONTROL", "LEFT_SHIFT", "CAPS_LOCK", "C", "MINUS", "UP", "PAUSE", "PRINT_SCREEN"}
  Late = {"RIGHT_CONTROL", "UP", "PAUSE", "PRINT_SCREEN"}
  MaxStrokes = 4
  MaxCodes = 1
SPECIFICATION Spec
INVARIANTS
  ArrowsArriveWhole
  CtrlReleased
PROPERTIES
  ImplementsQueue
