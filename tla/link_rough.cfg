SPECIFICATION Spec
CONSTANTS
  Base = 4
  EpSize = 8
  Noise = {1}
  Prompt = TRUE
  ServerFirst = FALSE
  Lengths = {}
  Requests <- RoughRequests
  diskImage <- MCDiskImage
  toBbc <- MCToBbc
  BreakAt <- AllStates
  MaxBreaks = 2
INVARIANTS
  TypeOK
  CounterNeverWraps
CHECK_DEADLOCK FALSE
