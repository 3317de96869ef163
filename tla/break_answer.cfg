SPECIFICATION Spec
CONSTANTS
  Base = 4
  EpSize = 8
  Noise = {1}
  Prompt = TRUE
  ServerFirst = TRUE
  Lengths = {}
  Requests <- FewRequests
  diskImage <- MCDiskImage
  toBbc <- MCToBbc
  BreakAt <- AnsweringStates
  MaxBreaks = 1
INVARIANT ResponseIsToThisRequest
CHECK_DEADLOCK FALSE
