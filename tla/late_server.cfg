SPECIFICATION Spec
CONSTANTS
  Base = 4
  EpSize = 8
  Noise = {1}
  Prompt = TRUE
  ServerFirst = FALSE
  Lengths = {}
  Requests <- FewRequests
  diskImage <- MCDiskImage
  toBbc <- MCToBbc
  BreakAt <- NoStates
  MaxBreaks = 0
INVARIANT ServerSurvives
