SPECIFICATION Spec
CONSTANTS
  Base = 4
  EpSize = 8
  Noise = {1}
  Prompt = TRUE
  ServerFirst = TRUE
  Lengths = {}
  Requests <- FewRequests
  diskImage <- MCDiskImage
  toBbc <- MCToBbc
  BreakAt <- TurnRound
  MaxBreaks = 1
INVARIANT NoContention
