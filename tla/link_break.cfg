SPECIFICATION FairSpec
CONSTANTS
  Base = 4
  EpSize = 8
  Noise = {0, 1, 3}
  Prompt = TRUE
  ServerFirst = TRUE
  Lengths = {}
  Requests <- FewRequests
  diskImage <- MCDiskImage
  toBbc <- MCToBbc
  BreakAt <- Recoverable
  MaxBreaks = 2
INVARIANTS
  NoContention
  InStep
PROPERTIES
  ImplementsRpc
  CallsReturn
