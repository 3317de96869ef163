SPECIFICATION FairSpec
CONSTANTS
  Base = 4
  EpSize = 8
  Noise = {1}
  Prompt = TRUE
  ServerFirst = TRUE
  Lengths = {0, 1, 4, 8, 9}
  Requests <- MCRequests
  diskImage <- MCDiskImage
  toBbc <- MCToBbc
  BreakAt <- NoStates
  MaxBreaks = 0
INVARIANTS
  RequestIntact
  InStep
  ServerSurvives
PROPERTIES
  ImplementsRpc
  CallsReturn
