CONSTANTS
  Names = {a, b}
  Contents = {x}
  Lengths = {0, 2, 4}
  DiskSize = 5
  MediaSize = 5
  BlockLimit = 2
  MaxFiles = 2
  Buffer = 1
  Cycles = 2
  Channels = {ch}
  Images <- MCImages
  Backends = {TRUE, FALSE}
  MaxBreaks = 0
SPECIFICATION Spec
INVARIANTS TypeOK
PROPERTIES OnlyCompactMovesOpenFiles CommandEnds
