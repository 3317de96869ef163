CONSTANTS
  Names = {a, b, c}
  Contents = {x, y}
  Lengths = {0, 1, 2, 4}
  DiskSize = 5
  MediaSize = 5
  BlockLimit = 2
  MaxFiles = 2
  Buffer = 1
  Cycles = 1
  Channels = {}
  Images <- MCFormatted
  Backends = {TRUE}
  MaxBreaks = 1
SPECIFICATION Spec
SYMMETRY MCSymmetry
INVARIANT FilesOnDisk
