CONSTANTS
  Names = {a, b, c, d}
  Contents = {x, y}
  Lengths = {0, 1, 2}
  DiskSize = 5
  MediaSize = 5
  BlockLimit = 2
  MaxFiles = 3
  Buffer = 1
  Cycles = 1
  Channels = {}
  Images <- MCFormatted
  Backends = {TRUE}
  MaxBreaks = 1
SPECIFICATION Spec
SYMMETRY MCSymmetry
INVARIANTS CatalogueSound FilesOnDisk
PROPERTIES ImplementsStore CommandsDoAsTold SaveReadsBack CompactPacks
