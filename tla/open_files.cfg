CONSTANTS
  Names = {a, b}
  Channels = {c1, c2}
  PutBytes = {1}
  Places = {0, 3}
  SectorSize = 2
  DiskSize = 4
  MaxFiles = 2
  NewSize = 1
  Images <- MCImages
  PadsAtEnd = TRUE
  MakesRoom = TRUE
SPECIFICATION Spec
SYMMETRY MCSymmetry
VIEW MCView
INVARIANTS TypeOK ChannelsApart OneWriter BufferFits
PROPERTY ImplementsByteFiles
