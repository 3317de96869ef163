CONSTANTS
  Names = {a, b}
  Channels = {c1, c2}
  PutBytes = {1}
  Places = {0, 3}
  SectorSize = 2
  DiskSize = 4
  MaxFiles = 2
  NewSize = 1
  Images <- MCImages
  PadsAtEnd = FALSE
  MakesRoom = TRUE
SPECIFICATION Spec

PROPERTY SeekKeepsBytes
