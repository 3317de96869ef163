\* An image of four bytes at the ROM's address; a text may hold a letter, a
\* quote or a control code. The file is as long, or one byte short.
CONSTANTS
  Org = 32768
  Size = 4
  FileLengths = {3, 4}
  Maps <- MCMaps
  Overhangs = {0, 1}
  Words <- MCWords
  Symbols <- MCSymbols
  Builds <- MCBuilds
  OpcodeBytes <- MCOpcodeBytes
  OperandBytes = {0, 1, 128, 254}
  DataBytes = {65, 34, 200}
SPECIFICATION Spec
CHECK_DEADLOCK FALSE
INVARIANTS TypeOK NoOverrun Reassembles LabelsInPlace
PROPERTY Terminates
