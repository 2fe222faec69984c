SPECIFICATION Spec
CONSTANTS
  Ids = {1, 2}
  Luns = {0, 1}
  a = a
  b = b
  Files <- MCFiles
  NoFile = NoFile
  Commands <- AllCommands
  MaxDevices = 3
INVARIANT
  ReservedFilesAreInUse
CHECK_DEADLOCK FALSE
