SPECIFICATION Spec
CONSTANTS
  Ids = {1, 2}
  Luns = {0, 1}
  a = a
  b = b
  Files <- MCFiles
  NoFile = NoFile
  Commands <- BadNames
  MaxDevices = 3
INVARIANT
  DryRunLeavesNoDevice
CHECK_DEADLOCK FALSE
