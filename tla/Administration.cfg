SPECIFICATION Spec
CONSTANTS
  Ids = {1, 2}
  Luns = {0, 1}
  a = a
  b = b
  Files <- MCFiles
  NoFile = NoFile
  Commands <- AllCommands
  MaxDevices = 3
INVARIANTS
  AttachedAreLive
  ImageUsedOnce
  ReservationsMatch
  OpenImageExists
  LunZeroExists
  ReservedIdsUnused
CHECK_DEADLOCK FALSE
