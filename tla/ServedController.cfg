SPECIFICATION Spec
CONSTANTS
  Ids = {1, 2}
  Luns = {0, 1}
  NoId = NoId
  Commands <- AllCommands
  Signals = {}
INVARIANT
  ServedControllerIsLive
