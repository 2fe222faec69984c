SPECIFICATION FairSpec
CONSTANTS
  Luns <- MCLuns
  DeviceMaps <- MCOthers
  Operations = {"packet", "setif", "print", "shutdown", "modeselect", "datain", "nodata", "sense"}
  MaxBlocks = 2
  MsbSize = 3
  Modulus = 16
INVARIANTS
  CompletesOrExcused
  StatusTruthful
PROPERTY
  BusIsFreed
CHECK_DEADLOCK FALSE
