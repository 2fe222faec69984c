SPECIFICATION FairSpec
CONSTANTS
  Luns <- MCLuns
  DeviceMaps <- MCDisks
  Operations = {"read", "write", "verify10", "modeselect", "inquiry", "sense"}
  MaxBlocks = 2
  MsbSize = 3
  Modulus = 16
INVARIANTS
  TypeOK
  LinesMatchPhase
  NoBlockUnderflow
  CompletesOrExcused
  StatusTruthful
  BlocksInOrder
  CheckHasSense
PROPERTIES
  SenseIsLocal
  BusIsFreed
