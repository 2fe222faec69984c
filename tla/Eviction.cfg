SPECIFICATION Spec
CONSTANTS
  BlockCount = 3
  SectorsPerTrack = 1
  CacheMax = 2
  SerialModulus = 4
  v1 = v1
  v2 = v2
  Values <- MCValues
  Torn = Torn
  Done = Done
  Failed = Failed
  NoTrack = NoTrack
INVARIANTS
  CleanMatchesFile
  OneSlotPerTrack
PROPERTIES
  EvictsLeastRecent
  ImplementsBlockStore
