SPECIFICATION PeripheralsSpec
CONSTANTS
  Components = {"files", "bridge", "printer", "bus", "cache"}
  Names = {2, 3}
  CacheMax = 3
  DriveMax = 2
  FilesMax = 2
  FcbMax = 2
  SectorMax = 1
  Keys = {1, 2, 3}
  UnitCounts = {1}
  Workloads <- MCWorkloads
  Initiators = {"a", "b", "x"}
  Anonymous = {"x"}
  UnknownId = "unknown"
  NOT_RESERVED = "nobody"
  Timeout = 2
  SpoolMax = 2
  CdbLen = 2
  BlockTotal = 2
  BlockLen = 1
  OpMax = 2
  IcdKinds = {"none"}
  PollInterval = 1
  PollingSleep = 2
  HandlerMax = 1
  Loads <- MCLoads
  Torn = Torn
  Done = Done
  Failed = Failed
  NoTrack = NoTrack
  v1 = v1
  v2 = v2
INVARIANTS
  FsTypeOK
  ListingMatchesHost
  SearchComplete
  NoStalePosition
  JobsNotMixed
  TransfersAgree
  ResultsAreOwn
  PacketsInOrder
PROPERTIES
  SearchKeptWhileFree
  OutOfMemoryWhenFull
  ReservedDataKept
  ReservationEnds
  TargetLetsGo
  NetworkRecovers
  ImplementsBlockStore
CHECK_DEADLOCK FALSE
