CONSTANTS
  Hash <- OneHash
  TotalBytes = 100
  SoftPct = 10
  HardPct = 5
  FloorPct = 15
  SafetyBuffer = 1
  DownloadingStates <- MCDownloadingStates
  MaxLeft = 1
  FreeLevels <- AllLevels
  UserMoves <- AllButCheck
  MaxUser = 2
  MaxFaults = 1
  Policy = "priority_fifo"
  StrictFifo = TRUE
  Priority <- MCPriority
  AddedOn <- MCAddedOn
  HashOrder <- MCHashOrder
SPECIFICATION FairSpec
INVARIANTS TypeOK StrandedOnlyByCut
PROPERTIES EngineKeepsLedger SoftAllowedKeepDownloading SoftEntrySparesDownloads HardEventuallyQuiet NormalEventuallyClean AmpleEventuallyResumed ForcedLosesTag
