CONSTANTS
  Hash <- OneHash
  TotalBytes = 100
  SoftPct = 10
  HardPct = 5
  FloorPct = 15
  SafetyBuffer = 1
  DownloadingStates <- MCDownloadingStates
  MaxLeft = 1
  FreeLevels <- HighLevels
  UserMoves <- AddMoves
  MaxUser = 1
  MaxFaults = 0
  Policy = "priority_fifo"
  StrictFifo = TRUE
  Priority <- MCPriority
  AddedOn <- MCAddedOn
  HashOrder <- MCHashOrder
  MaxQueue = 1
  MaxAttempts = 2
  MaxRestarts = 0
SPECIFICATION ServiceSpec
INVARIANT TagsTellEverything
