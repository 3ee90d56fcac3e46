CONSTANTS
  Hash <- OneHash
  TotalBytes = 100
  SoftPct = 10
  HardPct = 5
  FloorPct = 15
  SafetyBuffer = 1
  DownloadingStates <- MCDownloadingStates
  MaxLeft = 1
  FreeLevels <- LowLevels
  UserMoves <- StopMoves
  MaxUser = 2
  MaxFaults = 1
  Policy = "priority_fifo"
  StrictFifo = TRUE
  Priority <- MCPriority
  AddedOn <- MCAddedOn
  HashOrder <- MCHashOrder
  MaxQueue = 1
  MaxAttempts = 2
  MaxRestarts = 1
SPECIFICATION ServiceSpec
INVARIANTS ServiceTypeOK TasksAgree
PROPERTIES ServiceKeepsLedger StopSparesTheWorker GrantsOutliveRestarts
