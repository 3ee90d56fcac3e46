CONSTANTS
  Hash <- TwoHashes
  TotalBytes = 20
  SoftPct = 10
  HardPct = 5
  FloorPct = 15
  SafetyBuffer = 1
  DownloadingStates <- MCDownloadingStates
  MaxLeft = 2
  FreeLevels <- NormalLevels
  UserMoves <- StartMoves
  MaxUser = 1
  MaxFaults = 0
  Policy = "priority_fifo"
  StrictFifo = TRUE
  Priority <- MCPriority
  AddedOn <- MCAddedOn
  HashOrder <- MCHashOrder
  MaxDrift = 2
SPECIFICATION BudgetSpec
INVARIANTS StartsKeepFloor
PROPERTIES StartsOnlyTagged
