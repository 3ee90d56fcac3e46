CONSTANTS
  TotalBytes = 100
  SoftPct = 10
  HardPct = 5
  FloorPct = 15
  SafetyBuffer = 1
  DownloadingStates <- MCDownloadingStates
  Priority <- MCPriority
  AddedOn <- MCAddedOn
  HashOrder <- MCHashOrder
  Torrents <- ThreeTorrents
  Kinds <- MCKinds
  Frees <- MCFrees
SPECIFICATION PlanSpec
INVARIANTS PlanFollowsPolicy PlanKeepsFloor SmallestStartsMost
CHECK_DEADLOCK FALSE
