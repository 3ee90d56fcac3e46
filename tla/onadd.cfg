CONSTANTS
  Hash <- TwoHashes
  TotalBytes = 100
  SoftPct = 10
  HardPct = 5
  FloorPct = 15
  SafetyBuffer = 1
  DownloadingStates <- MCDownloadingStates
  MaxLeft = 1
  FreeLevels <- TwoLevels
  UserMoves <- ReaddMoves
  MaxUser = 2
  MaxFaults = 1
  MaxQueue = 1
  MaxAttempts = 2
SPECIFICATION OnAddFairSpec
INVARIANTS HandlerTypeOK NoLostWakeup QueueBounded InFlightStaysQueued StoppedIsMarked
PROPERTIES WorkerKeepsLedger QueueDrains QueuedDownloadIsStopped
