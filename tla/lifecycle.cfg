CONSTANTS
  Inputs <- LifeInputs
  MaxPreflight = 2
  MaxMishaps = 1
SPECIFICATION ProcessFairSpec
INVARIANTS ProcessTypeOK InterruptedBootstrapIsHarmless AcceptedFitsTheModels UpOnlyVerified StopWaitsForTasks SessionReleased
PROPERTIES EveryStartEnds StopEnds EventuallyUp
