\* Two jobs of up to three ranges share two GPUs; the scheduler is stopped or killed once.
CONSTANTS
  Jobs = 2
  Gpus = 2
  Order = 4
  Counts = {1}
  MaxKills = 1
  MaxStops = 1
  MaxDeaths = 0
  MaxCalls = 0
SPECIFICATION FairSpec
INVARIANTS OneJobSearched SearchIsHeld KeepsRunning
PROPERTIES QueuedIsClaimed
CONSTRAINTS UntilTaken OneEnd
CHECK_DEADLOCK FALSE
