CONSTANTS
  Jobs = 1
  Gpus = 1
  Order = 3
  Counts = {1}
  MaxKills = 1
  MaxStops = 0
  MaxDeaths = 0
  MaxCalls = 0
SPECIFICATION Spec
INVARIANTS NeverDuplicateRange
CHECK_DEADLOCK FALSE
