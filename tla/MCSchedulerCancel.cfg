CONSTANTS
  Jobs = 1
  Gpus = 1
  Order = 3
  Counts = {1}
  MaxKills = 0
  MaxStops = 0
  MaxDeaths = 0
  MaxCalls = 1
SPECIFICATION Spec
PROPERTIES ReadyNotCanceled
CHECK_DEADLOCK FALSE
