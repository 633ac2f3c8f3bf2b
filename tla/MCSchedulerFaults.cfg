\* One job of up to three ranges; one kill, one stop, one death and one API call.
CONSTANTS
  Jobs = 1
  Gpus = 1
  Order = 4
  Counts = {1, 2}
  MaxKills = 1
  MaxStops = 1
  MaxDeaths = 1
  MaxCalls = 1
SPECIFICATION Spec
INVARIANTS TypeOK ShardsDisjoint FoundHasResult
CHECK_DEADLOCK FALSE
