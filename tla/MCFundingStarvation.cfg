CONSTANTS
  Funding = {f1, f2}
  Processor = {p1}
  MaxAttempts = 2
  MaxCrashes = 1
  Nobody = Nobody
SPECIFICATION FairSpec
PROPERTIES RetriedAfterRestart
CHECK_DEADLOCK FALSE
