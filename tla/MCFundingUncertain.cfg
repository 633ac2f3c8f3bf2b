CONSTANTS
  Funding = {f1}
  Processor = {p1}
  MaxAttempts = 2
  MaxCrashes = 1
  Nobody = Nobody
SPECIFICATION Spec
INVARIANTS UncertainIsReconciled
CHECK_DEADLOCK FALSE
