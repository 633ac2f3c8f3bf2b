\* One process: only one can hold the lock.  No symmetry, for liveness.
CONSTANTS
  Funding = {f1, f2}
  Processor = {p1}
  MaxAttempts = 2
  MaxCrashes = 1
  Nobody = Nobody
SPECIFICATION FairSpec
PROPERTIES PaidIsConfirmed
\* With every request settled the processor only polls.
CHECK_DEADLOCK FALSE
