\* Two requests compete for two processes, one of which holds the lock.
CONSTANTS
  Funding = {f1, f2}
  Processor = {p1, p2}
  MaxAttempts = 3
  MaxCrashes = 2
  Nobody = Nobody
SPECIFICATION Spec
SYMMETRY Symmetry
INVARIANTS TypeOK OneTransfer ConfirmedWasPaid FailedIsUnpaid NoOrphanPreparation SerialTransfers PayloadKept
PROPERTIES SettledForGood KeepsPromise
\* With every request settled the processor only polls.
CHECK_DEADLOCK FALSE
