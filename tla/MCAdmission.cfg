\* Three requests over two days; two amounts of which only some pairs fit the limit.
CONSTANTS
  Request = {q1, q2, q3}
  Job = {j1, j2}
  Key = {k1, k2}
  Amount = {1, 2}
  DailyLimit = 2
  LastDay = 1
  Nobody = Nobody
SPECIFICATION Spec
SYMMETRY Symmetry
INVARIANTS TypeOK WithinDailyLimit OneFundingPerJob AcceptedAsAsked
\* Every request is answered and the days are over.
CHECK_DEADLOCK FALSE
