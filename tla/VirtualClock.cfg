SPECIFICATION Spec
CHECK_DEADLOCK FALSE
CONSTANTS
  DurMax = 5
  AttemptMax = 1
  None = None
  Waiters = {w1, w2}
  Durs = {0, 1, 3}
  MaxRequests = 3
  MaxPolls = 2
  MaxSpent = 3
INVARIANTS
  TypeOK
  ExactlyOnce
PROPERTIES
  ClockContractHolds
