SPECIFICATION Spec
CHECK_DEADLOCK FALSE
CONSTANTS
  AttemptMax = 1
  None = None
  DurMax = 8
  Tasks = {k1, k2}
  Durs = {1, 2, 7}
  TimeMax = 8
  MaxCalls = 4
  MicroNanos = 2
  MilliNanos = 3
  TickNanos = 3
  TicksMax = 1
  TimeoutMax = 1
  Adapters = {"System", "Tokio", "Embassy", "FuturesTimer", "Gloo"}
INVARIANTS
  TypeOK
PROPERTIES
  ClockContractHolds
