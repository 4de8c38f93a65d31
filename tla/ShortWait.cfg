SPECIFICATION Spec
CHECK_DEADLOCK FALSE
CONSTANTS
  AttemptMax = 1
  None = None
  DurMax = 8
  Tasks = {k1, k2}
  Durs = {1, 2, 7}
  TimeMax = 8
  MaxCalls = 3
  MicroNanos = 2
  MilliNanos = 3
  TickNanos = 3
  TicksMax = 2
  TimeoutMax = 2
  Adapters = {"Gloo"}
INVARIANTS
  Coherent
