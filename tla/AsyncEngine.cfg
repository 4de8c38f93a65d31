CONSTANTS
  DurMax = 7
  AttemptMax = 3
  OpsCap = 5
  None = None
  Tasks = {t1, t2}
  Clocks <- MCClocks
  Policies <- MCPolicySet
  StopOf <- MCStopOf
  WaitOf <- MCWaitOf
  TimeoutOf <- MCTimeoutOf
  Origins <- MCNoTime
  HookTimes <- MCSomeTime
  StartTimes <- MCSomeTime
SPECIFICATION FairSpec
INVARIANTS TypeOK StatsTruthful DeadlineBound AttemptBudget NoLostWakeup
PROPERTIES BackoffRespected ImplementsContract Termination
\* An execution ends.
CHECK_DEADLOCK FALSE
