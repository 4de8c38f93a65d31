\* An exact clock: waits end when asked.  Only hooks take time beside the operation.
CONSTANTS
  DurMax = 9
  AttemptMax = 4
  OpsCap = 6
  None = None
  Policies <- MCPolicySet
  StopOf <- MCStopOf
  WaitOf <- MCWaitOf
  TimeoutOf <- MCTimeoutOf
  Origins <- MCSomeTime
  HookTimes <- MCSomeTime
  StartTimes <- MCNoTime
  OpTimes <- MCOpTimes
  Lateness <- MCNoTime
SPECIFICATION Spec
INVARIANT AttemptsStartByDeadline
\* An execution ends.
CHECK_DEADLOCK FALSE
