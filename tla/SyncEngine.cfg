\* DurMax and AttemptMax stand for Duration::MAX and u32::MAX: both are reached.
CONSTANTS
  DurMax = 9
  AttemptMax = 4
  OpsCap = 6
  None = None
  Policies <- MCPolicySet
  StopOf <- MCStopOf
  WaitOf <- MCWaitOf
  TimeoutOf <- MCTimeoutOf
  Origins <- MCSomeTime
  HookTimes <- MCSomeTime
  StartTimes <- MCSomeTime
  OpTimes <- MCOpTimes
  Lateness <- MCSomeTime
SPECIFICATION FairSpec
INVARIANTS TypeOK StatsTruthful DeadlineBound AttemptBudget IInv
PROPERTIES LastAttemptAtDeadline BackoffRespected ImplementsContract Termination
\* An execution ends.
CHECK_DEADLOCK FALSE
