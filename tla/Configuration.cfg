CONSTANTS
  Handles = {h1, h2}
  Stops <- MCTwo
  Waits <- MCTwo
  Classifiers <- MCTwo
  Timeouts <- MCTimeouts
  SyncClocks <- MCSyncClocks
  AsyncClocks <- MCAsyncClocks
  SystemClock = "system"
  None = None
  Borrowed = Borrowed
  MaxCalls = 2
SPECIFICATION Spec
INVARIANTS TypeOK LastCallWins HooksInOrder
