CONSTANTS
  Values = {v1, v2}
  Errors = {e1, e2}
  None = None
  MaxAttempts = 3
  Classifiers <- MCClassifiers
SPECIFICATION Spec
INVARIANTS TypeOK SeenRetried LastOutcomeRecoverable AccessorsAgree UntilOkPolls WhenErrorAborts
\* An execution ends.
CHECK_DEADLOCK FALSE
