SPECIFICATION BackoffSpec
CONSTANTS
  DurMax = 47
  AttemptMax = 17
  None = None
  Precision = 4
  ExpMax = 11
  Infinity = Infinity
  NaN = NaN
  Initials = {0, 1, 3, 17, 47}
  BaseArguments = {0, 4, 8, 9, 12, 13, 16, 20, 24, Infinity, NaN}
INVARIANTS
  ConstantDelay
