SPECIFICATION Spec
CHECK_DEADLOCK FALSE
CONSTANTS
  AttemptMax = 1
  None = None
  DurMax = 11
  WordBits = 3
  WordMax = 7
  Exor <- BitXor
  Advance <- Advanced
  Mix <- Mixed
  DefaultSeed = 2
  Threads = {t1, t2}
  Instances = {i1, i2}
  Seeds = {5}
  Nonces = {4, 6}
  Kinds <- MCKinds
  Bases = {2}
  Builds <- MCAllBuilds
  WallTimes = {0, 3}
  MaxNonces = 2
  MaxDraws = 2
INVARIANTS
  TypeOK
  OneStream
  Pinned
  Decorrelated
  RangeExact
