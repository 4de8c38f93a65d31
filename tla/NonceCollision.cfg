SPECIFICATION Spec
CHECK_DEADLOCK FALSE
CONSTANTS
  AttemptMax = 1
  None = None
  DurMax = 4
  WordBits = 3
  WordMax = 7
  Exor <- BitXor
  Advance <- Advanced
  Mix <- Mixed
  DefaultSeed = 2
  Threads = {t1, t2}
  Instances = {i1, i2}
  Seeds = {5}
  Nonces = {4, 6}
  Kinds <- MCOneKind
  Bases = {2}
  Builds <- MCStdBuild
  WallTimes <- MCWallTimes
  MaxNonces = 3
  MaxDraws = 3
INVARIANTS
  UniqueNonces
