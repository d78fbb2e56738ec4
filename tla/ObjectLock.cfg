SPECIFICATION LockFairSpec
CONSTANTS
  t1 = t1
  t2 = t2
  t3 = t3
  Threads <- MCThreads
  Posts = 2
  Modulus = 4
  CasWidth = 1
  RngStates = {0, 7}
INVARIANTS MutualExclusion
PROPERTIES AccumulatorSpec
