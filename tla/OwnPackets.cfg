CONSTANTS
  Calls = {k1, k2, k3}
  PoolSize = 3
SPECIFICATION FairSpec
INVARIANTS FreedOnce Owned IndicatedOnce
PROPERTY PoolsRefill
CHECK_DEADLOCK FALSE
