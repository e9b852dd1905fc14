CONSTANTS
  m = m
  t1 = t1
  t2 = t2
  t3 = t3
  t4 = t4
  k0 = k0
  k1 = k1
  k2 = k2
  k3 = k3
  Threads = {m, t1, t2}
  Initial = m
  Tid <- DistinctTids
  MaxArenas = 1
  MaxNodes = 2
  Fresh = Fresh
  Free = Free
  None = None
SPECIFICATION FairSpec
INVARIANTS SingleOwner PoolInv
PROPERTIES ClaimReturns
CHECK_DEADLOCK FALSE
