CONSTANTS
  Addrs = {1, 2, 3}
  Cap <- UnequalSheets
  Sizes = {1, 2}
  MaxSheets = 3
  CacheSlots = 2
  SweepInterval = 3
  TombTier = FALSE
  SizedLaunder = FALSE
SPECIFICATION Spec
INVARIANTS IndexExact ExhaustedMeansFull CacheSound LiveMapped NoLingering
CHECK_DEADLOCK FALSE
