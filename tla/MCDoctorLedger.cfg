SPECIFICATION DrSpec
CONSTANTS
  k1 = k1
  k2 = k2
  k3 = k3
  t1 = t1
  t2 = t2
  NoKey = NoKey
  Keys <- MCKeys
  Threads = {t1, t2}
  Owner <- MCOwner
  Hash <- MCHash
  InitCap = 4
  MaxRecords = 4
  MayFail = TRUE
  Rescue = TRUE
  MaxDrift = 1
  MaxBad = 2
SYMMETRY Symmetry
INVARIANTS ProbesReach CountersExact LedgerTruth
CHECK_DEADLOCK FALSE
