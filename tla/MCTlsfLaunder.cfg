CONSTANTS
  BlockAlign = 32
  SlLog2 = 4
  FlLimit = 26
  UsizeMax = 16383
  Total = 160
  Sizes = {2016, 2112}
  MaxInUse = 2
  None = None
SPECIFICATION Spec
INVARIANTS GrantFits
CHECK_DEADLOCK FALSE
