CONSTANTS
  Threads = {t1, t2}
  Granules = 3
  FreeCap = 3
  MaxRun = 2
  None = None
SPECIFICATION Spec
SYMMETRY Symmetry
INVARIANTS CarvesSound OwnerTableExact
PROPERTIES NothingLost
CHECK_DEADLOCK FALSE
