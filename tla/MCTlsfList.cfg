CONSTANTS
  BlockAlign = 32
  SlLog2 = 1
  FlLimit = 26
  UsizeMax = 1023
  Total = 13
  Sizes = {32, 96, 128, 1000}
  MaxInUse = 3
  None = None
SPECIFICATION Spec
INVARIANTS PoolSound RoomIsFound CountersExact ActiveInUse GrantFits WalkRestores
PROPERTIES ImplementsStore
CHECK_DEADLOCK FALSE
