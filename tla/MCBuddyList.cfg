CONSTANTS
  MinBytes = 64
  HdrOffset = 32
  UsizeMax = 1023
  Total = 9
  Mx = 64
  CacheCap = 2
  Sizes = {32, 64, 128, 1000}
  MaxInUse = 3
  None = None
SPECIFICATION Spec
INVARIANTS SheetSound RoomIsFound CountersExact
PROPERTIES ImplementsStore
CHECK_DEADLOCK FALSE
