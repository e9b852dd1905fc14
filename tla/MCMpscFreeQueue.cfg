CONSTANTS
  Producers = {p1, p2}
  Items = {a, b}
  NoItem = NoItem
  Capacity = 2
  MaxTickets = 4
SPECIFICATION FairSpec
INVARIANTS RingInv
PROPERTIES FullOnlyWhenFull ImplementsOrder PushReturns AllDelivered
CHECK_DEADLOCK FALSE
