CONSTANTS
  Producers = {p1, p2}
  Blocks = {b1, b2, b3}
  Sizes = {Tombstone}
  Tombstone = Tombstone
  Capacity = 2
  MaxFrees = 3
  None = None
  Garbage = Garbage
SPECIFICATION FairSpec
PROPERTIES EventuallyReleased
CHECK_DEADLOCK FALSE
