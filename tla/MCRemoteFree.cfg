CONSTANTS
  Producers = {p1, p2}
  Blocks = {b1, b2, b3, b4}
  Sizes = {Sized, Tombstone}
  Tombstone = Tombstone
  Capacity = 2
  MaxFrees = 4
  None = None
  Garbage = Garbage
SPECIFICATION Spec
SYMMETRY Symmetry
INVARIANTS InOnePlace
PROPERTIES ImplementsDelivery
CHECK_DEADLOCK FALSE
