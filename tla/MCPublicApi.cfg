SPECIFICATION ApiSpec
CONSTANTS
  Kind = "tlsf"
  Units = 7
  Align = 2
  Sizes = {1, 3}
  Ways <- SafeWays
  MaxHeld = 3
  Capacity = 2
  MaxPages = 1
  Top = 13
  Bases = {3, 10, 11, 12}
  Lens = {1, 3}
INVARIANTS RegistrySound QueriesSeeAll ReleasesOwn PrefixIntact
PROPERTY ImplementsRangeSet
CHECK_DEADLOCK FALSE
