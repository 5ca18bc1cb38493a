SPECIFICATION BhFairSpec
CONSTANTS
  Producers = {p1, p2}
  MaxWork = 1
  MaxSuspends = 1
INVARIANTS
  SuspendedMeansParked
