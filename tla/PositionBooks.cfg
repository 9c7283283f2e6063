CONSTANTS
  a = a
  b = b
  Symbols <- Pair
  MaxTrips = 2
  MaxBehind = 1
  MaxFaults = 2
  Faults = {"drops", "recheck", "exitFails", "unfinished", "crash"}
SPECIFICATION FairSpec
INVARIANTS TypeOK
PROPERTIES KeepsRoundTrips HeldStaysTracked EventuallyAccounted EventuallyTracked
