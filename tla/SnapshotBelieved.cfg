CONSTANTS
  a = a
  b = b
  Symbols <- Pair
  MaxTrips = 2
  MaxBehind = 1
  MaxFaults = 0
  Faults = {"blind"}
SPECIFICATION Spec
PROPERTIES HeldStaysTracked
