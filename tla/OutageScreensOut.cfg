CONSTANTS
  Size = 3
  Every = 2
  Days = 1
  MaxFaults = 1
  Faults = {"outage"}
SPECIFICATION Spec
INVARIANTS CompleteIsWhole
CHECK_DEADLOCK FALSE
