CONSTANTS
  Size = 2
  Every = 2
  Days = 1
  MaxFaults = 0
  Faults = {}
SPECIFICATION Spec
PROPERTIES ListNeverShrinks
CHECK_DEADLOCK FALSE
