CONSTANTS
  MaxOrders = 5
  MaxQty = 1
  MaxFaults = 0
  Faults = {"slowCancel"}
  Starts <- KnownStarts
SPECIFICATION Spec
INVARIANTS NoSilentGap
