CONSTANTS
  MaxOrders = 5
  MaxQty = 1
  MaxFaults = 1
  Faults = {"exitTimeout"}
  Starts <- KnownStarts
SPECIFICATION Spec
PROPERTIES ExitNotReversed
