CONSTANTS
  MaxOrders = 5
  MaxQty = 1
  MaxFaults = 1
  Faults = {"entryStopReject"}
  Starts <- KnownStarts
SPECIFICATION Spec
PROPERTIES ConfirmedStopKeepsItsPeak
