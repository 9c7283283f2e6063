CONSTANTS
  MaxOrders = 5
  MaxQty = 1
  MaxFaults = 2
  Faults = {"entryStopReject", "stopReject", "preflight", "exitReject", "placeRaises", "cancelRaises", "crash", "recheck", "qtyChange", "manualClose", "forceExit", "exitTimeout", "brokerCancel"}
  Starts <- KnownStarts
SPECIFICATION FairSpec
INVARIANTS NoOrphanStop
PROPERTIES ExitUndisturbed ForceExitLiquidates
