CONSTANTS
  MaxOrders = 5
  MaxQty = 1
  MaxFaults = 2
  Faults = {"entryStopReject", "stopReject", "preflight", "exitReject", "placeRaises", "cancelRaises", "crash", "recheck"}
  Starts <- AnyStart
SPECIFICATION FairSpec
INVARIANTS NoSilentGap
PROPERTIES EventuallyCovered
