CONSTANTS
  MaxOrders = 5
  MaxQty = 2
  MaxFaults = 1
  Faults = {"stopReject", "preflight", "exitReject", "placeRaises", "cancelRaises", "buyCancelRaises", "crash", "recheck", "entryPlaceRaises", "orphanCancelRaises", "exitTimeout", "qtyChange", "forceExit"}
  Starts <- OneStopStarts
SPECIFICATION Spec
INVARIANTS TypeOK PersistedAtYields
PROPERTIES ConfirmedStopKeepsItsPeak
