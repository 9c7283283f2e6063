CONSTANTS
  Size = 2
  Every = 2
  Days = 2
  MaxFaults = 2
  Faults = {"abort", "crash", "force"}
SPECIFICATION Spec
INVARIANTS TypeOK OffersQualified CompleteIsWhole
PROPERTIES NotScreenedTwice ListOnlyGrows
CHECK_DEADLOCK FALSE
