CONSTANTS
  a = a
  b = b
  c = c
  Symbol <- Candidates
  SectorOf <- Sectors
  Prices = {3}
  Equities = {12, 20}
  StartCash = 20
  MinBucket = 5
  Floor = 2
  DeployPct = 95
  RiskPct = 40
  LossPct = 3
  Cap = 3
  MaxSector = 1
  MaxBollinger = 1
  MaxFaults = 1
  Faults = {"slowCancel"}
SPECIFICATION Spec
SYMMETRY Alike
PROPERTY NoSecondBuy
