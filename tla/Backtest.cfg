CONSTANTS
  a = a
  b = b
  Symbols <- Pair
  Bars <- ThreeBars
  Days = 4
  GapDays = 2
  Capital = 600
  MinBucket = 300
  Floor = 150
  DeployPct = 95
  RiskPct = 60
  BearRiskPct = 30
  Cap = 3
  TrailPct = 5
  HardPct = 7
  HoldBars = 2
  Slippage = 1
  Fee = 2
SPECIFICATION Spec
INVARIANTS TypeOK CashConserved NeverOverdrawn CurveEndsAtFinalEquity
CHECK_DEADLOCK FALSE
SYMMETRY Alike
