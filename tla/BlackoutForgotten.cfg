CONSTANTS
  Prices = {97}
  HardStop = 93
  Buffer = 2
  MaxAge = 1
  AlertStreak = 2
  HoldBars = 3
  LoserBars = 1
  LoserBelow = 98
  LoserPeak = 101
  Lookback = 1
  Interval = 3
  Cycles = 5
  Days = 1
  Sessions = {1}
  MaxFaults = 5
  Faults = {"noQuote", "reentry"}
SPECIFICATION Spec
INVARIANT EveryBlackoutAlerted
