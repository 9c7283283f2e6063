CONSTANTS
  Prices = {97, 100, 103}
  HardStop = 93
  Buffer = 2
  MaxAge = 1
  AlertStreak = 2
  HoldBars = 3
  LoserBars = 1
  LoserBelow = 98
  LoserPeak = 101
  Lookback = 1
  Interval = 3
  Cycles = 2
  Days = 6
  Sessions = {1, 2, 5, 6}
  MaxFaults = 0
  Faults = {}
SPECIFICATION Spec
INVARIANT EveryGainCounts
