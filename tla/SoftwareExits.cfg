CONSTANTS
  Prices = {90, 93, 97, 100, 103}
  HardStop = 93
  Buffer = 2
  MaxAge = 1
  AlertStreak = 2
  HoldBars = 3
  LoserBars = 1
  LoserBelow = 98
  LoserPeak = 101
  Lookback = 1
  Interval = 3
  Cycles = 2
  Days = 6
  Sessions = {1, 2, 5, 6}
  MaxFaults = 4
  Faults = {"noQuote", "deferred", "reentry"}
SPECIFICATION FairSpec
INVARIANTS TypeOK NoLoserExitAfterGain BlackoutAlerted
PROPERTIES LosersLeave
