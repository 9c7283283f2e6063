CONSTANTS
  Ttl = 5
  Base = 5
  MaxWait = 10
  Retries = 3
  StreakAlert = 2
  ScanTicks = 2
SPECIFICATION FairSpec
INVARIANTS TypeOK
PROPERTIES EntriesOnFreshVix EntriesInTodaysTape GateReopens
