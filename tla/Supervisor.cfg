CONSTANTS
  s1 = s1
  s2 = s2
  p1 = p1
  p2 = p2
  p3 = p3
  NoPid = NoPid
  Shells <- OneShell
  Pids <- ThreePids
  Stale = 1
  Grace = 2
  Interval = 1
  TermWait = 1
  Delay = 1
  StartMax = 1
  CycleMax = 1
  Backoff = 1
  MaxFaults = 3
  Faults = {"dies", "hangs", "deaf", "outage", "manual", "again", "signal", "shellDies", "prefilter", "stopFile"}
SPECIFICATION FairSpec
INVARIANTS TypeOK OneEngine KillsOnlyHung HungNotForLong
PROPERTIES EngineReturns
