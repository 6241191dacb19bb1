\* Overlapping polls of a page beside requests that come one at a time.
CONSTANTS
  a1 = a1  areaA = areaA  mA1 = mA1  pc1 = pc1
  w1 = w1  w2 = w2  p1 = p1  p2 = p2
  op1 = op1  nobody = nobody
  Zones = {a1}
  Areas = {areaA}
  AreaOf <- MCAreaOf
  Monitors = {mA1}
  ZoneOf <- MCZoneOf
  CounterOf <- MCCounterOf
  SeededZones = {}
  SeededMonitors = {}
  Ratios <- MCRatios
  Times <- MCTimes
  Operators = {op1}
  Nobody = nobody
  OverLimitRatio = 150
  AutoInterlockAfter = 1
  MaxLogs = 1
  Requesters = {w1}
  Sweeper = w2
  Operations = {"create", "issue", "restore"}
  SaveMayFail = FALSE
  OneAtATime = TRUE
  Polls = {p1, p2}
  MaxErrors = 1
SPECIFICATION DashboardFairSpec
INVARIANTS
  QuietOverviewAgrees
PROPERTIES
  PageCatchesUp
