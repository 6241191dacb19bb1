\* Requests one at a time, store call by store call, implement AreaInterlock.
CONSTANTS
  a1 = a1  a2 = a2  b1 = b1
  areaA = areaA  areaB = areaB
  mA1 = mA1  pc1 = pc1
  w1 = w1  w2 = w2
  op1 = op1  nobody = nobody
  Zones = {a1, a2, b1}
  Areas = {areaA, areaB}
  AreaOf <- MCAreaOf
  Monitors = {mA1}
  ZoneOf <- MCZoneOf
  CounterOf <- MCCounterOf
  SeededZones = {a1, b1}
  SeededMonitors = {}
  Ratios <- MCRatios
  Times <- MCTimes
  Operators = {op1}
  Nobody = nobody
  OverLimitRatio = 150
  AutoInterlockAfter = 1
  MaxLogs = 2
  Requesters = {w1}
  Sweeper = w2
  Operations = {"ingest", "issue", "restore", "sweep", "maintenance", "calibration", "create"}
  SaveMayFail = FALSE
  OneAtATime = TRUE
SPECIFICATION SerialSpec
PROPERTIES
  ImplementsAreaInterlock
\* A request that MaxLogs leaves no room for stops there, and one at a time
\* means that nothing follows it.
CHECK_DEADLOCK FALSE
