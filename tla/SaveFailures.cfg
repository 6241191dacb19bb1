\* Every write may report a failed save; requests do not overlap.
CONSTANTS
  a1 = a1  a2 = a2  areaA = areaA  mA1 = mA1  pc1 = pc1
  w1 = w1  w2 = w2
  op1 = op1  op2 = op2  nobody = nobody
  Zones = {a1, a2}
  Areas = {areaA}
  AreaOf <- MCAreaOf
  Monitors = {mA1}
  ZoneOf <- MCZoneOf
  CounterOf <- MCCounterOf
  SeededZones = {a1}
  SeededMonitors = {}
  Ratios <- MCHighRatios
  Times <- MCTimes
  Operators = {op1}
  Nobody = nobody
  OverLimitRatio = 150
  AutoInterlockAfter = 1
  MaxLogs = 2
  Requesters = {w1}
  Sweeper = w2
  Operations = {"create", "maintenance", "calibration", "ingest", "issue", "restore", "sweep"}
  SaveMayFail = TRUE
  OneAtATime = TRUE
SPECIFICATION Spec
PROPERTIES
  LegalTransitions
  LogsFollowZones
\* A request that MaxLogs leaves no room for stops there, and one at a time
\* means that nothing follows it.
CHECK_DEADLOCK FALSE
