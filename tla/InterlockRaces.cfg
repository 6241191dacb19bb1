\* A request and the sweeper, or two requests, interleaved at every store call.
CONSTANTS
  a1 = a1  a2 = a2  areaA = areaA  mA1 = mA1  pc1 = pc1
  w1 = w1  w2 = w2
  op1 = op1  op2 = op2  nobody = nobody
  Zones = {a1, a2}
  Areas = {areaA}
  AreaOf <- MCAreaOf
  Monitors = {mA1}
  ZoneOf <- MCZoneOf
  CounterOf <- MCCounterOf
  SeededZones = {a1, a2}
  SeededMonitors = {mA1}
  Ratios <- MCRatios
  Times <- MCTimes
  Operators = {op1, op2}
  Nobody = nobody
  OverLimitRatio = 150
  AutoInterlockAfter = 1
  MaxLogs = 1
  Requesters = {w1, w2}
  Sweeper = w2
  Operations = {"ingest", "issue", "restore", "sweep"}
  SaveMayFail = FALSE
  OneAtATime = FALSE
SPECIFICATION Spec
INVARIANTS
  TypeOK
  NeverOverLimit
  InterlocksRecorded
PROPERTIES
  SignedWhileOpen
  RestoreClosesLogs
