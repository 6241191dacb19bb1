\* Every request atomic: safety, action properties and the auto-interlock rule.
CONSTANTS
  a1 = a1  a2 = a2  b1 = b1
  areaA = areaA  areaB = areaB
  mA1 = mA1  mA2 = mA2
  pc1 = pc1  pc2 = pc2
  op1 = op1  nobody = nobody
  Zones = {a1, a2, b1}
  Areas = {areaA, areaB}
  AreaOf <- MCAreaOf
  Monitors = {mA1, mA2}
  ZoneOf <- MCZoneOf
  CounterOf <- MCCounterOf
  SeededZones = {a1, b1}
  SeededMonitors = {mA1}
  Ratios <- MCRatios
  Times <- MCTimes
  Operators = {op1}
  Nobody = nobody
  OverLimitRatio = 150
  AutoInterlockAfter = 1
  MaxLogs = 2
SPECIFICATION FairSpec
INVARIANTS
  TypeOK
  OpenLogIffInterlocked
  AffectedZonesInterlocked
  NeverOverLimit
PROPERTIES
  InterlockLeftByRestoreOnly
  VentilationNeverLowered
  NoZoneStaysElevated
