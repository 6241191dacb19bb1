\* Two requests at a time, three in all, over three lives of the service.
\* The service may stay off after its last start.
CONSTANTS
  r1 = r1  r2 = r2  main = main
  zone_a1 = zone_a1  zone_b1 = zone_b1  baseline = baseline
  Requesters = {r1, r2}
  Main = main
  Fixtures <- MCFixtures
  Zones = {zone_a1, zone_b1}
  Numbered = {baseline}
  MaxRequests = 3
  MaxStarts = 3
  SaveMayFail = TRUE
  DirSyncMayFail = FALSE
SPECIFICATION Spec
CHECK_DEADLOCK FALSE
INVARIANTS
  TypeOK
  AckedSurvive
  FileNeverTorn
  VisibleIsOnFile
  IdsUnique
PROPERTIES
  SnapshotsAdvance
  WritersAnswered
