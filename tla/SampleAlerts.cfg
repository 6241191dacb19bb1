\* Every condition of a reading in every order; a counter in maintenance or
\* past its calibration; windows of two samples.
CONSTANTS
  m1 = m1  m2 = m2
  Monitors = {m1}
  CalibrationDue <- MCCalibrationDue
  IsoClassOf <- MCIsoClassOf
  ProcessOf <- MCProcessOf
  OverridesOf <- MCOverridesOf
  Serviced = {m1}
  Readings <- MCAlertReadings
  Window = 2
  InvalidRatioThreshold = 50
  MaxSamplesPerZone = 1
SPECIFICATION Spec
INVARIANTS
  TypeOK
  ConditionsOnAlert
  WorseSizeWins
  DirtierClassIsElevated
