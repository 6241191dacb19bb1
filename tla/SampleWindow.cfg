\* Windows of three samples with room for two stored ones, so that each new
\* sample trims one away; a share of exactly one half is still credible.
CONSTANTS
  m1 = m1  m2 = m2
  Monitors = {m1, m2}
  CalibrationDue <- MCCalibrationDue
  IsoClassOf <- MCIsoClassOf
  ProcessOf <- MCProcessOf
  OverridesOf <- MCOverridesOf
  Serviced = {m1}
  Readings <- MCWindowReadings
  Window = 3
  InvalidRatioThreshold = 50
  MaxSamplesPerZone = 2
SPECIFICATION Spec
INVARIANTS
  LatestArrivalsStored
  CredibilityOfLastReadings
