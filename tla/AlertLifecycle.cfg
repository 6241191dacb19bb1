\* Requests and sweeps one at a time, with writes that report a failed save.
CONSTANTS
  r1 = r1  r2 = r2  sweeper = sweeper  particle = particle  pressure = pressure
  Keys = {particle, pressure}
  Requesters = {r1}
  Sweeper = sweeper
  Operations = {"raise", "resolve", "ack", "escalate", "sweep"}
  DedupWindow = 2
  EscalateAfter = 3
  MaxAlerts = 3
  SaveMayFail = TRUE
  OneAtATime = TRUE
SPECIFICATION Spec
INVARIANTS
  TypeOK
  OneFreshAlertPerKey
PROPERTIES
  ClosedOnlyFromAcknowledged
  DispositionKept
SYMMETRY MCSymmetry
