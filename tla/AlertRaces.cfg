\* Requests and sweeps overlapping at every store call.
CONSTANTS
  r1 = r1  r2 = r2  sweeper = sweeper  particle = particle  pressure = pressure
  Keys = {particle}
  Requesters = {r1, r2}
  Sweeper = sweeper
  Operations = {"raise", "resolve", "ack", "escalate", "sweep"}
  DedupWindow = 1
  EscalateAfter = 2
  MaxAlerts = 2
  SaveMayFail = FALSE
  OneAtATime = FALSE
SPECIFICATION FairSpec
INVARIANTS
  ClosedAlertsDisposed
PROPERTIES
  OverdueEscalated
