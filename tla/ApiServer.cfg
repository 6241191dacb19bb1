\* Startup in eleven environments, then requests through the middleware chain.
\* Nothing happens any more once the requests and the clock are used up.
CONSTANTS
  notANumber = notANumber  w1 = w1  w2 = w2  m1 = m1  unknown = unknown
  absent = absent  invalid = invalid  unsafe = unsafe  traceA = traceA
  NaN = notANumber
  TrimLower <- MCTrimLower
  Workers = {w1, w2}
  Environments <- MCEnvironments
  Monitors = {m1, unknown}
  StoredMonitors = {m1}
  ClientIds = {traceA}
  UnsafeId = unsafe
  HeaderOf <- MCHeaderOf
  Absent = absent
  Invalid = invalid
  Limits <- MCLimits
  DefaultListLimit = 2
  MaxListLimit = 2
  EarlierEntries = 3
  MaxRequests = 3
  MaxTime = 1
SPECIFICATION Spec
CHECK_DEADLOCK FALSE
SYMMETRY MCSymmetry
INVARIANTS
  TypeOK
  ServesAsConfigured
  AnswersOnRecord
  PagingMissesNothing
