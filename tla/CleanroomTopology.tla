-------------------------- MODULE CleanroomTopology --------------------------
(***************************************************************************)
(* The clean zones, physical areas and monitor zones an instance of the    *)
(* service may store, its configuration, and the records it stores.        *)
(*                                                                         *)
(* An id is created at most once and never deleted, and a clean zone never *)
(* changes its area nor a monitor zone its clean zone, so AreaOf, ZoneOf   *)
(* and CounterOf are constants: an id comes with the attributes of the     *)
(* request that creates it.                                                *)
(***************************************************************************)
EXTENDS CleanroomDomain, Sequences, FiniteSets

CONSTANTS
  Zones,              \* ids of the clean zones that may exist
  Areas,              \* physical areas
  AreaOf,             \* the physical area each clean zone is created with
  Monitors,           \* ids of the monitor zones that may exist
  ZoneOf,             \* the clean zone each monitor zone is created in
  CounterOf,          \* the particle counter each monitor zone claims
  SeededZones,        \* clean zones stored before the first request
  SeededMonitors,     \* monitor zones stored before the first request
  Ratios,             \* ratios that samples and manual interlocks may carry
  Times,              \* sample timestamps and calibration due dates
  Operators,          \* who confirms restores
  Nobody,             \* the restore operator of a log that is still open
  OverLimitRatio,     \* config OverLimitRatio, in hundredths
  AutoInterlockAfter, \* config AutoInterlockAfter, in clock ticks
  MaxLogs             \* bound: interlock logs ever created

ASSUME TopologyAssumption ==
  /\ AreaOf \in [Zones -> Areas]
  /\ ZoneOf \in [Monitors -> Zones]
  /\ SeededZones \subseteq Zones
  /\ SeededMonitors \subseteq Monitors
  /\ \A m \in SeededMonitors : ZoneOf[m] \in SeededZones
  /\ \A m, n \in SeededMonitors : CounterOf[m] = CounterOf[n] => m = n

ASSUME ConfigAssumption ==
  /\ Ratios \subseteq Nat
  /\ Times \subseteq Nat
  /\ Nobody \notin Operators
  /\ OverLimitRatio \in Nat /\ OverLimitRatio >= One
  /\ AutoInterlockAfter \in Nat \ {0}
  /\ MaxLogs \in Nat

CleanZoneRecord ==
  [status : ZoneStatuses, timeInStatus : 0 .. AutoInterlockAfter,
   lastParticleRatio : Nat]

MonitorRecord ==
  [ffuLevel : 0 .. 100, freshAirRatio : 0 .. 100,
   inMaintenance : BOOLEAN, calibrationDue : Times]

\* The operator stands for the note and the time of the restore as well:
\* Close writes the three together.
InterlockRecord ==
  [zone : Zones, area : Areas, affected : SUBSET Zones, level : 1 .. 3,
   open : BOOLEAN, restoreBy : Operators \cup {Nobody}]

NewInterlockLog(zone, affected, ratio) ==
  [zone |-> zone, area |-> AreaOf[zone], affected |-> affected,
   level |-> InterlockLevelForRatio(ratio), open |-> TRUE, restoreBy |-> Nobody]

\* A log once `operator' has confirmed the restore.
Closed(log, operator) == [log EXCEPT !.open = FALSE, !.restoreBy = operator]

SweepCandidate == [zone : Zones, ratio : Nat]

\* Mutant of IngestedStatus: the state machine is not asked.
IngestedStatusUnchecked(status, ratio) == StatusForRatio(ratio, OverLimitRatio)

\* The status a zone has after a sample that issues no interlock.
IngestedStatus(status, ratio) ==
  IF status = "interlocked" /\ (ratio >= OverLimitRatio \/ ratio < One)
  THEN status
  ELSE TargetStatusFromRatio(status, ratio, OverLimitRatio)
=============================================================================
