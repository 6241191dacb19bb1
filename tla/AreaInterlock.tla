---------------------------- MODULE AreaInterlock ----------------------------
(***************************************************************************)
(* Clean zones, monitor zones and area interlocks with every request as    *)
(* one atomic step: what the service promises when requests do not         *)
(* overlap.  Module InterlockRaces splits the same requests into their     *)
(* store calls.                                                            *)
(*                                                                         *)
(* The zone sweeper lists its candidates in one step and interlocks each   *)
(* of them in a later one, so that requests fall between the two.          *)
(*                                                                         *)
(* Audit entries and generated ids are left out: nothing here reads them.  *)
(***************************************************************************)
EXTENDS CleanroomTopology

VARIABLES
  zones,      \* stored clean zones, by id
  monitors,   \* stored monitor zones, by id
  interlocks, \* stored interlock logs, in the order they were created
  sweep       \* sweeper candidates still to be interlocked, as listed

vars == <<zones, monitors, interlocks, sweep>>

-----------------------------------------------------------------------------
ZonesOfArea(a) == {z \in DOMAIN zones : AreaOf[z] = a}

IsInterlocked(z) == zones[z].status = "interlocked"

InterlockLog(z, ratio) == NewInterlockLog(z, ZonesOfArea(AreaOf[z]), ratio)

\* The clean zones once every zone of area a has been moved to `status'.
ZonesWithArea(a, from, status) ==
  [z \in DOMAIN zones |->
     IF AreaOf[z] = a /\ zones[z].status \in from
     THEN SetStatus(zones[z], status) ELSE zones[z]]

\* applyInterlockCommands on the monitor zones of area a.
MonitorsWithCommands(a, level) ==
  [m \in DOMAIN monitors |->
     IF ZoneOf[m] \in ZonesOfArea(a)
     THEN RaiseVentilation(monitors[m], level) ELSE monitors[m]]

\* IssueForArea, except for the clean zones, which its callers also write.
\* Every status has an edge to interlocked, so the check never refuses.
CommandAndLog(z, ratio) ==
  /\ z \in DOMAIN zones
  /\ Len(interlocks) < MaxLogs
  /\ \A x \in ZonesOfArea(AreaOf[z]) :
       CanTransition(zones[x].status, "interlocked")
  /\ monitors' = MonitorsWithCommands(AreaOf[z], InterlockLevelForRatio(ratio))
  /\ interlocks' = Append(interlocks, InterlockLog(z, ratio))

\* Mutant of ZonesInterlocked: the trigger zone is interlocked alone.
TriggerInterlocked(z) == [zones EXCEPT ![z] = SetStatus(@, "interlocked")]

ZonesInterlocked(z) == ZonesWithArea(AreaOf[z], ZoneStatuses, "interlocked")

IssueForArea(z, ratio) ==
  /\ CommandAndLog(z, ratio)
  /\ zones' = ZonesInterlocked(z)

-----------------------------------------------------------------------------
CreateCleanZone(z) ==
  /\ z \notin DOMAIN zones
  /\ zones' = [x \in DOMAIN zones \cup {z} |->
                 IF x = z THEN NewCleanZone ELSE zones[x]]
  /\ UNCHANGED <<monitors, interlocks, sweep>>

\* A new monitor zone has a due date, a year ahead.
CreateMonitorZone(m, due) ==
  /\ due # NoDue
  /\ ZoneOf[m] \in DOMAIN zones
  /\ m \notin DOMAIN monitors
  /\ \A n \in DOMAIN monitors : CounterOf[n] # CounterOf[m]
  /\ monitors' = [x \in DOMAIN monitors \cup {m} |->
                    IF x = m THEN NewMonitorZone(due) ELSE monitors[x]]
  /\ UNCHANGED <<zones, interlocks, sweep>>

SetMaintenance(m, inMaintenance) ==
  /\ m \in DOMAIN monitors
  /\ monitors' = [monitors EXCEPT ![m].inMaintenance = inMaintenance]
  /\ UNCHANGED <<zones, interlocks, sweep>>

\* Mutant of SetCalibration: the monitor zone is stored anew.
SetCalibrationAnew(m, due) ==
  /\ m \in DOMAIN monitors
  /\ monitors' = [monitors EXCEPT ![m] = NewMonitorZone(due)]
  /\ UNCHANGED <<zones, interlocks, sweep>>

SetCalibration(m, due) ==
  /\ m \in DOMAIN monitors
  /\ monitors' = [monitors EXCEPT ![m].calibrationDue = due]
  /\ UNCHANGED <<zones, interlocks, sweep>>

\* Only a valid sample reaches the state machine.
ValidSample(m, at) ==
  /\ m \in DOMAIN monitors
  /\ EvaluateValidity(monitors[m], at)

\* Process, for a ratio at or over OverLimitRatio in a zone that is not yet
\* interlocked: the whole area is interlocked, then the zone is reloaded and
\* its last ratio stored.
IngestOverLimit(m, ratio, at) ==
  /\ ValidSample(m, at)
  /\ ratio >= OverLimitRatio
  /\ ~IsInterlocked(ZoneOf[m])
  /\ CommandAndLog(ZoneOf[m], ratio)
  /\ zones' = [ZonesInterlocked(ZoneOf[m])
                 EXCEPT ![ZoneOf[m]].lastParticleRatio = ratio]
  /\ UNCHANGED sweep

\* Mutant of IngestWithoutInterlock: a ratio over the limit is classified too.
IngestClassifyOnly(m, ratio, at) ==
  /\ ValidSample(m, at)
  /\ zones' = [zones EXCEPT ![ZoneOf[m]] =
                 [SetStatus(@, TargetStatusFromRatio(@.status, ratio, OverLimitRatio))
                    EXCEPT !.lastParticleRatio = ratio]]
  /\ UNCHANGED <<monitors, interlocks, sweep>>

\* Process, for every other valid sample.
IngestWithoutInterlock(m, ratio, at) ==
  LET z == zones[ZoneOf[m]]
  IN  /\ ValidSample(m, at)
      /\ ratio < OverLimitRatio \/ z.status = "interlocked"
      /\ zones' = [zones EXCEPT ![ZoneOf[m]] =
                     [SetStatus(z, IngestedStatus(z.status, ratio))
                        EXCEPT !.lastParticleRatio = ratio]]
      /\ UNCHANGED <<monitors, interlocks, sweep>>

\* POST /api/zones/{id}/interlock: a ratio under 1.0 stands for 1.5.
IssueManually(z, ratio) ==
  /\ IssueForArea(z, IF ratio < One THEN 150 ELSE ratio)
  /\ UNCHANGED sweep

\* Mutant of Restore: only logs triggered by this very zone are closed.
RestoreOwnLogs(z, operator) ==
  /\ z \in DOMAIN zones
  /\ CanTransition(zones[z].status, RestoreStatus)
  /\ zones' = ZonesWithArea(AreaOf[z],
                            {s \in ZoneStatuses : CanTransition(s, RestoreStatus)},
                            RestoreStatus)
  /\ interlocks' = [i \in DOMAIN interlocks |->
                      IF interlocks[i].open /\ interlocks[i].zone = z
                      THEN Closed(interlocks[i], operator) ELSE interlocks[i]]
  /\ UNCHANGED <<monitors, sweep>>

\* POST /api/zones/{id}/restore, confirmed by an operator.
Restore(z, operator) ==
  /\ z \in DOMAIN zones
  /\ CanTransition(zones[z].status, RestoreStatus)
  /\ zones' = ZonesWithArea(AreaOf[z],
                            {s \in ZoneStatuses : CanTransition(s, RestoreStatus)},
                            RestoreStatus)
  /\ interlocks' = [i \in DOMAIN interlocks |->
                      IF interlocks[i].open /\ interlocks[i].area = AreaOf[z]
                      THEN Closed(interlocks[i], operator)
                      ELSE interlocks[i]]
  /\ UNCHANGED <<monitors, sweep>>

\* AutoInterlockCandidates, each with the ratio its interlock will carry.
AutoInterlockCandidates ==
  {[zone |-> z, ratio |-> IF zones[z].lastParticleRatio < One
                          THEN One ELSE zones[z].lastParticleRatio] :
     z \in {x \in DOMAIN zones :
              /\ zones[x].status \in {"elevated", "over_limit"}
              /\ zones[x].timeInStatus >= AutoInterlockAfter}}

SweepList ==
  /\ sweep = {}
  /\ sweep' = AutoInterlockCandidates
  /\ UNCHANGED <<zones, monitors, interlocks>>

\* The sweeper does not look at the zone again before interlocking its area.
SweepIssue(c) ==
  /\ c \in sweep
  /\ IssueForArea(c.zone, c.ratio)
  /\ sweep' = sweep \ {c}

\* The clock; only timeInStatus >= AutoInterlockAfter is ever asked, so it
\* stops counting there.
Tick ==
  /\ zones' = [z \in DOMAIN zones |->
                 [zones[z] EXCEPT
                    !.timeInStatus = MinInt(AutoInterlockAfter, @ + 1)]]
  /\ UNCHANGED <<monitors, interlocks, sweep>>

-----------------------------------------------------------------------------
Init ==
  /\ zones = [z \in SeededZones |-> NewCleanZone]
  /\ monitors \in [SeededMonitors -> {NewMonitorZone(due) : due \in Times \ {NoDue}}]
  /\ interlocks = <<>>
  /\ sweep = {}

Next ==
  \/ \E z \in Zones : CreateCleanZone(z)
  \/ \E m \in Monitors, due \in Times : CreateMonitorZone(m, due)
  \/ \E m \in Monitors, b \in BOOLEAN : SetMaintenance(m, b)
  \/ \E m \in Monitors, due \in Times : SetCalibration(m, due)
  \/ \E m \in Monitors, ratio \in Ratios, at \in Times :
       \/ IngestOverLimit(m, ratio, at)
       \/ IngestWithoutInterlock(m, ratio, at)
  \/ \E z \in Zones, ratio \in Ratios : IssueManually(z, ratio)
  \/ \E z \in Zones, operator \in Operators : Restore(z, operator)
  \/ SweepList
  \/ \E c \in sweep : SweepIssue(c)
  \/ Tick

Spec == Init /\ [][Next]_vars

\* The two tickers of the process: the clock and the sweeper goroutine.
Fairness ==
  /\ WF_vars(Tick)
  /\ WF_vars(SweepList)
  /\ WF_vars(\E c \in sweep : SweepIssue(c))

FairSpec == Spec /\ Fairness

-----------------------------------------------------------------------------
TypeOK ==
  /\ DOMAIN zones \subseteq Zones
  /\ zones \in [DOMAIN zones -> CleanZoneRecord]
  /\ DOMAIN monitors \subseteq Monitors
  /\ monitors \in [DOMAIN monitors -> MonitorRecord]
  /\ interlocks \in Seq(InterlockRecord)
  /\ sweep \subseteq SweepCandidate

HasOpenLog(a) ==
  \E i \in DOMAIN interlocks : interlocks[i].open /\ interlocks[i].area = a

\* An area has an open interlock log exactly while a zone of it is
\* interlocked: ventilation never runs unrecorded, and no event stays open
\* after the restore (IssueForArea, Restore and the refusal of Process to
\* move an interlocked zone).
OpenLogIffInterlocked ==
  \A a \in Areas :
    HasOpenLog(a) <=> \E z \in ZonesOfArea(a) : IsInterlocked(z)

\* Whole-area consistency: every zone an open log lists as affected is still
\* interlocked, whatever samples it sent since.
AffectedZonesInterlocked ==
  \A i \in DOMAIN interlocks :
    interlocks[i].open =>
      \A z \in interlocks[i].affected : z \in DOMAIN zones /\ IsInterlocked(z)

\* No zone is ever stored as over_limit: at OverLimitRatio Process interlocks
\* the area instead of taking that edge of the state machine.
NeverOverLimit == \A z \in DOMAIN zones : zones[z].status # "over_limit"

\* A log lists zones of its own area only.
LogsNameTheirArea ==
  \A i \in DOMAIN interlocks :
    interlocks[i].affected \subseteq ZonesOfArea(interlocks[i].area)

\* The inductive invariant of AreaInterlockProofs.
IInv ==
  /\ TypeOK
  /\ NeverOverLimit
  /\ LogsNameTheirArea
  /\ OpenLogIffInterlocked
  /\ AffectedZonesInterlocked

\* A zone leaves interlocked only to restored, and in the step that does it
\* no zone of the area stays interlocked and no log of it stays open: the
\* manual confirmation (Restore) is the only way out.
InterlockLeftByRestoreOnly ==
  [][\A z \in DOMAIN zones :
       IsInterlocked(z) /\ ~IsInterlocked(z)' =>
         /\ zones'[z].status = "restored"
         /\ \A x \in ZonesOfArea(AreaOf[z]) : ~IsInterlocked(x)'
         /\ ~HasOpenLog(AreaOf[z])']_vars

\* No request ever turns the ventilation of a monitor zone down: interlocks
\* raise it and neither restore nor maintenance nor calibration touches it.
VentilationNeverLowered ==
  [][\A m \in DOMAIN monitors :
       /\ monitors'[m].ffuLevel >= monitors[m].ffuLevel
       /\ monitors'[m].freshAirRatio >= monitors[m].freshAirRatio]_vars

\* The auto-interlock rule: a zone cannot stay elevated forever (as long as
\* the model still has room for the log of its interlock).
NoZoneStaysElevated ==
  \A z \in Zones :
    []<>(\/ Len(interlocks) = MaxLogs
         \/ z \notin DOMAIN zones
         \/ zones[z].status # "elevated")
=============================================================================
