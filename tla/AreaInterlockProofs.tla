------------------------- MODULE AreaInterlockProofs -------------------------
(***************************************************************************)
(* The invariants and action properties of AreaInterlock, for every        *)
(* topology, configuration and set of ratios.                              *)
(***************************************************************************)
EXTENDS AreaInterlock, TopologyFacts

-----------------------------------------------------------------------------
(* Type correctness. *)

\* The one value of interlocks that matters before anything else.
LEMMA LogsIndexed ==
  ASSUME TypeOK
  PROVE  /\ Len(interlocks) \in Nat
         /\ DOMAIN interlocks = 1 .. Len(interlocks)
         /\ \A i \in DOMAIN interlocks : interlocks[i] \in InterlockRecord
  BY ElementOfSeq DEF TypeOK

\* Moving the zones of an area writes those zones and no other.
LEMMA ZonesWithAreaFacts ==
  ASSUME TypeOK, NEW a, NEW from, NEW s \in ZoneStatuses
  PROVE  /\ ZonesWithArea(a, from, s) \in [DOMAIN zones -> CleanZoneRecord]
         /\ \A z \in DOMAIN zones :
              ZonesWithArea(a, from, s)[z].status =
                IF AreaOf[z] = a /\ zones[z].status \in from
                THEN s ELSE zones[z].status
<1>1. \A z \in DOMAIN zones : zones[z] \in CleanZoneRecord
  BY DEF TypeOK
<1>2. QED
  BY <1>1, SetStatusFacts DEF ZonesWithArea

\* What IssueForArea does to the monitor zones and to the logs.
LEMMA CommandAndLogFacts ==
  ASSUME TypeOK, NEW z, NEW r \in Nat, CommandAndLog(z, r)
  PROVE  /\ DOMAIN monitors' = DOMAIN monitors
         /\ monitors' \in [DOMAIN monitors -> MonitorRecord]
         /\ \A m \in DOMAIN monitors :
              /\ monitors'[m].ffuLevel >= monitors[m].ffuLevel
              /\ monitors'[m].freshAirRatio >= monitors[m].freshAirRatio
         /\ InterlockLog(z, r) \in InterlockRecord
         /\ interlocks' \in Seq(InterlockRecord)
         /\ DOMAIN interlocks' = DOMAIN interlocks \cup {Len(interlocks) + 1}
         /\ \A i \in DOMAIN interlocks : interlocks'[i] = interlocks[i]
         /\ interlocks'[Len(interlocks) + 1] = InterlockLog(z, r)
<1>1. InterlockLevelForRatio(r) \in 1 .. 3
  BY LevelTyped
<1>2. \A m \in DOMAIN monitors : monitors[m] \in MonitorRecord
  BY DEF TypeOK
<1>3. /\ DOMAIN monitors' = DOMAIN monitors
      /\ \A m \in DOMAIN monitors :
           \/ monitors'[m] = RaiseVentilation(monitors[m], InterlockLevelForRatio(r))
           \/ monitors'[m] = monitors[m]
      /\ monitors' = [m \in DOMAIN monitors |-> monitors'[m]]
  BY DEF CommandAndLog, MonitorsWithCommands
<1>4. \A m \in DOMAIN monitors :
        /\ monitors'[m] \in MonitorRecord
        /\ monitors'[m].ffuLevel >= monitors[m].ffuLevel
        /\ monitors'[m].freshAirRatio >= monitors[m].freshAirRatio
  <2> SUFFICES ASSUME NEW m \in DOMAIN monitors
               PROVE  /\ monitors'[m] \in MonitorRecord
                      /\ monitors'[m].ffuLevel >= monitors[m].ffuLevel
                      /\ monitors'[m].freshAirRatio >= monitors[m].freshAirRatio
    OBVIOUS
  <2>1. CASE monitors'[m] = monitors[m]
    BY <1>2, <2>1 DEF MonitorRecord
  <2>2. CASE monitors'[m] = RaiseVentilation(monitors[m], InterlockLevelForRatio(r))
    BY <1>1, <1>2, <2>2, RaiseVentilationFacts
  <2>3. QED
    BY <1>3, <2>1, <2>2
<1>5. InterlockLog(z, r) \in InterlockRecord
  BY <1>1, TopologyAssumption
  DEF TypeOK, CommandAndLog, InterlockLog, NewInterlockLog, InterlockRecord, ZonesOfArea
<1>6. interlocks \in Seq(InterlockRecord) /\ interlocks' = Append(interlocks, InterlockLog(z, r))
  BY DEF TypeOK, CommandAndLog
<1>7. /\ interlocks' \in Seq(InterlockRecord)
      /\ Len(interlocks') = Len(interlocks) + 1
      /\ \A i \in 1 .. Len(interlocks) : interlocks'[i] = interlocks[i]
      /\ interlocks'[Len(interlocks) + 1] = InterlockLog(z, r)
  BY <1>5, <1>6, AppendProperties
<1>8. DOMAIN interlocks' = DOMAIN interlocks \cup {Len(interlocks) + 1}
  BY <1>7, LogsIndexed, ElementOfSeq
<1>9. QED
  BY <1>3, <1>4, <1>5, <1>7, <1>8, LogsIndexed

\* The seeded store has the stored shape.
LEMMA TypeInit == Init => TypeOK
<1> SUFFICES ASSUME Init PROVE TypeOK
  OBVIOUS
<1>1. /\ DOMAIN zones \subseteq Zones
      /\ zones \in [DOMAIN zones -> CleanZoneRecord]
  BY NewRecordsTyped, TopologyAssumption DEF Init
<1>2. /\ DOMAIN monitors \subseteq Monitors
      /\ monitors \in [DOMAIN monitors -> MonitorRecord]
  BY NewRecordsTyped, TopologyAssumption DEF Init
<1>3. interlocks \in Seq(InterlockRecord) /\ sweep \subseteq SweepCandidate
  BY EmptySeq DEF Init
<1>4. QED
  BY <1>1, <1>2, <1>3 DEF TypeOK

\* Every request, sweep and tick keeps the stored shape.
LEMMA TypeStep == TypeOK /\ [Next]_vars => TypeOK'
<1> SUFFICES ASSUME TypeOK, [Next]_vars PROVE TypeOK'
  OBVIOUS
<1>z. \A z \in DOMAIN zones : zones[z] \in CleanZoneRecord
  BY DEF TypeOK
<1>m. \A m \in DOMAIN monitors : monitors[m] \in MonitorRecord
  BY DEF TypeOK
<1>1. ASSUME NEW z \in Zones, CreateCleanZone(z) PROVE TypeOK'
  BY <1>1, <1>z, NewRecordsTyped DEF CreateCleanZone, TypeOK
<1>2. ASSUME NEW m \in Monitors, NEW due \in Times, CreateMonitorZone(m, due)
      PROVE  TypeOK'
  BY <1>2, <1>m, NewRecordsTyped DEF CreateMonitorZone, TypeOK
<1>3. ASSUME NEW m \in Monitors, NEW b \in BOOLEAN, SetMaintenance(m, b)
      PROVE  TypeOK'
  <2>1. [monitors[m] EXCEPT !.inMaintenance = b] \in MonitorRecord
    BY <1>3, <1>m DEF SetMaintenance, MonitorRecord
  <2>2. QED
    BY <1>3, <1>m, <2>1 DEF SetMaintenance, TypeOK
<1>4. ASSUME NEW m \in Monitors, NEW due \in Times, SetCalibration(m, due)
      PROVE  TypeOK'
  <2>1. [monitors[m] EXCEPT !.calibrationDue = due] \in MonitorRecord
    BY <1>4, <1>m DEF SetCalibration, MonitorRecord
  <2>2. QED
    BY <1>4, <1>m, <2>1 DEF SetCalibration, TypeOK
<1>5. ASSUME NEW m \in Monitors, NEW r \in Ratios, NEW at \in Times,
             IngestOverLimit(m, r, at)
      PROVE  TypeOK'
  <2>1. r \in Nat /\ CommandAndLog(ZoneOf[m], r)
    BY <1>5, ConfigAssumption DEF IngestOverLimit
  <2>2. ZonesInterlocked(ZoneOf[m]) \in [DOMAIN zones -> CleanZoneRecord]
    BY ZonesWithAreaFacts DEF ZonesInterlocked, ZoneStatuses
  <2>3. zones' \in [DOMAIN zones -> CleanZoneRecord]
    BY <1>5, <2>1, <2>2 DEF IngestOverLimit, CleanZoneRecord
  <2>4. QED
    BY <1>5, <2>1, <2>3, CommandAndLogFacts DEF IngestOverLimit, TypeOK
<1>6. ASSUME NEW m \in Monitors, NEW r \in Ratios, NEW at \in Times,
             IngestWithoutInterlock(m, r, at)
      PROVE  TypeOK'
  <2>1. r \in Nat
    BY ConfigAssumption
  <2>2. \A z \in DOMAIN zones : zones'[z] \in CleanZoneRecord
    BY <1>6, <2>1, <1>z, IngestedZoneFacts DEF IngestWithoutInterlock
  <2>3. zones' \in [DOMAIN zones -> CleanZoneRecord]
    BY <1>6, <2>2 DEF IngestWithoutInterlock
  <2>4. QED
    BY <1>6, <2>3 DEF IngestWithoutInterlock, TypeOK
<1>7. ASSUME NEW z, NEW r \in Nat, IssueForArea(z, r), sweep' \subseteq sweep
      PROVE  TypeOK'
  <2>1. zones' \in [DOMAIN zones -> CleanZoneRecord]
    BY <1>7, ZonesWithAreaFacts DEF IssueForArea, ZonesInterlocked, ZoneStatuses
  <2>2. QED
    BY <1>7, <2>1, CommandAndLogFacts DEF IssueForArea, TypeOK
<1>8. ASSUME NEW z \in Zones, NEW r \in Ratios, IssueManually(z, r)
      PROVE  TypeOK'
  BY <1>7, <1>8, ConfigAssumption DEF IssueManually
<1>9. ASSUME NEW z \in Zones, NEW operator \in Operators, Restore(z, operator)
      PROVE  TypeOK'
  <2>1. zones' \in [DOMAIN zones -> CleanZoneRecord]
    BY <1>9, ZonesWithAreaFacts DEF Restore, RestoreStatus, ZoneStatuses
  <2>2. \A i \in DOMAIN interlocks :
          Closed(interlocks[i], operator) \in InterlockRecord
    BY LogsIndexed, ClosedFacts
  <2>3. interlocks' \in Seq(InterlockRecord)
    BY <1>9, <2>2, LogsIndexed, MappedSequence DEF Restore, TypeOK
  <2>4. QED
    BY <1>9, <2>1, <2>3 DEF Restore, TypeOK
<1>10. ASSUME SweepList PROVE TypeOK'
  <2>1. AutoInterlockCandidates \subseteq SweepCandidate
    BY <1>z DEF AutoInterlockCandidates, SweepCandidate, CleanZoneRecord, TypeOK, One
  <2>2. QED
    BY <1>10, <2>1 DEF SweepList, TypeOK
<1>11. ASSUME NEW c \in sweep, SweepIssue(c) PROVE TypeOK'
  <2>1. c.ratio \in Nat
    BY DEF TypeOK, SweepCandidate
  <2>2. QED
    BY <1>7, <1>11, <2>1 DEF SweepIssue
<1>12. ASSUME Tick PROVE TypeOK'
  <2>1. \A z \in DOMAIN zones : zones'[z] \in CleanZoneRecord
    BY <1>12, <1>z, OlderZoneFacts DEF Tick
  <2>2. QED
    BY <1>12, <2>1 DEF Tick, TypeOK
<1>13. CASE UNCHANGED vars
  BY <1>13 DEF vars, TypeOK
<1>14. QED
  BY <1>1, <1>2, <1>3, <1>4, <1>5, <1>6, <1>8, <1>9, <1>10, <1>11, <1>12, <1>13
  DEF Next

\* The stored clean zones, monitor zones, interlock logs and the sweeper's
\* list always have the shape the code gives them.
THEOREM TypeCorrect == Spec => []TypeOK
  BY TypeInit, TypeStep, PTL DEF Spec

-----------------------------------------------------------------------------
(* Interlock logs and zone statuses.                                        *)
(*                                                                          *)
(* The invariant looks at the zones through their statuses only, and there  *)
(* are three kinds of steps: those that take no zone into or out of         *)
(* interlocked, those that interlock and log a whole area, and those that   *)
(* restore a whole area and close its logs.                                 *)

\* Zones may be added, and no zone enters or leaves interlocked.
StatusKept ==
  /\ DOMAIN zones \subseteq DOMAIN zones'
  /\ \A z \in DOMAIN zones' : zones'[z].status # "over_limit"
  /\ \A z \in DOMAIN zones : IsInterlocked(z)' <=> IsInterlocked(z)
  /\ \A z \in DOMAIN zones' \ DOMAIN zones : ~IsInterlocked(z)'
  /\ interlocks' = interlocks

\* The area of z is interlocked and a log of it is created.
AreaInterlocked(z, r) ==
  /\ z \in DOMAIN zones
  /\ DOMAIN zones' = DOMAIN zones
  /\ \A x \in DOMAIN zones :
       zones'[x].status = IF AreaOf[x] = AreaOf[z] THEN "interlocked"
                          ELSE zones[x].status
  /\ CommandAndLog(z, r)

\* A step that moves no zone in or out of interlocked keeps the invariant.
LEMMA StatusKeptStep ==
  ASSUME IInv, TypeOK', StatusKept
  PROVE  IInv'
<1>1. NeverOverLimit'
  BY DEF NeverOverLimit, StatusKept
<1>2. \A a : ZonesOfArea(a) \subseteq ZonesOfArea(a)'
  BY DEF ZonesOfArea, StatusKept
<1>3. LogsNameTheirArea'
  BY <1>2 DEF LogsNameTheirArea, StatusKept, IInv
<1>4. \A a : (\E z \in ZonesOfArea(a) : IsInterlocked(z))
             <=> (\E z \in ZonesOfArea(a) : IsInterlocked(z))'
  BY DEF ZonesOfArea, StatusKept, IsInterlocked
<1>5. OpenLogIffInterlocked'
  BY <1>4 DEF OpenLogIffInterlocked, HasOpenLog, StatusKept, IInv
<1>6. AffectedZonesInterlocked'
  BY DEF AffectedZonesInterlocked, StatusKept, IInv
<1>7. QED
  BY <1>1, <1>3, <1>5, <1>6 DEF IInv

\* Interlocking a whole area and logging it keeps the invariant.
LEMMA AreaInterlockedStep ==
  ASSUME IInv, TypeOK', NEW z, NEW r \in Nat, AreaInterlocked(z, r)
  PROVE  IInv'
<1> DEFINE new == Len(interlocks) + 1
<1> USE DEF IInv
<1>1. /\ DOMAIN interlocks' = DOMAIN interlocks \cup {new}
      /\ \A i \in DOMAIN interlocks : interlocks'[i] = interlocks[i]
      /\ interlocks'[new] = InterlockLog(z, r)
  BY CommandAndLogFacts DEF AreaInterlocked
<1>2. /\ InterlockLog(z, r).area = AreaOf[z]
      /\ InterlockLog(z, r).affected = ZonesOfArea(AreaOf[z])
      /\ InterlockLog(z, r).open
  BY DEF InterlockLog, NewInterlockLog
<1>3. \A a : ZonesOfArea(a)' = ZonesOfArea(a)
  BY DEF ZonesOfArea, AreaInterlocked
<1>4. NeverOverLimit'
  BY DEF NeverOverLimit, AreaInterlocked
<1>5. LogsNameTheirArea'
  BY <1>1, <1>2, <1>3 DEF LogsNameTheirArea
<1>6. ASSUME NEW a \in Areas
      PROVE  HasOpenLog(a)' <=> (\E x \in ZonesOfArea(a) : IsInterlocked(x))'
  <2>1. CASE a = AreaOf[z]
    <3>1. HasOpenLog(a)'
      BY <1>1, <1>2, <2>1 DEF HasOpenLog
    <3>2. z \in ZonesOfArea(a)' /\ IsInterlocked(z)'
      BY <2>1 DEF AreaInterlocked, ZonesOfArea, IsInterlocked
    <3>3. QED
      BY <3>1, <3>2
  <2>2. CASE a # AreaOf[z]
    <3>1. HasOpenLog(a)' <=> HasOpenLog(a)
      BY <1>1, <1>2, <2>2 DEF HasOpenLog
    <3>2. (\E x \in ZonesOfArea(a) : IsInterlocked(x))'
            <=> \E x \in ZonesOfArea(a) : IsInterlocked(x)
      BY <2>2 DEF AreaInterlocked, ZonesOfArea, IsInterlocked
    <3>3. QED
      BY <3>1, <3>2 DEF OpenLogIffInterlocked
  <2>3. QED
    BY <2>1, <2>2
<1>7. AffectedZonesInterlocked'
  <2> SUFFICES ASSUME NEW i \in DOMAIN interlocks', interlocks'[i].open,
                      NEW x \in interlocks'[i].affected
               PROVE  x \in DOMAIN zones' /\ IsInterlocked(x)'
    BY DEF AffectedZonesInterlocked
  <2>1. CASE i = new
    BY <1>1, <1>2, <2>1 DEF AreaInterlocked, ZonesOfArea, IsInterlocked
  <2>2. CASE i \in DOMAIN interlocks
    BY <1>1, <2>2 DEF AffectedZonesInterlocked, AreaInterlocked, IsInterlocked
  <2>3. QED
    BY <1>1, <2>1, <2>2
<1>8. QED
  BY <1>4, <1>5, <1>6, <1>7 DEF OpenLogIffInterlocked

\* Restoring a whole area and closing its logs keeps the invariant.
LEMMA RestoreStep ==
  ASSUME IInv, TypeOK', NEW z \in Zones, NEW operator \in Operators, Restore(z, operator)
  PROVE  IInv'
<1> USE DEF IInv
<1>1. /\ z \in DOMAIN zones
      /\ DOMAIN zones' = DOMAIN zones
      /\ \A x \in DOMAIN zones :
           /\ AreaOf[x] # AreaOf[z] => zones'[x].status = zones[x].status
           /\ AreaOf[x] = AreaOf[z] =>
                zones'[x].status \notin {"interlocked", "over_limit"}
  <2>1. zones' = ZonesWithArea(AreaOf[z],
                   {s \in ZoneStatuses : CanTransition(s, RestoreStatus)}, RestoreStatus)
    BY DEF Restore
  <2>2. RestoreStatus \in ZoneStatuses /\ RestoreStatus = "restored"
    BY DEF RestoreStatus, ZoneStatuses
  <2>3. "interlocked" \in {s \in ZoneStatuses : CanTransition(s, RestoreStatus)}
    BY DEF CanTransition, NextStatuses, RestoreStatus, ZoneStatuses
  <2>4. \A x \in DOMAIN zones :
          zones'[x].status =
            IF /\ AreaOf[x] = AreaOf[z]
               /\ zones[x].status \in {s \in ZoneStatuses : CanTransition(s, RestoreStatus)}
            THEN RestoreStatus ELSE zones[x].status
    BY <2>1, <2>2, ZonesWithAreaFacts
  <2>5. z \in DOMAIN zones /\ DOMAIN zones' = DOMAIN zones
    BY <2>1 DEF Restore, ZonesWithArea
  <2>6. QED
    BY <2>2, <2>3, <2>4, <2>5 DEF NeverOverLimit
<1>2. /\ DOMAIN interlocks' = DOMAIN interlocks
      /\ \A i \in DOMAIN interlocks :
           /\ interlocks'[i].area = interlocks[i].area
           /\ interlocks'[i].affected = interlocks[i].affected
           /\ interlocks'[i].open <=>
                interlocks[i].open /\ interlocks[i].area # AreaOf[z]
  <2>1. \A i \in DOMAIN interlocks :
          /\ Closed(interlocks[i], operator).area = interlocks[i].area
          /\ Closed(interlocks[i], operator).affected = interlocks[i].affected
          /\ ~Closed(interlocks[i], operator).open
          /\ interlocks[i].open \in BOOLEAN
    BY LogsIndexed, ClosedFacts DEF InterlockRecord
  <2>2. interlocks' = [i \in DOMAIN interlocks |->
                         IF interlocks[i].open /\ interlocks[i].area = AreaOf[z]
                         THEN Closed(interlocks[i], operator) ELSE interlocks[i]]
    BY DEF Restore
  <2>3. QED
    BY <2>1, <2>2
<1>3. \A a : ZonesOfArea(a)' = ZonesOfArea(a)
  BY <1>1 DEF ZonesOfArea
<1>4. NeverOverLimit'
  BY <1>1 DEF NeverOverLimit
<1>5. LogsNameTheirArea'
  BY <1>2, <1>3 DEF LogsNameTheirArea
<1>6. ASSUME NEW a \in Areas
      PROVE  HasOpenLog(a)' <=> (\E x \in ZonesOfArea(a) : IsInterlocked(x))'
  <2>1. CASE a = AreaOf[z]
    BY <1>1, <1>2, <2>1 DEF HasOpenLog, ZonesOfArea, IsInterlocked
  <2>2. CASE a # AreaOf[z]
    <3>1. HasOpenLog(a)' <=> HasOpenLog(a)
      BY <1>2, <2>2 DEF HasOpenLog
    <3>2. (\E x \in ZonesOfArea(a) : IsInterlocked(x))'
            <=> \E x \in ZonesOfArea(a) : IsInterlocked(x)
      BY <1>1, <2>2 DEF ZonesOfArea, IsInterlocked
    <3>3. QED
      BY <3>1, <3>2 DEF OpenLogIffInterlocked
  <2>3. QED
    BY <2>1, <2>2
<1>7. AffectedZonesInterlocked'
  BY <1>1, <1>2
  DEF AffectedZonesInterlocked, LogsNameTheirArea, ZonesOfArea, IsInterlocked
<1>8. QED
  BY <1>4, <1>5, <1>6, <1>7 DEF OpenLogIffInterlocked
\* The initial state satisfies the invariant: nothing is interlocked or logged.
LEMMA InvariantInit == Init => IInv
<1> SUFFICES ASSUME Init PROVE IInv
  OBVIOUS
<1>1. interlocks = <<>> /\ DOMAIN interlocks = {}
  BY DEF Init
<1>2. \A z \in DOMAIN zones : zones[z].status = "normal"
  BY DEF Init, NewCleanZone, CleanZone
<1>3. NeverOverLimit
  BY <1>2 DEF NeverOverLimit
<1>4. LogsNameTheirArea /\ AffectedZonesInterlocked
  BY <1>1 DEF LogsNameTheirArea, AffectedZonesInterlocked
<1>5. OpenLogIffInterlocked
  BY <1>1, <1>2 DEF OpenLogIffInterlocked, HasOpenLog, ZonesOfArea, IsInterlocked
<1>6. QED
  BY <1>3, <1>4, <1>5, TypeInit DEF IInv

\* Samples at the limit and manual and automatic interlocks alike interlock
\* the area of one zone.
LEMMA OverLimitInterlocksArea ==
  ASSUME TypeOK, NEW m \in Monitors, NEW r \in Ratios, NEW at \in Times,
         IngestOverLimit(m, r, at)
  PROVE  AreaInterlocked(ZoneOf[m], r)
<1>1. /\ CommandAndLog(ZoneOf[m], r)
      /\ ZoneOf[m] \in DOMAIN zones
  BY DEF IngestOverLimit, CommandAndLog
<1>2. /\ ZonesInterlocked(ZoneOf[m]) \in [DOMAIN zones -> CleanZoneRecord]
      /\ \A x \in DOMAIN zones :
           ZonesInterlocked(ZoneOf[m])[x].status =
             IF AreaOf[x] = AreaOf[ZoneOf[m]] /\ zones[x].status \in ZoneStatuses
             THEN "interlocked" ELSE zones[x].status
  BY ZonesWithAreaFacts DEF ZonesInterlocked, ZoneStatuses
<1>3. \A x \in DOMAIN zones : zones[x].status \in ZoneStatuses
  BY DEF TypeOK, CleanZoneRecord
<1>4. /\ DOMAIN zones' = DOMAIN zones
      /\ \A x \in DOMAIN zones :
           zones'[x].status = ZonesInterlocked(ZoneOf[m])[x].status
  BY <1>2 DEF IngestOverLimit, CleanZoneRecord
<1>5. QED
  BY <1>1, <1>2, <1>3, <1>4 DEF AreaInterlocked

\* IssueForArea interlocks the area of the zone it is called for.
LEMMA IssueInterlocksArea ==
  ASSUME TypeOK, NEW z, NEW r \in Nat, IssueForArea(z, r)
  PROVE  AreaInterlocked(z, r)
<1>1. \A x \in DOMAIN zones :
        zones'[x].status =
          IF AreaOf[x] = AreaOf[z] /\ zones[x].status \in ZoneStatuses
          THEN "interlocked" ELSE zones[x].status
  BY ZonesWithAreaFacts DEF IssueForArea, ZonesInterlocked, ZoneStatuses
<1>2. \A x \in DOMAIN zones : zones[x].status \in ZoneStatuses
  BY DEF TypeOK, CleanZoneRecord
<1>3. /\ z \in DOMAIN zones
      /\ CommandAndLog(z, r)
      /\ DOMAIN zones' = DOMAIN zones
  BY DEF IssueForArea, CommandAndLog, ZonesInterlocked, ZonesWithArea
<1>4. QED
  BY <1>1, <1>2, <1>3 DEF AreaInterlocked

\* A sample that issues no interlock moves its zone between the other
\* statuses, or leaves it interlocked.
LEMMA SampleKeepsStatus ==
  ASSUME IInv, NEW m \in Monitors, NEW r \in Ratios, NEW at \in Times,
         IngestWithoutInterlock(m, r, at)
  PROVE  StatusKept
<1> DEFINE z == zones[ZoneOf[m]]
<1>1. r \in Nat /\ interlocks' = interlocks /\ DOMAIN zones' = DOMAIN zones
  BY ConfigAssumption DEF IngestWithoutInterlock
<1>2. /\ \A x \in DOMAIN zones : x # ZoneOf[m] => zones'[x] = zones[x]
      /\ ZoneOf[m] \in DOMAIN zones =>
           zones'[ZoneOf[m]] = [SetStatus(z, IngestedStatus(z.status, r))
                                  EXCEPT !.lastParticleRatio = r]
  BY DEF IngestWithoutInterlock
<1>3. \A x \in DOMAIN zones :
        zones[x] \in CleanZoneRecord /\ zones[x].status \in ZoneStatuses \ {"over_limit"}
  BY DEF IInv, TypeOK, NeverOverLimit, CleanZoneRecord
<1>4. r < OverLimitRatio \/ z.status = "interlocked"
  BY DEF IngestWithoutInterlock
<1>5. ASSUME ZoneOf[m] \in DOMAIN zones
      PROVE  /\ zones'[ZoneOf[m]].status # "over_limit"
             /\ zones'[ZoneOf[m]].status = "interlocked" <=> z.status = "interlocked"
  <2>1. zones'[ZoneOf[m]].status = IngestedStatus(z.status, r)
    BY <1>1, <1>2, <1>3, <1>5, IngestedZoneFacts
  <2>2. z.status \in ZoneStatuses /\ z.status # "over_limit"
    BY <1>3, <1>5
  <2>3. QED
    BY <1>1, <1>4, <2>1, <2>2, IngestedStatusFacts
<1>6. QED
  BY <1>1, <1>2, <1>3, <1>5 DEF StatusKept, IsInterlocked

\* Every other step keeps the statuses as they are.
LEMMA OtherStepsKeepStatus ==
  ASSUME IInv,
         \/ \E z \in Zones : CreateCleanZone(z)
         \/ \E m \in Monitors, due \in Times : CreateMonitorZone(m, due)
         \/ \E m \in Monitors, b \in BOOLEAN : SetMaintenance(m, b)
         \/ \E m \in Monitors, due \in Times : SetCalibration(m, due)
         \/ SweepList
         \/ Tick
         \/ UNCHANGED vars
  PROVE  StatusKept
<1>1. \A z \in DOMAIN zones :
        zones[z] \in CleanZoneRecord /\ zones[z].status # "over_limit"
  BY DEF IInv, TypeOK, NeverOverLimit
<1>2. CASE zones' = zones /\ interlocks' = interlocks
  BY <1>1, <1>2 DEF StatusKept, IsInterlocked
<1>3. ASSUME NEW z \in Zones, CreateCleanZone(z) PROVE StatusKept
  BY <1>1, <1>3
  DEF CreateCleanZone, StatusKept, IsInterlocked, NewCleanZone, CleanZone
<1>4. ASSUME Tick PROVE StatusKept
  <2>1. /\ DOMAIN zones' = DOMAIN zones
        /\ \A z \in DOMAIN zones : zones'[z].status = zones[z].status
    BY <1>1, <1>4, OlderZoneFacts DEF Tick
  <2>2. QED
    BY <1>1, <1>4, <2>1 DEF Tick, StatusKept, IsInterlocked
<1>5. QED
  BY <1>2, <1>3, <1>4
  DEF CreateMonitorZone, SetMaintenance, SetCalibration, SweepList, vars

\* Every step is of one of the three kinds.
LEMMA StepKinds ==
  ASSUME IInv, [Next]_vars
  PROVE  \/ StatusKept
         \/ \E z : \E r \in Nat : AreaInterlocked(z, r)
         \/ \E z \in Zones, operator \in Operators : Restore(z, operator)
<1> USE DEF IInv
<1>1. ASSUME NEW m \in Monitors, NEW r \in Ratios, NEW at \in Times,
             IngestOverLimit(m, r, at)
      PROVE  \E z : \E q \in Nat : AreaInterlocked(z, q)
  BY <1>1, OverLimitInterlocksArea, ConfigAssumption
<1>2. ASSUME NEW z \in Zones, NEW r \in Ratios, IssueManually(z, r)
      PROVE  \E y : \E q \in Nat : AreaInterlocked(y, q)
  <2>1. (IF r < One THEN 150 ELSE r) \in Nat
    BY ConfigAssumption
  <2>2. QED
    BY <1>2, <2>1, IssueInterlocksArea DEF IssueManually
<1>3. ASSUME NEW c \in sweep, SweepIssue(c)
      PROVE  \E z : \E q \in Nat : AreaInterlocked(z, q)
  <2>1. c.ratio \in Nat
    BY DEF TypeOK, SweepCandidate
  <2>2. QED
    BY <1>3, <2>1, IssueInterlocksArea DEF SweepIssue
<1>4. ASSUME NEW m \in Monitors, NEW r \in Ratios, NEW at \in Times,
             IngestWithoutInterlock(m, r, at)
      PROVE  StatusKept
  BY <1>4, SampleKeepsStatus
<1>5. QED
  BY <1>1, <1>2, <1>3, <1>4, OtherStepsKeepStatus DEF Next

\* The invariant is inductive.
LEMMA InvariantStep == IInv /\ [Next]_vars => IInv'
<1> SUFFICES ASSUME IInv, [Next]_vars PROVE IInv'
  OBVIOUS
<1>1. TypeOK'
  BY TypeStep DEF IInv
<1>2. CASE StatusKept
  BY <1>1, <1>2, StatusKeptStep
<1>3. CASE \E z : \E r \in Nat : AreaInterlocked(z, r)
  BY <1>1, <1>3, AreaInterlockedStep
<1>4. CASE \E z \in Zones, operator \in Operators : Restore(z, operator)
  BY <1>1, <1>4, RestoreStep
<1>5. QED
  BY <1>2, <1>3, <1>4, StepKinds

\* The inductive invariant holds of every behaviour.
THEOREM InvariantHolds == Spec => []IInv
  BY InvariantInit, InvariantStep, PTL DEF Spec

\* An area has an open log exactly while a zone of it is interlocked.
THEOREM LogsMatchZones == Spec => []OpenLogIffInterlocked
<1>1. IInv => OpenLogIffInterlocked
  BY DEF IInv
<1>2. QED
  BY <1>1, InvariantHolds, PTL

\* The zones an open log lists are interlocked.
THEOREM AffectedStayInterlocked == Spec => []AffectedZonesInterlocked
<1>1. IInv => AffectedZonesInterlocked
  BY DEF IInv
<1>2. QED
  BY <1>1, InvariantHolds, PTL

\* No clean zone is ever stored as over_limit.
THEOREM OverLimitNeverStored == Spec => []NeverOverLimit
<1>1. IInv => NeverOverLimit
  BY DEF IInv
<1>2. QED
  BY <1>1, InvariantHolds, PTL

-----------------------------------------------------------------------------
(* What a step may never do. *)

\* Only Restore takes a zone out of interlocked, it takes the whole area out
\* and closes every log of it.
THEOREM RestoreIsTheOnlyWayOut == Spec => InterlockLeftByRestoreOnly
<1> DEFINE Left ==
      \A z \in DOMAIN zones :
        IsInterlocked(z) /\ ~IsInterlocked(z)' =>
          /\ zones'[z].status = "restored"
          /\ \A x \in ZonesOfArea(AreaOf[z]) : ~IsInterlocked(x)'
          /\ ~HasOpenLog(AreaOf[z])'
<1>1. ASSUME IInv, IInv', [Next]_vars PROVE Left
  <2> USE <1>1
  <2> SUFFICES ASSUME NEW z \in DOMAIN zones,
                      IsInterlocked(z), ~IsInterlocked(z)'
               PROVE  /\ zones'[z].status = "restored"
                      /\ \A x \in ZonesOfArea(AreaOf[z]) : ~IsInterlocked(x)'
                      /\ ~HasOpenLog(AreaOf[z])'
    OBVIOUS
  <2>1. ~StatusKept
    BY DEF StatusKept
  <2>2. ASSUME NEW y, NEW r \in Nat, AreaInterlocked(y, r) PROVE FALSE
    BY <2>2 DEF AreaInterlocked, IsInterlocked
  <2>3. PICK y \in Zones, operator \in Operators : Restore(y, operator)
    BY <2>1, <2>2, StepKinds
  <2> DEFINE From == {s \in ZoneStatuses : CanTransition(s, RestoreStatus)}
  <2>4. /\ "interlocked" \in From
        /\ RestoreStatus \in ZoneStatuses /\ RestoreStatus = "restored"
    BY DEF CanTransition, NextStatuses, RestoreStatus, ZoneStatuses
  <2>5. /\ DOMAIN zones' = DOMAIN zones
        /\ \A x \in DOMAIN zones :
             zones'[x].status =
               IF AreaOf[x] = AreaOf[y] /\ zones[x].status \in From
               THEN "restored" ELSE zones[x].status
    BY <2>3, <2>4, ZonesWithAreaFacts DEF Restore, ZonesWithArea, IInv
  <2>6. zones'[z].status = "restored" /\ AreaOf[z] = AreaOf[y]
    BY <2>4, <2>5 DEF IsInterlocked
  <2>7. \A x \in ZonesOfArea(AreaOf[z]) : ~IsInterlocked(x)'
    BY <2>4, <2>5, <2>6 DEF ZonesOfArea, IsInterlocked
  <2>8. AreaOf[z] \in Areas /\ ZonesOfArea(AreaOf[z])' = ZonesOfArea(AreaOf[z])
    BY <2>5, TopologyAssumption DEF ZonesOfArea, IInv, TypeOK
  <2>9. ~HasOpenLog(AreaOf[z])'
    BY <2>7, <2>8 DEF IInv, OpenLogIffInterlocked
  <2>10. QED
    BY <2>6, <2>7, <2>9
<1>2. ASSUME IInv, IInv', [Next]_vars PROVE [Left]_vars
  BY <1>1, <1>2
<1>3. QED
  BY <1>2, InvariantHolds, PTL DEF Spec, InterlockLeftByRestoreOnly

\* No step turns the ventilation of a monitor zone down.
THEOREM VentilationOnlyRises == Spec => VentilationNeverLowered
<1> DEFINE Raised ==
      \A m \in DOMAIN monitors :
        /\ monitors'[m].ffuLevel >= monitors[m].ffuLevel
        /\ monitors'[m].freshAirRatio >= monitors[m].freshAirRatio
<1>1. ASSUME TypeOK, [Next]_vars PROVE Raised
  <2> USE <1>1
  <2>1. \A m \in DOMAIN monitors :
          monitors[m].ffuLevel \in Int /\ monitors[m].freshAirRatio \in Int
    <3>1. \A m \in DOMAIN monitors : monitors[m] \in MonitorRecord
      BY DEF TypeOK
    <3>2. \A r \in MonitorRecord : r.ffuLevel \in Int /\ r.freshAirRatio \in Int
      BY DEF MonitorRecord
    <3>3. QED
      BY <3>1, <3>2
  <2>2. CASE monitors' = monitors
    BY <2>1, <2>2
  <2>3. ASSUME NEW z, NEW r \in Nat, CommandAndLog(z, r) PROVE Raised
    BY <2>3, CommandAndLogFacts
  <2>4. ASSUME NEW m \in Monitors, NEW due \in Times, CreateMonitorZone(m, due)
        PROVE  Raised
    BY <2>1, <2>4 DEF CreateMonitorZone
  <2>5. ASSUME NEW m \in Monitors, NEW b \in BOOLEAN, SetMaintenance(m, b)
        PROVE  Raised
    BY <2>1, <2>5 DEF SetMaintenance, MonitorRecord
  <2>6. ASSUME NEW m \in Monitors, NEW due \in Times, SetCalibration(m, due)
        PROVE  Raised
    BY <2>1, <2>6 DEF SetCalibration, MonitorRecord
  <2>7. ASSUME NEW m \in Monitors, NEW r \in Ratios, NEW at \in Times,
               IngestOverLimit(m, r, at)
        PROVE  Raised
    BY <2>3, <2>7, ConfigAssumption DEF IngestOverLimit
  <2>8. ASSUME NEW z \in Zones, NEW r \in Ratios, IssueManually(z, r)
        PROVE  Raised
    <3>1. (IF r < One THEN 150 ELSE r) \in Nat
      BY ConfigAssumption
    <3>2. QED
      BY <2>3, <2>8, <3>1 DEF IssueManually, IssueForArea
  <2>9. ASSUME NEW c \in sweep, SweepIssue(c) PROVE Raised
    <3>1. c.ratio \in Nat
      BY DEF TypeOK, SweepCandidate
    <3>2. QED
      BY <2>3, <2>9, <3>1 DEF SweepIssue, IssueForArea
  <2>10. CASE \/ \E z \in Zones : CreateCleanZone(z)
              \/ \E m \in Monitors, r \in Ratios, at \in Times :
                   IngestWithoutInterlock(m, r, at)
              \/ \E z \in Zones, operator \in Operators : Restore(z, operator)
              \/ SweepList
              \/ Tick
              \/ UNCHANGED vars
    BY <2>2, <2>10
    DEF CreateCleanZone, IngestWithoutInterlock, Restore, SweepList, Tick, vars
  <2>11. QED
    BY <2>4, <2>5, <2>6, <2>7, <2>8, <2>9, <2>10 DEF Next
<1>2. ASSUME TypeOK, [Next]_vars PROVE [Raised]_vars
  BY <1>1, <1>2
<1>3. QED
  BY <1>2, TypeCorrect, PTL DEF Spec, VentilationNeverLowered
=============================================================================
