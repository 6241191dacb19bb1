---------------------------- MODULE TopologyFacts ----------------------------
(***************************************************************************)
(* What the rules of package domain return for stored records, for every   *)
(* topology and configuration: the lemmas that the proofs about            *)
(* AreaInterlock and InterlockRaces share.                                 *)
(***************************************************************************)
EXTENDS CleanroomTopology, SequenceTheorems, TLAPS

\* A sample that issues no interlock keeps interlocked zones interlocked,
\* makes no other zone interlocked, and never asks for over_limit.
LEMMA IngestedStatusFacts ==
  ASSUME NEW s \in ZoneStatuses, s # "over_limit", NEW r \in Nat,
         r < OverLimitRatio \/ s = "interlocked"
  PROVE  /\ IngestedStatus(s, r) \in ZoneStatuses
         /\ IngestedStatus(s, r) # "over_limit"
         /\ IngestedStatus(s, r) = "interlocked" <=> s = "interlocked"
  BY ConfigAssumption
  DEF IngestedStatus, TargetStatusFromRatio, StatusForRatio, CanTransition,
      NextStatuses, ZoneStatuses, One

\* The ingest rule answers with a status of the state machine.
LEMMA IngestedStatusTyped ==
  ASSUME NEW s \in ZoneStatuses, NEW r \in Nat
  PROVE  IngestedStatus(s, r) \in ZoneStatuses
  BY DEF IngestedStatus, TargetStatusFromRatio, StatusForRatio, ZoneStatuses

\* SetStatus writes the status it is asked for and keeps the record's shape.
LEMMA SetStatusFacts ==
  ASSUME NEW z \in CleanZoneRecord, NEW s \in ZoneStatuses
  PROVE  SetStatus(z, s) \in CleanZoneRecord /\ SetStatus(z, s).status = s
<1>1. CASE z.status = s
  BY <1>1 DEF SetStatus
<1>2. CASE z.status # s
  <2>1. 0 \in 0 .. AutoInterlockAfter
    BY ConfigAssumption
  <2>2. SetStatus(z, s) = [z EXCEPT !.status = s, !.timeInStatus = 0]
    BY <1>2 DEF SetStatus
  <2>3. QED
    BY <2>1, <2>2 DEF CleanZoneRecord
<1>3. QED
  BY <1>1, <1>2

\* Interlock commands raise fan and fresh-air settings, and stop at 100.
LEMMA RaiseVentilationFacts ==
  ASSUME NEW m \in MonitorRecord, NEW level \in 1 .. 3
  PROVE  /\ RaiseVentilation(m, level) \in MonitorRecord
         /\ RaiseVentilation(m, level).ffuLevel >= m.ffuLevel
         /\ RaiseVentilation(m, level).freshAirRatio >= m.freshAirRatio
<1> DEFINE ffu == MinInt(100, m.ffuLevel + 10 * level)
           air == MinInt(100, m.freshAirRatio + 5 * level)
<1>1. m.ffuLevel \in 0 .. 100 /\ m.freshAirRatio \in 0 .. 100
  BY DEF MonitorRecord
<1>2. /\ ffu \in 0 .. 100 /\ ffu >= m.ffuLevel
      /\ air \in 0 .. 100 /\ air >= m.freshAirRatio
  BY <1>1 DEF MinInt
<1>3. RaiseVentilation(m, level) = [m EXCEPT !.ffuLevel = ffu, !.freshAirRatio = air]
  BY DEF RaiseVentilation, ActionsForLevel
<1> HIDE DEF ffu, air
<1>4. QED
  BY <1>2, <1>3 DEF MonitorRecord

\* Newly created zones have the shape of stored ones.
LEMMA NewRecordsTyped ==
  /\ NewCleanZone \in CleanZoneRecord
  /\ \A due \in Times : NewMonitorZone(due) \in MonitorRecord
  BY ConfigAssumption
  DEF NewCleanZone, CleanZone, CleanZoneRecord, ZoneStatuses, NewMonitorZone, MonitorRecord

\* The interlock level of a ratio is 1, 2 or 3.
LEMMA LevelTyped ==
  ASSUME NEW r \in Nat PROVE InterlockLevelForRatio(r) \in 1 .. 3
  BY DEF InterlockLevelForRatio, One

\* Writing every element of a sequence gives a sequence of the same length.
LEMMA MappedSequence ==
  ASSUME NEW S, NEW s \in Seq(S), NEW t,
         t = [i \in DOMAIN s |-> t[i]], \A i \in DOMAIN s : t[i] \in S
  PROVE  t \in Seq(S) /\ Len(t) = Len(s) /\ DOMAIN t = DOMAIN s
<1>1. DOMAIN s = 1 .. Len(s) /\ Len(s) \in Nat
  BY ElementOfSeq
<1>2. t \in [1 .. Len(s) -> S]
  BY <1>1
<1>3. QED
  BY <1>1, <1>2, IsASeq

\* What a sample that issues no interlock leaves in its zone.
LEMMA IngestedZoneFacts ==
  ASSUME NEW z \in CleanZoneRecord, NEW r \in Nat,
         NEW y, y = [SetStatus(z, IngestedStatus(z.status, r))
                       EXCEPT !.lastParticleRatio = r]
  PROVE  y \in CleanZoneRecord /\ y.status = IngestedStatus(z.status, r)
<1>1. z.status \in ZoneStatuses
  BY DEF CleanZoneRecord
<1>2. /\ SetStatus(z, IngestedStatus(z.status, r)) \in CleanZoneRecord
      /\ SetStatus(z, IngestedStatus(z.status, r)).status = IngestedStatus(z.status, r)
  BY <1>1, IngestedStatusTyped, SetStatusFacts
<1>3. QED
  BY <1>2 DEF CleanZoneRecord

\* A clock tick leaves a zone's status alone.
LEMMA OlderZoneFacts ==
  ASSUME NEW z \in CleanZoneRecord,
         NEW y, y = [z EXCEPT !.timeInStatus = MinInt(AutoInterlockAfter, @ + 1)]
  PROVE  y \in CleanZoneRecord /\ y.status = z.status
<1>1. z.timeInStatus \in Nat
  BY ConfigAssumption DEF CleanZoneRecord
<1>2. MinInt(AutoInterlockAfter, z.timeInStatus + 1) \in 0 .. AutoInterlockAfter
  BY <1>1, ConfigAssumption DEF MinInt
<1>3. QED
  BY <1>2 DEF CleanZoneRecord

\* A new log is open, and a closed one differs from it by its restore only.
LEMMA NewLogFacts ==
  ASSUME NEW z \in Zones, NEW affected \in SUBSET Zones, NEW ratio \in Nat
  PROVE  /\ NewInterlockLog(z, affected, ratio) \in InterlockRecord
         /\ NewInterlockLog(z, affected, ratio).area = AreaOf[z]
         /\ NewInterlockLog(z, affected, ratio).affected = affected
         /\ NewInterlockLog(z, affected, ratio).open
  BY LevelTyped, TopologyAssumption DEF NewInterlockLog, InterlockRecord

LEMMA ClosedFacts ==
  ASSUME NEW log \in InterlockRecord, NEW operator \in Operators \cup {Nobody}
  PROVE  /\ Closed(log, operator) \in InterlockRecord
         /\ Closed(log, operator).area = log.area
         /\ Closed(log, operator).affected = log.affected
         /\ ~Closed(log, operator).open
         /\ Closed(log, operator).restoreBy = operator
  BY DEF Closed, InterlockRecord
=============================================================================
