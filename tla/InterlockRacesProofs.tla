------------------------ MODULE InterlockRacesProofs -------------------------
(***************************************************************************)
(* What overlapping interlock requests keep, for every topology and any    *)
(* number of workers: types, no stored over_limit, every interlock on      *)
(* record, and what restores write into the logs.  At the end, what        *)
(* requests keep that do not overlap: the state machine, and the order in  *)
(* which zones and logs are written.                                       *)
(***************************************************************************)
EXTENDS InterlockRaces, TopologyFacts

-----------------------------------------------------------------------------
(* Facts about what a worker holds. *)

Fields == {"op", "zone", "ratio", "cleanZone", "areaZones", "affected", "inArea",
           "equipment", "logs", "operator", "before", "queue"}

\* What a worker knows is a record of these fields.
LEMMA FreshFields == DOMAIN Fresh = Fields
  BY DEF Fresh, Fields

\* A worker that has read nothing knows nothing but its queue.
LEMMA FreshValues ==
  /\ Fresh.op = "none" /\ Fresh.zone = Nothing /\ Fresh.ratio = 0
  /\ Fresh.cleanZone = Nothing /\ Fresh.areaZones = Nothing /\ DOMAIN Nothing = {}
  /\ Fresh.affected = {} /\ Fresh.inArea = {} /\ Fresh.equipment = Nothing
  /\ Fresh.logs = {} /\ Fresh.operator = Nobody /\ Fresh.before = Nothing
  /\ Fresh.queue = {}
  /\ Nothing \in Seq(InterlockRecord)
  /\ Fresh = [x \in Fields |-> Fresh[x]]
<1>1. /\ Fresh.op = "none" /\ Fresh.zone = Nothing /\ Fresh.ratio = 0
      /\ Fresh.cleanZone = Nothing /\ Fresh.areaZones = Nothing
      /\ Fresh.affected = {} /\ Fresh.inArea = {} /\ Fresh.equipment = Nothing
      /\ Fresh.logs = {} /\ Fresh.operator = Nobody /\ Fresh.before = Nothing
      /\ Fresh.queue = {}
  BY DEF Fresh
<1>2. DOMAIN Nothing = {}
  BY DEF Nothing
<1>3. Nothing \in Seq(InterlockRecord)
  BY EmptySeq DEF Nothing
<1>4. Fresh = [x \in Fields |-> Fresh[x]]
  BY DEF Fresh, Fields
<1>5. QED
  BY <1>1, <1>2, <1>3, <1>4

\* What a worker holds, and where it is, is all right.
WorkerOK(w) == LocalOK(local[w]) /\ Held(pc[w], local[w])

\* Nothing that is stored is ever removed.
StoreGrows ==
  /\ DOMAIN zones \subseteq DOMAIN zones'
  /\ DOMAIN monitors \subseteq DOMAIN monitors'
  /\ DOMAIN interlocks \subseteq DOMAIN interlocks'

\* What IInv says of the store alone.
StoreOK ==
  /\ DOMAIN zones \subseteq Zones
  /\ zones \in [DOMAIN zones -> CleanZoneRecord]
  /\ DOMAIN monitors \subseteq Monitors
  /\ monitors \in [DOMAIN monitors -> MonitorRecord]
  /\ interlocks \in Seq(InterlockRecord)
  /\ NeverOverLimit
  /\ \A m \in DOMAIN monitors : ZoneOf[m] \in DOMAIN zones

\* Only worker w moves.
OthersWait(w) ==
  /\ pc' \in [Workers -> Steps]
  /\ DOMAIN local' = Workers
  /\ \A v \in Workers \ {w} : pc'[v] = pc[v] /\ local'[v] = local[v]

\* The invariant, store and workers apart.
LEMMA InvariantParts ==
  /\ IInv => StoreOK /\ \A w \in Workers : WorkerOK(w)
  /\ IInv' <=> /\ StoreOK'
               /\ pc' \in [Workers -> Steps]
               /\ DOMAIN local' = Workers
               /\ \A w \in Workers : WorkerOK(w)'
  BY DEF IInv, TypeOK, StoreOK, WorkerOK

\* What another worker holds stays all right while the store grows.
LEMMA WorkerStep ==
  ASSUME IInv, NEW w \in Workers, StoreGrows, StoreOK', OthersWait(w), WorkerOK(w)'
  PROVE  IInv'
<1>1. ASSUME NEW v \in Workers, v # w PROVE WorkerOK(v)'
  <2>1. pc'[v] = pc[v] /\ local'[v] = local[v]
    BY <1>1 DEF OthersWait
  <2>2. LocalOK(local[v]) /\ Held(pc[v], local[v])
    BY InvariantParts DEF WorkerOK
  <2>3. LocalOK(local[v])'
    BY <2>1, <2>2 DEF LocalOK, StoreGrows
  <2>4. Held(pc[v], local[v])'
    BY <2>1, <2>2 DEF Held, StoreGrows
  <2>5. QED
    BY <2>3, <2>4 DEF WorkerOK
<1>2. QED
  BY <1>1, InvariantParts DEF OthersWait

\* Where Go takes a worker.
LEMMA GoFacts ==
  ASSUME TypeOK, NEW w \in Workers, NEW to \in Steps, NEW known, Go(w, to, known)
  PROVE  OthersWait(w) /\ pc'[w] = to /\ local'[w] = known
  BY DEF Go, OthersWait, TypeOK

\* A worker that has answered, or gives up, keeps its sweep at the most.
LEMMA RestStep ==
  ASSUME IInv, NEW w \in Workers, StoreGrows, Finish(w) \/ GiveUp(w)
  PROVE  OthersWait(w) /\ WorkerOK(w)' /\ local'[w].cleanZone = Nothing
<1>1. TypeOK /\ LocalOK(local[w]) /\ Held(pc[w], local[w])
  BY DEF IInv, TypeOK
<1>2. {"idle", "next_candidate"} \subseteq Steps
  BY DEF Steps
<1>3. CASE Go(w, "idle", Fresh)
  <2>1. OthersWait(w) /\ pc'[w] = "idle" /\ local'[w] = Fresh
    BY <1>1, <1>2, <1>3, GoFacts
  <2>2. LocalOK(local[w])'
    BY <2>1, FreshFields, FreshValues DEF LocalOK
  <2>3. Held(pc[w], local[w])'
    BY <2>1, FreshValues DEF Held
  <2>4. QED
    BY <2>1, <2>2, <2>3, FreshValues DEF WorkerOK
<1>4. CASE Go(w, "next_candidate", [Fresh EXCEPT !.op = "sweep", !.queue = local[w].queue])
  <2> DEFINE known == [Fresh EXCEPT !.op = "sweep", !.queue = local[w].queue]
  <2>1. OthersWait(w) /\ pc'[w] = "next_candidate" /\ local'[w] = known
    BY <1>1, <1>2, <1>4, GoFacts
  <2>2. /\ DOMAIN known = Fields /\ known.op = "sweep" /\ known.queue = local[w].queue
        /\ \A f \in Fields \ {"op", "queue"} : known[f] = Fresh[f]
    BY FreshFields DEF Fields
  <2>3. /\ known.zone = Nothing /\ known.ratio = 0 /\ known.cleanZone = Nothing
        /\ known.areaZones = Nothing /\ known.affected = {} /\ known.inArea = {}
        /\ known.equipment = Nothing /\ known.logs = {}
        /\ known.operator = Nobody /\ known.before = Nothing
    BY <2>2, FreshValues DEF Fields
  <2> HIDE DEF known
  <2>4. LocalOK(local[w])'
    BY <1>1, <2>1, <2>2, <2>3, FreshFields, FreshValues DEF LocalOK
  <2>5. Held(pc[w], local[w])'
    BY <1>1, <2>1, <2>2, <2>3, FreshValues DEF Held, StoreGrows
  <2>6. QED
    BY <2>1, <2>3, <2>4, <2>5 DEF WorkerOK
<1>5. QED
  BY <1>3, <1>4 DEF Finish, GiveUp

-----------------------------------------------------------------------------
(* What the store calls do to the store. *)

\* A call that only reads.
LEMMA StoreRead ==
  ASSUME StoreOK, UNCHANGED <<zones, monitors, interlocks>>
  PROVE  StoreOK' /\ StoreGrows
  BY DEF StoreOK, StoreGrows, NeverOverLimit, A!NeverOverLimit

\* The stored records are typed, and none is over_limit.
LEMMA StoredFacts ==
  ASSUME StoreOK
  PROVE  /\ \A z \in DOMAIN zones : zones[z] \in CleanZoneRecord
         /\ \A z \in DOMAIN zones : zones[z].status \in ZoneStatuses \ {"over_limit"}
         /\ \A z \in DOMAIN zones : zones[z].lastParticleRatio \in Nat
         /\ \A m \in DOMAIN monitors : monitors[m] \in MonitorRecord
         /\ \A m \in DOMAIN monitors : ZoneOf[m] \in DOMAIN zones
         /\ DOMAIN interlocks = 1 .. Len(interlocks) /\ Len(interlocks) \in Nat
         /\ \A i \in DOMAIN interlocks : interlocks[i] \in InterlockRecord
<1>1. \A z \in DOMAIN zones : zones[z] \in CleanZoneRecord
  BY DEF StoreOK
<1>2. QED
  BY <1>1, ElementOfSeq DEF StoreOK, NeverOverLimit, A!NeverOverLimit, CleanZoneRecord

\* CleanZones().Update of a record that is not over_limit.
LEMMA ZoneWritten ==
  ASSUME StoreOK, NEW z \in DOMAIN zones, NEW y \in CleanZoneRecord,
         y.status # "over_limit", zones' = [zones EXCEPT ![z] = y],
         UNCHANGED <<monitors, interlocks>>
  PROVE  StoreOK' /\ StoreGrows
  BY DEF StoreOK, StoreGrows, NeverOverLimit, A!NeverOverLimit

\* MonitorZones().Update.
LEMMA MonitorWritten ==
  ASSUME StoreOK, NEW m \in DOMAIN monitors, NEW y \in MonitorRecord,
         monitors' = [monitors EXCEPT ![m] = y], UNCHANGED <<zones, interlocks>>
  PROVE  StoreOK' /\ StoreGrows
  BY DEF StoreOK, StoreGrows, NeverOverLimit, A!NeverOverLimit

\* Interlocks().Create.
LEMMA LogAdded ==
  ASSUME StoreOK, NEW log \in InterlockRecord, interlocks' = Append(interlocks, log),
         UNCHANGED <<zones, monitors>>
  PROVE  /\ StoreOK' /\ StoreGrows
         /\ DOMAIN interlocks' = DOMAIN interlocks \cup {Len(interlocks) + 1}
         /\ interlocks'[Len(interlocks) + 1] = log
         /\ \A i \in DOMAIN interlocks : interlocks'[i] = interlocks[i]
<1>1. /\ interlocks' \in Seq(InterlockRecord)
      /\ Len(interlocks') = Len(interlocks) + 1
      /\ \A i \in 1 .. Len(interlocks) : interlocks'[i] = interlocks[i]
      /\ interlocks'[Len(interlocks) + 1] = log
  BY AppendProperties DEF StoreOK
<1>2. DOMAIN interlocks' = DOMAIN interlocks \cup {Len(interlocks) + 1}
  BY <1>1, StoredFacts, ElementOfSeq
<1>3. QED
  BY <1>1, <1>2, StoredFacts DEF StoreOK, StoreGrows, NeverOverLimit, A!NeverOverLimit

\* Interlocks().Update of a closed copy.
LEMMA LogClosed ==
  ASSUME StoreOK, NEW i \in DOMAIN interlocks, NEW operator \in Operators \cup {Nobody},
         interlocks' = [interlocks EXCEPT ![i] = Closed(@, operator)],
         UNCHANGED <<zones, monitors>>
  PROVE  /\ StoreOK' /\ StoreGrows
         /\ DOMAIN interlocks' = DOMAIN interlocks
         /\ interlocks'[i] = Closed(interlocks[i], operator) /\ ~interlocks'[i].open
         /\ \A j \in DOMAIN interlocks \ {i} : interlocks'[j] = interlocks[j]
         /\ \A j \in DOMAIN interlocks :
              /\ interlocks'[j].affected = interlocks[j].affected
              /\ interlocks'[j].area = interlocks[j].area
<1> DEFINE closed == Closed(interlocks[i], operator)
<1>1. /\ closed \in InterlockRecord /\ ~closed.open
      /\ closed.affected = interlocks[i].affected /\ closed.area = interlocks[i].area
  BY StoredFacts, ClosedFacts
<1>2. interlocks' = [interlocks EXCEPT ![i] = closed]
  OBVIOUS
<1> HIDE DEF closed
<1>3. interlocks' \in Seq(InterlockRecord) /\ DOMAIN interlocks' = DOMAIN interlocks
  BY <1>1, <1>2, ExceptSeq DEF StoreOK
<1>4. interlocks'[i] = closed /\ \A j \in DOMAIN interlocks \ {i} : interlocks'[j] = interlocks[j]
  BY <1>2
<1>5. QED
  BY <1>1, <1>3, <1>4 DEF closed, StoreOK, StoreGrows, NeverOverLimit, A!NeverOverLimit

-----------------------------------------------------------------------------
(* One step of one worker keeps the invariant. *)

\* What the lemma of every action says.
Stepped(w) == StoreGrows /\ StoreOK' /\ OthersWait(w) /\ WorkerOK(w)'

\* What the lemma of every action may use.
LEMMA KnownFacts ==
  ASSUME IInv, NEW w \in Workers
  PROVE  /\ TypeOK /\ StoreOK /\ pc[w] \in Steps
         /\ LocalOK(local[w]) /\ Held(pc[w], local[w])
         /\ DOMAIN local[w] = Fields
  BY FreshFields DEF IInv, TypeOK, StoreOK, LocalOK

\* Going on with something that is all right.
LEMMA GoStep ==
  ASSUME IInv, NEW w \in Workers, StoreGrows, StoreOK', NEW to \in Steps, NEW known,
         LocalOK(known), Held(to, known), Go(w, to, known)
  PROVE  Stepped(w)
<1>1. OthersWait(w) /\ pc'[w] = to /\ local'[w] = known
  BY GoFacts, KnownFacts
<1>2. LocalOK(local[w])'
  BY <1>1 DEF LocalOK, StoreGrows
<1>3. Held(pc[w], local[w])'
  BY <1>1 DEF Held, StoreGrows
<1>4. QED
  BY <1>1, <1>2, <1>3 DEF Stepped, WorkerOK

\* Answering, or giving up.
LEMMA RestStepped ==
  ASSUME IInv, NEW w \in Workers, StoreGrows, StoreOK', Finish(w) \/ GiveUp(w)
  PROVE  Stepped(w)
  BY RestStep DEF Stepped

\* SetMaintenance and SetCalibration hold the edited copy of a stored record.
LEMMA EditStep ==
  ASSUME IInv, NEW w \in Workers, NEW m \in DOMAIN monitors, NEW edited \in MonitorRecord,
         EditMonitor(w, m, edited)
  PROVE  Stepped(w)
<1> DEFINE known == [Fresh EXCEPT !.op = "edit", !.equipment = [x \in {m} |-> edited]]
<1>1. StoreGrows /\ StoreOK'
  BY StoreRead, KnownFacts DEF EditMonitor
<1>2. LocalOK(known)
  <2>1. /\ DOMAIN known = Fields /\ known.op = "edit" /\ known.equipment = [x \in {m} |-> edited]
        /\ \A f \in Fields \ {"op", "equipment"} : known[f] = Fresh[f]
    BY FreshFields DEF Fields
  <2> HIDE DEF known
  <2>2. /\ known.zone = Nothing /\ known.ratio = 0 /\ known.cleanZone = Nothing
        /\ known.areaZones = Nothing /\ known.affected = {} /\ known.inArea = {}
        /\ known.logs = {} /\ known.operator = Nobody /\ known.before = Nothing
        /\ known.queue = {}
    BY <2>1, FreshValues DEF Fields
  <2>3. QED
    BY <2>1, <2>2, FreshFields, FreshValues DEF LocalOK
<1>3. Held("update_monitors", known)
  BY FreshFields, FreshValues DEF Held, Fields, Steps
<1>4. "update_monitors" \in Steps
  BY DEF Steps
<1>5. Go(w, "update_monitors", known)
  BY DEF EditMonitor
<1> HIDE DEF known
<1>6. QED
  BY <1>1, <1>2, <1>3, <1>4, <1>5, GoStep

\* An ingest or an issue of a stored zone starts.
LEMMA StartStep ==
  ASSUME IInv, NEW w \in Workers, UNCHANGED <<zones, monitors, interlocks>>,
         NEW op \in {"ingest", "issue"}, NEW z \in DOMAIN zones,
         NEW ratio \in Nat, NEW to \in {"get_zone", "list_area"},
         Go(w, to, [Fresh EXCEPT !.op = op, !.zone = z, !.ratio = ratio])
  PROVE  Stepped(w)
<1> DEFINE known == [Fresh EXCEPT !.op = op, !.zone = z, !.ratio = ratio]
<1>1. StoreGrows /\ StoreOK'
  BY StoreRead, KnownFacts
<1>2. z \in Zones
  BY KnownFacts DEF StoreOK
<1>3. LocalOK(known)
  BY <1>2, FreshFields, FreshValues DEF LocalOK, Fields
<1>4. Held(to, known)
  BY FreshFields, FreshValues DEF Held, Fields, Steps
<1>5. to \in Steps
  BY DEF Steps
<1> HIDE DEF known
<1>6. Go(w, to, known)
  BY DEF known
<1>7. QED
  BY <1>1, <1>3, <1>4, <1>5, <1>6, GoStep

\* A restore of a stored zone starts, and takes note of the logs.
LEMMA RestoreStartStep ==
  ASSUME IInv, NEW w \in Workers, NEW z \in Zones, NEW operator \in Operators,
         RestoreGetZone(w, z, operator)
  PROVE  Stepped(w)
<1> DEFINE known == [Fresh EXCEPT !.op = "restore", !.zone = z, !.operator = operator,
                                  !.before = interlocks]
<1>1. StoreGrows /\ StoreOK' /\ z \in DOMAIN zones
  BY StoreRead, KnownFacts DEF RestoreGetZone
<1>2. /\ DOMAIN known = Fields /\ known.op = "restore" /\ known.zone = z
      /\ known.operator = operator /\ known.before = interlocks
      /\ \A f \in Fields \ {"op", "zone", "operator", "before"} : known[f] = Fresh[f]
  BY FreshFields DEF Fields
<1>3. Go(w, "list_restore", known)
  BY DEF RestoreGetZone
<1> HIDE DEF known
<1>4. /\ known.ratio = 0 /\ known.cleanZone = Nothing
      /\ known.areaZones = Nothing /\ known.affected = {} /\ known.inArea = {}
      /\ known.equipment = Nothing /\ known.logs = {} /\ known.queue = {}
  BY <1>2, FreshValues DEF Fields
<1>5. interlocks \in Seq(InterlockRecord)
  BY KnownFacts DEF StoreOK
<1>6. LocalOK(known)
  BY <1>2, <1>4, <1>5, FreshFields, FreshValues DEF LocalOK
<1>7. Held("list_restore", known)
  BY <1>1, <1>2, <1>4, FreshValues DEF Held
<1>8. QED
  BY <1>1, <1>3, <1>6, <1>7, GoStep DEF Steps

\* Process up to its state update.
LEMMA IngestSteps ==
  ASSUME IInv, NEW w \in Workers
  PROVE  /\ IngestGetZone(w) => Stepped(w)
         /\ IngestUpdateState(w) => Stepped(w)
<1> DEFINE known == local[w]
<1>1. ASSUME IngestGetZone(w) PROVE Stepped(w)
  <2> DEFINE read   == zones[known.zone]
             target == IngestedStatus(read.status, known.ratio)
             next   == [known EXCEPT !.cleanZone = SetStatus(read, target)]
  <2>1. StoreGrows /\ StoreOK'
    BY <1>1, StoreRead, KnownFacts DEF IngestGetZone
  <2>2. /\ known.zone \in DOMAIN zones /\ known.ratio \in Nat
        /\ read \in CleanZoneRecord /\ read.status \in ZoneStatuses \ {"over_limit"}
    BY <1>1, KnownFacts, StoredFacts DEF IngestGetZone, Held, LocalOK, Steps
  <2>3. Held("list_area", known) /\ Held("reload_zone", known)
    BY <1>1, <2>2, KnownFacts DEF IngestGetZone, Held, Steps
  <2>4. CASE Go(w, "list_area", known) \/ Go(w, "reload_zone", known)
    BY <2>1, <2>3, <2>4, KnownFacts, GoStep DEF Steps
  <2>5. CASE /\ ~(known.ratio >= OverLimitRatio /\ read.status # "interlocked")
             /\ Go(w, "update_state", next)
    <3>1. target \in ZoneStatuses /\ target # "over_limit"
      BY <2>2, <2>5, IngestedStatusFacts, ConfigAssumption
    <3>2. SetStatus(read, target) \in CleanZoneRecord /\ SetStatus(read, target).status = target
      BY <2>2, <3>1, SetStatusFacts
    <3> HIDE DEF target, read
    <3>3. SetStatus(read, target) # Nothing
      <4>1. DOMAIN SetStatus(read, target) # {}
        BY <3>2 DEF CleanZoneRecord
      <4>2. QED
        BY <4>1, FreshValues
    <3>4. LocalOK(next)
      BY <3>2, KnownFacts, FreshFields DEF LocalOK, Fields
    <3>5. Held("update_state", next)
      BY <1>1, <2>2, <3>1, <3>2, <3>3, KnownFacts DEF IngestGetZone, Held, Fields, Steps
    <3> HIDE DEF next
    <3>6. QED
      BY <2>1, <2>5, <3>4, <3>5, GoStep DEF Steps
  <2>6. QED
    BY <1>1, <2>4, <2>5 DEF IngestGetZone
<1>2. ASSUME IngestUpdateState(w) PROVE Stepped(w)
  <2> DEFINE next == [known EXCEPT !.cleanZone = Nothing]
  <2>1. /\ known.zone \in DOMAIN zones
        /\ known.cleanZone \in CleanZoneRecord /\ known.cleanZone.status # "over_limit"
    BY <1>2, KnownFacts DEF IngestUpdateState, Held, LocalOK, Steps
  <2>2. StoreGrows /\ StoreOK'
    BY <1>2, <2>1, ZoneWritten, KnownFacts DEF IngestUpdateState
  <2>3. LocalOK(next)
    BY KnownFacts, FreshFields DEF LocalOK, Fields
  <2>4. Held("reload_zone", next)
    BY <1>2, <2>1, KnownFacts DEF IngestUpdateState, Held, Fields
  <2>5. Go(w, "reload_zone", next) \/ GiveUp(w)
    BY <1>2 DEF IngestUpdateState, GoAfterWrite
  <2> HIDE DEF next
  <2>6. QED
    BY <2>2, <2>3, <2>4, <2>5, GoStep, RestStepped DEF Steps
<1>3. QED
  BY <1>1, <1>2

\* Process from its second read on.
LEMMA IngestRatioSteps ==
  ASSUME IInv, NEW w \in Workers
  PROVE  /\ IngestReloadZone(w) => Stepped(w)
         /\ IngestUpdateRatio(w) => Stepped(w)
<1> DEFINE known == local[w]
<1>1. ASSUME IngestReloadZone(w) PROVE Stepped(w)
  <2> DEFINE read == zones[known.zone]
             y    == [read EXCEPT !.lastParticleRatio = known.ratio]
             next == [known EXCEPT !.cleanZone = y]
  <2>1. StoreGrows /\ StoreOK'
    BY <1>1, StoreRead, KnownFacts DEF IngestReloadZone
  <2>2. /\ known.zone \in DOMAIN zones /\ known.ratio \in Nat
        /\ read \in CleanZoneRecord /\ read.status # "over_limit"
    BY <1>1, KnownFacts, StoredFacts DEF IngestReloadZone, Held, LocalOK, Steps
  <2>3. y \in CleanZoneRecord /\ y.status = read.status /\ DOMAIN y # {}
    BY <2>2 DEF CleanZoneRecord
  <2> HIDE DEF y
  <2>4. y # Nothing
    BY <2>3, FreshValues
  <2>5. LocalOK(next)
    BY <2>3, KnownFacts, FreshFields DEF LocalOK, Fields
  <2>6. Held("update_ratio", next)
    BY <1>1, <2>2, <2>3, <2>4, KnownFacts DEF IngestReloadZone, Held, Fields
  <2>7. Finish(w) \/ Go(w, "update_ratio", next)
    BY <1>1 DEF IngestReloadZone, y
  <2> HIDE DEF next
  <2>8. QED
    BY <2>1, <2>5, <2>6, <2>7, GoStep, RestStepped DEF Steps
<1>2. ASSUME IngestUpdateRatio(w) PROVE Stepped(w)
  <2>1. /\ known.zone \in DOMAIN zones
        /\ known.cleanZone \in CleanZoneRecord /\ known.cleanZone.status # "over_limit"
    BY <1>2, KnownFacts DEF IngestUpdateRatio, Held, LocalOK, Steps
  <2>2. StoreGrows /\ StoreOK'
    BY <1>2, <2>1, ZoneWritten, KnownFacts DEF IngestUpdateRatio
  <2>3. QED
    BY <1>2, <2>2, RestStepped DEF IngestUpdateRatio, FinishAfterWrite
<1>3. QED
  BY <1>1, <1>2

\* The copies of an area's zones that IssueForArea and Restore will write.
LEMMA PendingFacts ==
  ASSUME StoreOK, NEW pending \in SUBSET DOMAIN zones,
         NEW status \in {"interlocked", "restored"},
         NEW copies, copies = [z \in pending |-> SetStatus(zones[z], status)]
  PROVE  /\ DOMAIN copies = pending
         /\ \A z \in pending : copies[z] \in CleanZoneRecord /\ copies[z].status = status
  BY StoredFacts, SetStatusFacts DEF ZoneStatuses

\* IssueForArea lists the area.
LEMMA IssueListAreaStep ==
  ASSUME IInv, NEW w \in Workers, IssueListArea(w)
  PROVE  Stepped(w)
<1> DEFINE known   == local[w]
           area    == A!ZonesOfArea(AreaOf[known.zone])
           pending == {z \in area : zones[z].status # "interlocked"}
           copies  == [z \in pending |-> SetStatus(zones[z], "interlocked")]
           next    == [known EXCEPT !.affected = area, !.areaZones = copies]
           to      == IF pending = {} THEN "list_command_zones" ELSE "update_area"
<1>1. StoreGrows /\ StoreOK'
  BY StoreRead, KnownFacts DEF IssueListArea
<1>2. known.zone \in DOMAIN zones
  BY KnownFacts DEF IssueListArea, Held, Steps
<1>3. area \subseteq DOMAIN zones /\ pending \subseteq area
  BY DEF A!ZonesOfArea
<1>4. Go(w, to, next)
  BY DEF IssueListArea
<1>5. to \in {"list_command_zones", "update_area"} /\ (to # "update_area" => pending = {})
  OBVIOUS
<1> HIDE DEF area, pending, to
<1>6. /\ DOMAIN copies = pending
      /\ \A z \in pending : copies[z] \in CleanZoneRecord /\ copies[z].status = "interlocked"
  BY <1>3, PendingFacts, KnownFacts
<1> HIDE DEF copies
<1>7. LocalOK(next)
  BY <1>3, <1>6, KnownFacts, FreshFields DEF LocalOK, Fields
<1>8. Held(to, next)
  BY <1>2, <1>3, <1>5, <1>6, KnownFacts DEF Held, Fields, Steps, IssueListArea
<1> HIDE DEF next
<1>9. QED
  BY <1>1, <1>4, <1>5, <1>7, <1>8, GoStep DEF Steps

\* A zone of the area is written, by IssueForArea or by Restore.
LEMMA AreaWriteStep ==
  ASSUME IInv, NEW w \in Workers, NEW z \in DOMAIN local[w].areaZones,
         IssueUpdateZone(w, z) \/ RestoreUpdateZone(w, z)
  PROVE  Stepped(w)
<1> DEFINE known == local[w]
           left  == Drop(known.areaZones, z)
           next  == [known EXCEPT !.areaZones = left]
<1>1. /\ known.areaZones[z] \in CleanZoneRecord
      /\ known.areaZones[z].status # "over_limit"
      /\ z \in DOMAIN zones
  BY KnownFacts DEF LocalOK, Held
<1>2. StoreGrows /\ StoreOK'
  BY <1>1, ZoneWritten, KnownFacts DEF IssueUpdateZone, RestoreUpdateZone
<1>3. /\ DOMAIN left \subseteq DOMAIN known.areaZones
      /\ \A x \in DOMAIN left : left[x] = known.areaZones[x]
  BY DEF Drop, Restrict
<1>4. pc[w] \in {"update_area", "update_restored"}
  BY DEF IssueUpdateZone, RestoreUpdateZone
<1>5. PICK to \in {pc[w], "list_command_zones", "list_logs"} :
        /\ to # pc[w] => DOMAIN left = {}
        /\ Go(w, to, next) \/ GiveUp(w)
  BY DEF IssueUpdateZone, RestoreUpdateZone, GoAfterWrite
<1> HIDE DEF left
<1>6. LocalOK(next)
  BY <1>3, KnownFacts, FreshFields DEF LocalOK, Fields
<1>7. Held(to, next)
  BY <1>3, <1>4, <1>5, KnownFacts DEF Held, Fields, Steps
<1> HIDE DEF next
<1>8. QED
  BY <1>2, <1>4, <1>5, <1>6, <1>7, GoStep, RestStepped DEF Steps

\* applyInterlockCommands reads.
LEMMA CommandReadSteps ==
  ASSUME IInv, NEW w \in Workers
  PROVE  /\ IssueListCommandZones(w) => Stepped(w)
         /\ IssueListMonitors(w) => Stepped(w)
<1> DEFINE known == local[w]
<1>1. ASSUME IssueListCommandZones(w) PROVE Stepped(w)
  <2> DEFINE next == [known EXCEPT !.inArea = A!ZonesOfArea(AreaOf[known.zone])]
  <2>1. StoreGrows /\ StoreOK'
    BY <1>1, StoreRead, KnownFacts DEF IssueListCommandZones
  <2>2. LocalOK(next)
    BY KnownFacts, FreshFields DEF LocalOK, Fields, A!ZonesOfArea
  <2>3. Held("list_monitors", next)
    BY <1>1, KnownFacts DEF IssueListCommandZones, Held, Fields, Steps
  <2>4. Go(w, "list_monitors", next)
    BY <1>1 DEF IssueListCommandZones
  <2> HIDE DEF next
  <2>5. QED
    BY <2>1, <2>2, <2>3, <2>4, GoStep DEF Steps
<1>2. ASSUME IssueListMonitors(w) PROVE Stepped(w)
  <2> DEFINE level  == InterlockLevelForRatio(known.ratio)
             mine   == {m \in DOMAIN monitors : ZoneOf[m] \in known.inArea}
             copies == [m \in mine |-> RaiseVentilation(monitors[m], level)]
             next   == [known EXCEPT !.inArea = {}, !.equipment = copies]
             to     == IF mine = {} THEN "create_log" ELSE "update_monitors"
  <2>1. StoreGrows /\ StoreOK'
    BY <1>2, StoreRead, KnownFacts DEF IssueListMonitors
  <2>2. level \in 1 .. 3
    BY LevelTyped, KnownFacts DEF LocalOK
  <2>3. mine \subseteq DOMAIN monitors
    OBVIOUS
  <2>4. Go(w, to, next) /\ to \in {"create_log", "update_monitors"}
    BY <1>2 DEF IssueListMonitors
  <2> HIDE DEF level, mine, to
  <2>5. DOMAIN copies = mine /\ \A m \in mine : copies[m] \in MonitorRecord
    BY <2>2, <2>3, RaiseVentilationFacts, StoredFacts, KnownFacts
  <2> HIDE DEF copies
  <2>6. LocalOK(next)
    BY <2>3, <2>5, KnownFacts, FreshFields DEF LocalOK, Fields
  <2>7. Held(to, next)
    BY <1>2, <2>4, KnownFacts DEF IssueListMonitors, Held, Fields, Steps
  <2> HIDE DEF next
  <2>8. QED
    BY <2>1, <2>4, <2>6, <2>7, GoStep DEF Steps
<1>3. QED
  BY <1>1, <1>2

\* A monitor zone is written, by an interlock command or by an edit.
LEMMA UpdateMonitorStep ==
  ASSUME IInv, NEW w \in Workers, NEW m \in DOMAIN local[w].equipment, UpdateMonitor(w, m)
  PROVE  Stepped(w)
<1> DEFINE known == local[w]
           left  == Drop(known.equipment, m)
           next  == [known EXCEPT !.equipment = left]
<1>1. known.equipment[m] \in MonitorRecord /\ m \in DOMAIN monitors
  BY KnownFacts DEF LocalOK
<1>2. StoreGrows /\ StoreOK'
  BY <1>1, MonitorWritten, KnownFacts DEF UpdateMonitor
<1>3. /\ DOMAIN left \subseteq DOMAIN known.equipment
      /\ \A x \in DOMAIN left : left[x] = known.equipment[x]
  BY DEF Drop, Restrict
<1>4. CASE known.op = "edit"
  BY <1>2, <1>4, RestStepped DEF UpdateMonitor, FinishAfterWrite
<1>5. CASE known.op # "edit"
  <2>1. PICK to \in {"create_log", "update_monitors"} : Go(w, to, next) \/ GiveUp(w)
    BY <1>5 DEF UpdateMonitor, GoAfterWrite
  <2> HIDE DEF left
  <2>2. LocalOK(next)
    BY <1>3, KnownFacts, FreshFields DEF LocalOK, Fields
  <2>3. Held(to, next)
    BY <1>5, <2>1, KnownFacts DEF UpdateMonitor, Held, Fields, Steps
  <2> HIDE DEF next
  <2>4. QED
    BY <1>2, <2>1, <2>2, <2>3, GoStep, RestStepped DEF Steps
<1>6. QED
  BY <1>4, <1>5

\* The log an issue creates.
Log(w) == NewInterlockLog(local[w].zone, local[w].affected, local[w].ratio)

\* The log of an issue is created.
LEMMA CreateLogStep ==
  ASSUME IInv, NEW w \in Workers, IssueCreateLog(w)
  PROVE  /\ Stepped(w)
         /\ \E i \in DOMAIN interlocks' : interlocks'[i].affected = local[w].affected
         /\ \A i \in DOMAIN interlocks : interlocks'[i] = interlocks[i]
<1> DEFINE known == local[w]
           next  == [known EXCEPT !.affected = {}]
<1>1. known.zone \in DOMAIN zones
  BY KnownFacts DEF IssueCreateLog, Held, Steps
<1>2. known.zone \in Zones /\ known.affected \subseteq Zones
  BY <1>1, KnownFacts DEF StoreOK, LocalOK
<1>3. known.ratio \in Nat
  BY KnownFacts DEF LocalOK
<1>4. Log(w) \in InterlockRecord /\ Log(w).affected = known.affected
  BY <1>2, <1>3, NewLogFacts DEF Log
<1>5. interlocks' = Append(interlocks, Log(w)) /\ UNCHANGED <<zones, monitors>>
  BY DEF IssueCreateLog, Log
<1>6. /\ StoreOK' /\ StoreGrows
      /\ DOMAIN interlocks' = DOMAIN interlocks \cup {Len(interlocks) + 1}
      /\ interlocks'[Len(interlocks) + 1] = Log(w)
      /\ \A i \in DOMAIN interlocks : interlocks'[i] = interlocks[i]
  BY <1>4, <1>5, LogAdded, KnownFacts
<1>8. LocalOK(next)
  BY KnownFacts, FreshFields DEF LocalOK, Fields
<1>9. Held("reload_zone", next)
  BY <1>1, KnownFacts DEF IssueCreateLog, Held, Fields
<1>10. Go(w, "reload_zone", next) \/ Finish(w) \/ GiveUp(w)
  BY DEF IssueCreateLog, GoAfterWrite, FinishAfterWrite
<1> HIDE DEF next
<1>11. Stepped(w)
  BY <1>6, <1>8, <1>9, <1>10, GoStep, RestStepped DEF Steps
<1>12. QED
  BY <1>4, <1>6, <1>11

\* Restore lists the area, then its open logs.
LEMMA RestoreReadSteps ==
  ASSUME IInv, NEW w \in Workers
  PROVE  /\ RestoreListArea(w) => Stepped(w)
         /\ RestoreListLogs(w) => Stepped(w)
<1> DEFINE known == local[w]
<1>1. ASSUME RestoreListArea(w) PROVE Stepped(w)
  <2> DEFINE pending == {z \in A!ZonesOfArea(AreaOf[known.zone]) :
                           /\ zones[z].status # RestoreStatus
                           /\ CanTransition(zones[z].status, RestoreStatus)}
             copies  == [z \in pending |-> SetStatus(zones[z], RestoreStatus)]
             next    == [known EXCEPT !.areaZones = copies]
             to      == IF pending = {} THEN "list_logs" ELSE "update_restored"
  <2>1. StoreGrows /\ StoreOK'
    BY <1>1, StoreRead, KnownFacts DEF RestoreListArea
  <2>2. pending \in SUBSET DOMAIN zones
    BY DEF A!ZonesOfArea
  <2>3. Go(w, to, next) /\ to \in {"list_logs", "update_restored"}
    BY <1>1 DEF RestoreListArea
  <2> HIDE DEF pending, to
  <2>r. copies = [z \in pending |-> SetStatus(zones[z], "restored")]
    BY DEF RestoreStatus
  <2> HIDE DEF copies
  <2>4. /\ DOMAIN copies = pending
        /\ \A z \in pending : copies[z] \in CleanZoneRecord /\ copies[z].status = "restored"
    BY <2>2, <2>r, PendingFacts, KnownFacts
  <2>5. LocalOK(next)
    BY <2>2, <2>4, KnownFacts, FreshFields DEF LocalOK, Fields
  <2>6. Held(to, next)
    BY <1>1, <2>3, <2>4, KnownFacts DEF RestoreListArea, Held, Fields, Steps
  <2> HIDE DEF next
  <2>7. QED
    BY <2>1, <2>3, <2>5, <2>6, GoStep DEF Steps
<1>2. ASSUME RestoreListLogs(w) PROVE Stepped(w)
  <2> DEFINE mine == {i \in DOMAIN interlocks :
                        interlocks[i].open /\ interlocks[i].area = AreaOf[known.zone]}
             next == [known EXCEPT !.logs = mine]
  <2>1. StoreGrows /\ StoreOK'
    BY <1>2, StoreRead, KnownFacts DEF RestoreListLogs
  <2>2. Finish(w) \/ Go(w, "close_logs", next)
    BY <1>2 DEF RestoreListLogs
  <2>3. LocalOK(next)
    BY KnownFacts, FreshFields DEF LocalOK, Fields
  <2>4. Held("close_logs", next)
    BY <1>2, KnownFacts DEF RestoreListLogs, Held, Fields, Steps
  <2> HIDE DEF next
  <2>5. QED
    BY <2>1, <2>2, <2>3, <2>4, GoStep, RestStepped DEF Steps
<1>3. QED
  BY <1>1, <1>2

\* Restore closes a log.
LEMMA RestoreCloseLogStep ==
  ASSUME IInv, NEW w \in Workers, NEW i \in local[w].logs, RestoreCloseLog(w, i)
  PROVE  /\ Stepped(w)
         /\ \A j \in DOMAIN interlocks : interlocks'[j].affected = interlocks[j].affected
<1> DEFINE known == local[w]
           left  == known.logs \ {i}
           next  == [known EXCEPT !.logs = left]
<1>1. i \in DOMAIN interlocks /\ known.operator \in Operators \cup {Nobody}
  BY KnownFacts DEF LocalOK
<1>2. /\ StoreGrows /\ StoreOK'
      /\ \A j \in DOMAIN interlocks : interlocks'[j].affected = interlocks[j].affected
  BY <1>1, LogClosed, KnownFacts DEF RestoreCloseLog
<1>3. Finish(w) \/ GiveUp(w) \/ Go(w, "close_logs", next)
  BY DEF RestoreCloseLog, GoAfterWrite, FinishAfterWrite
<1>4. LocalOK(next)
  BY KnownFacts, FreshFields DEF LocalOK, Fields
<1>5. Held("close_logs", next)
  BY KnownFacts DEF RestoreCloseLog, Held, Fields, Steps
<1> HIDE DEF next
<1>6. Stepped(w)
  BY <1>2, <1>3, <1>4, <1>5, GoStep, RestStepped DEF Steps
<1>7. QED
  BY <1>2, <1>6

\* The sweeper lists its candidates and takes the next one.
LEMMA SweepSteps ==
  ASSUME IInv, NEW w \in Workers
  PROVE  /\ SweepList(w) => Stepped(w)
         /\ \A c \in local[w].queue : SweepNext(w, c) => Stepped(w)
         /\ SweepEnd(w) => Stepped(w)
<1> DEFINE known == local[w]
<1>1. ASSUME SweepList(w) PROVE Stepped(w)
  <2> DEFINE queue == A!AutoInterlockCandidates
             next  == [Fresh EXCEPT !.op = "sweep", !.queue = queue]
  <2>1. StoreGrows /\ StoreOK'
    BY <1>1, StoreRead, KnownFacts DEF SweepList
  <2>z. /\ DOMAIN zones \subseteq Zones
        /\ \A z \in DOMAIN zones : zones[z].lastParticleRatio \in Nat
    BY StoredFacts, KnownFacts DEF StoreOK
  <2>2. queue \subseteq SweepCandidate /\ \A c \in queue : c.zone \in DOMAIN zones
    BY <2>z DEF A!AutoInterlockCandidates, A!One, SweepCandidate
  <2>3. Go(w, "next_candidate", next)
    BY <1>1 DEF SweepList
  <2> HIDE DEF queue
  <2>4. LocalOK(next)
    <3>1. /\ DOMAIN next = Fields /\ next.op = "sweep" /\ next.queue = queue
          /\ \A f \in Fields \ {"op", "queue"} : next[f] = Fresh[f]
      BY FreshFields DEF Fields
    <3> HIDE DEF next
    <3>2. /\ next.zone = Nothing /\ next.ratio = 0 /\ next.cleanZone = Nothing
          /\ next.areaZones = Nothing /\ next.affected = {} /\ next.inArea = {}
          /\ next.equipment = Nothing /\ next.logs = {} /\ next.operator = Nobody
          /\ next.before = Nothing
      BY <3>1, FreshValues DEF Fields
    <3>3. QED
      BY <2>2, <3>1, <3>2, FreshFields, FreshValues DEF LocalOK
  <2>5. Held("next_candidate", next)
    BY <2>2, FreshFields, FreshValues DEF Held, Fields
  <2> HIDE DEF next
  <2>6. QED
    BY <2>1, <2>3, <2>4, <2>5, GoStep DEF Steps
<1>2. ASSUME NEW c \in known.queue, SweepNext(w, c) PROVE Stepped(w)
  <2> DEFINE left == known.queue \ {c}
             next == [known EXCEPT !.zone = c.zone, !.ratio = c.ratio, !.queue = left]
  <2>1. StoreGrows /\ StoreOK'
    BY <1>2, StoreRead, KnownFacts DEF SweepNext
  <2>2. c.zone \in DOMAIN zones /\ c.zone \in Zones /\ c.ratio \in Nat
    BY KnownFacts DEF Held, StoreOK, LocalOK, SweepCandidate
  <2>3. Go(w, "list_area", next)
    BY <1>2 DEF SweepNext
  <2>4. LocalOK(next)
    BY <2>2, KnownFacts, FreshFields DEF LocalOK, Fields
  <2>5. Held("list_area", next)
    BY <1>2, <2>2, KnownFacts DEF SweepNext, Held, Fields, Steps
  <2> HIDE DEF next
  <2>6. QED
    BY <2>1, <2>3, <2>4, <2>5, GoStep DEF Steps
<1>3. ASSUME SweepEnd(w) PROVE Stepped(w)
  BY <1>3, StoreRead, RestStepped, KnownFacts DEF SweepEnd
<1>4. QED
  BY <1>1, <1>2, <1>3

\* Requests that only start.
LEMMA StartSteps ==
  ASSUME IInv, NEW w \in Workers
  PROVE  /\ \A m \in Monitors, b \in BOOLEAN : SetMaintenance(w, m, b) => Stepped(w)
         /\ \A m \in Monitors, due \in Times : SetCalibration(w, m, due) => Stepped(w)
         /\ \A m \in Monitors, r \in Ratios, at \in Times :
              IngestGetMonitor(w, m, r, at) => Stepped(w)
         /\ \A z \in Zones, r \in Ratios : IssueStart(w, z, r) => Stepped(w)
         /\ \A z \in Zones, operator \in Operators :
              RestoreGetZone(w, z, operator) => Stepped(w)
<1>1. ASSUME NEW m \in Monitors, NEW b \in BOOLEAN, SetMaintenance(w, m, b)
      PROVE  Stepped(w)
  <2>m. monitors[m] \in MonitorRecord
    BY <1>1, StoredFacts, KnownFacts DEF SetMaintenance
  <2>1. [monitors[m] EXCEPT !.inMaintenance = b] \in MonitorRecord
    BY <2>m DEF MonitorRecord
  <2>2. QED
    BY <1>1, <2>1, EditStep DEF SetMaintenance
<1>2. ASSUME NEW m \in Monitors, NEW due \in Times, SetCalibration(w, m, due)
      PROVE  Stepped(w)
  <2>m. monitors[m] \in MonitorRecord
    BY <1>2, StoredFacts, KnownFacts DEF SetCalibration
  <2>1. [monitors[m] EXCEPT !.calibrationDue = due] \in MonitorRecord
    BY <2>m DEF MonitorRecord
  <2>2. QED
    BY <1>2, <2>1, EditStep DEF SetCalibration
<1>3. ASSUME NEW m \in Monitors, NEW r \in Ratios, NEW at \in Times,
             IngestGetMonitor(w, m, r, at)
      PROVE  Stepped(w)
  <2>1. ZoneOf[m] \in DOMAIN zones /\ r \in Nat
    BY <1>3, StoredFacts, KnownFacts, ConfigAssumption DEF IngestGetMonitor
  <2>2. QED
    BY <1>3, <2>1, StartStep DEF IngestGetMonitor
<1>4. ASSUME NEW z \in Zones, NEW r \in Ratios, IssueStart(w, z, r) PROVE Stepped(w)
  <2> DEFINE ratio == IF r < One THEN 150 ELSE r
  <2>1. ratio \in Nat
    BY ConfigAssumption
  <2>2. z \in DOMAIN zones /\ UNCHANGED <<zones, monitors, interlocks>>
        /\ Go(w, "list_area", [Fresh EXCEPT !.op = "issue", !.zone = z, !.ratio = ratio])
    BY <1>4 DEF IssueStart
  <2> HIDE DEF ratio
  <2>3. QED
    BY <2>1, <2>2, StartStep
<1>5. QED
  BY <1>1, <1>2, <1>3, <1>4, RestoreStartStep

\* Zones and monitor zones are created in one call.
LEMMA CreateSteps ==
  ASSUME IInv, NEW w \in Workers
  PROVE  /\ \A z \in Zones : CreateCleanZone(w, z) => IInv'
         /\ \A m \in Monitors, due \in Times : CreateMonitorZone(w, m, due) => IInv'
<1>1. ASSUME StoreGrows, StoreOK', UNCHANGED <<pc, local>> PROVE IInv'
  <2>1. OthersWait(w)
    BY <1>1, KnownFacts DEF OthersWait, TypeOK
  <2>2. LocalOK(local[w])' /\ Held(pc[w], local[w])'
    BY <1>1, KnownFacts DEF LocalOK, Held, StoreGrows
  <2>3. QED
    BY <1>1, <2>1, <2>2, WorkerStep DEF WorkerOK
<1>2. ASSUME NEW z \in Zones, CreateCleanZone(w, z) PROVE IInv'
  <2>1. /\ zones' = [x \in DOMAIN zones \cup {z} |->
                       IF x = z THEN NewCleanZone ELSE zones[x]]
        /\ UNCHANGED <<monitors, interlocks, pc, local>>
    BY <1>2
    DEF CreateCleanZone, A!CreateCleanZone, A!NewCleanZone, A!CleanZone, NewCleanZone, CleanZone
  <2>2. NewCleanZone \in CleanZoneRecord /\ NewCleanZone.status # "over_limit"
    BY NewRecordsTyped DEF NewCleanZone, CleanZone
  <2>3. StoreOK' /\ StoreGrows
    BY <2>1, <2>2, StoredFacts, KnownFacts
    DEF StoreOK, StoreGrows, NeverOverLimit, A!NeverOverLimit
  <2>4. QED
    BY <1>1, <2>1, <2>3
<1>3. ASSUME NEW m \in Monitors, NEW due \in Times, CreateMonitorZone(w, m, due)
      PROVE  IInv'
  <2>1. /\ ZoneOf[m] \in DOMAIN zones
        /\ monitors' = [x \in DOMAIN monitors \cup {m} |->
                          IF x = m THEN NewMonitorZone(due) ELSE monitors[x]]
        /\ UNCHANGED <<zones, interlocks, pc, local>>
    BY <1>3
    DEF CreateMonitorZone, A!CreateMonitorZone, A!NewMonitorZone, NewMonitorZone
  <2>2. NewMonitorZone(due) \in MonitorRecord
    BY NewRecordsTyped
  <2>3. StoreOK' /\ StoreGrows
    BY <2>1, <2>2, StoredFacts, KnownFacts
    DEF StoreOK, StoreGrows, NeverOverLimit, A!NeverOverLimit
  <2>4. QED
    BY <1>1, <2>1, <2>3
<1>4. QED
  BY <1>2, <1>3

\* A tick ages the zones and the copies that were read, and changes no status.
LEMMA TickStep ==
  ASSUME IInv, Tick
  PROVE  /\ IInv'
         /\ DOMAIN zones' = DOMAIN zones
         /\ \A z \in DOMAIN zones : zones'[z].status = zones[z].status
         /\ \A w \in Workers :
              /\ local'[w].cleanZone # Nothing <=> local[w].cleanZone # Nothing
              /\ local[w].cleanZone # Nothing =>
                   local'[w].cleanZone.status = local[w].cleanZone.status
              /\ local'[w].affected = local[w].affected
              /\ local'[w].zone = local[w].zone /\ local'[w].op = local[w].op
              /\ local'[w].logs = local[w].logs /\ local'[w].operator = local[w].operator
              /\ local'[w].before = local[w].before
<1>1. ASSUME NEW y \in CleanZoneRecord
      PROVE  /\ Older(y) \in CleanZoneRecord /\ Older(y).status = y.status
             /\ Older(y) # Nothing
  <2>1. Older(y) \in CleanZoneRecord /\ Older(y).status = y.status
    BY OlderZoneFacts DEF Older
  <2>2. DOMAIN Older(y) # {}
    BY <2>1 DEF CleanZoneRecord
  <2>3. QED
    BY <2>1, <2>2, FreshValues
<1>2. TypeOK /\ StoreOK
  BY InvariantParts DEF IInv
<1>3. /\ DOMAIN zones' = DOMAIN zones
      /\ zones' \in [DOMAIN zones -> CleanZoneRecord]
      /\ \A z \in DOMAIN zones : zones'[z].status = zones[z].status
  BY <1>1, <1>2, StoredFacts DEF Tick
<1>4. StoreOK' /\ StoreGrows
  BY <1>2, <1>3 DEF Tick, StoreOK, StoreGrows, NeverOverLimit, A!NeverOverLimit
<1>5. ASSUME NEW w \in Workers
      PROVE  /\ WorkerOK(w)'
             /\ local'[w].cleanZone # Nothing <=> local[w].cleanZone # Nothing
             /\ local[w].cleanZone # Nothing =>
                  local'[w].cleanZone.status = local[w].cleanZone.status
             /\ local'[w].affected = local[w].affected
             /\ local'[w].zone = local[w].zone /\ local'[w].op = local[w].op
             /\ local'[w].logs = local[w].logs /\ local'[w].operator = local[w].operator
             /\ local'[w].before = local[w].before
  <2> DEFINE known == local[w]
             aged  == IF known.cleanZone = Nothing THEN known.cleanZone
                      ELSE Older(known.cleanZone)
  <2>1. local'[w] = [known EXCEPT !.cleanZone = aged] /\ pc'[w] = pc[w]
    BY DEF Tick
  <2>2. /\ aged = Nothing \/ aged \in CleanZoneRecord
        /\ aged # Nothing <=> known.cleanZone # Nothing
        /\ known.cleanZone # Nothing => aged.status = known.cleanZone.status
    BY <1>1, KnownFacts DEF LocalOK
  <2> HIDE DEF aged
  <2>3. /\ DOMAIN local'[w] = Fields /\ local'[w].cleanZone = aged
        /\ local'[w].op = known.op /\ local'[w].zone = known.zone
        /\ local'[w].ratio = known.ratio /\ local'[w].areaZones = known.areaZones
        /\ local'[w].affected = known.affected /\ local'[w].inArea = known.inArea
        /\ local'[w].equipment = known.equipment /\ local'[w].logs = known.logs
        /\ local'[w].operator = known.operator /\ local'[w].before = known.before
        /\ local'[w].queue = known.queue
    BY <2>1, KnownFacts DEF Fields
  <2>4. LocalOK(local[w])'
    BY <1>4, <2>2, <2>3, KnownFacts, FreshFields DEF LocalOK, StoreGrows
  <2>5. Held(pc[w], local[w])'
    BY <1>4, <2>1, <2>2, <2>3, KnownFacts DEF Held, StoreGrows
  <2>6. QED
    BY <2>2, <2>3, <2>4, <2>5 DEF WorkerOK
<1>6. pc' \in [Workers -> Steps] /\ DOMAIN local' = Workers
  BY <1>2 DEF Tick, TypeOK
<1>7. QED
  BY <1>3, <1>4, <1>5, <1>6, InvariantParts

-----------------------------------------------------------------------------
(* Types, and no zone stored as over_limit. *)

\* The seeded store, before any request.
LEMMA InvariantInit == Init => IInv
<1> SUFFICES ASSUME Init PROVE IInv
  OBVIOUS
<1>1. /\ DOMAIN zones = SeededZones /\ zones \in [DOMAIN zones -> CleanZoneRecord]
      /\ NeverOverLimit
  BY NewRecordsTyped DEF Init, NeverOverLimit, A!NeverOverLimit, NewCleanZone, CleanZone
<1>2. DOMAIN monitors = SeededMonitors /\ monitors \in [DOMAIN monitors -> MonitorRecord]
  BY NewRecordsTyped DEF Init
<1>3. interlocks \in Seq(InterlockRecord)
  BY EmptySeq DEF Init
<1>4. ASSUME NEW w \in Workers PROVE LocalOK(local[w]) /\ Held(pc[w], local[w])
  <2>1. pc[w] = "idle" /\ local[w] = Fresh
    BY DEF Init
  <2>2. LocalOK(Fresh)
    BY FreshFields, FreshValues DEF LocalOK
  <2>3. Held("idle", Fresh)
    BY FreshValues DEF Held
  <2>4. QED
    BY <2>1, <2>2, <2>3
<1>5. pc \in [Workers -> Steps] /\ DOMAIN local = Workers
  BY DEF Init, Steps
<1>6. QED
  BY <1>1, <1>2, <1>3, <1>4, <1>5, TopologyAssumption DEF IInv, TypeOK

\* A request that goes on keeps what it holds all right.
LEMMA ContinueSteps ==
  ASSUME IInv, NEW w \in Workers, Continue(w)
  PROVE  Stepped(w)
  BY IngestSteps, IngestRatioSteps, IssueListAreaStep, AreaWriteStep,
     CommandReadSteps, UpdateMonitorStep, CreateLogStep, RestoreReadSteps,
     RestoreCloseLogStep, SweepSteps
  DEF Continue

\* Every action of a worker but the creation of zones.
LEMMA WorkerSteps ==
  ASSUME IInv, NEW w \in Workers, Start(w) \/ Continue(w)
  PROVE  \/ Stepped(w)
         \/ \E z \in Zones : CreateCleanZone(w, z)
         \/ \E m \in Monitors, due \in Times : CreateMonitorZone(w, m, due)
<1>1. CASE Start(w)
  BY <1>1, StartSteps, SweepSteps DEF Start
<1>2. CASE Continue(w)
  BY <1>2, ContinueSteps
<1>3. QED
  BY <1>1, <1>2

\* Every step keeps the invariant.
LEMMA InvariantStep == IInv /\ [Next]_vars => IInv'
<1> SUFFICES ASSUME IInv, [Next]_vars PROVE IInv'
  OBVIOUS
<1>1. ASSUME NEW w \in Workers, Start(w) \/ Continue(w) PROVE IInv'
  <2>1. Stepped(w) => IInv'
    BY WorkerStep DEF Stepped
  <2>2. QED
    BY <1>1, <2>1, WorkerSteps, CreateSteps
<1>2. CASE Tick
  BY <1>2, TickStep
<1>3. CASE UNCHANGED vars
  BY <1>3
  DEF vars, IInv, TypeOK, LocalOK, Held, NeverOverLimit, A!NeverOverLimit
<1>4. QED
  BY <1>1, <1>2, <1>3 DEF Next

\* However requests overlap and whatever save fails, the store and the records
\* that handlers hold between two store calls keep their shape.
THEOREM RacesTyped == Spec => []TypeOK
<1>1. IInv => TypeOK
  BY DEF IInv
<1>2. QED
  BY InvariantInit, InvariantStep, <1>1, PTL DEF Spec

\* However requests overlap and whatever save fails, no clean zone is stored
\* as over_limit: not even by a record that applyStateAndInterlock or Restore
\* read long ago and writes back whole.
THEOREM RacesNeverOverLimit == Spec => []NeverOverLimit
<1>1. IInv => NeverOverLimit
  BY DEF IInv
<1>2. QED
  BY InvariantInit, InvariantStep, <1>1, PTL DEF Spec

-----------------------------------------------------------------------------
(* What restores write into the logs. *)

\* Starting a request writes no log.
LEMMA StartKeepsLogs ==
  ASSUME NEW w \in Workers, Start(w) PROVE interlocks' = interlocks
  BY DEF Start, CreateCleanZone, A!CreateCleanZone, CreateMonitorZone, A!CreateMonitorZone,
         SetMaintenance, SetCalibration, EditMonitor, IngestGetMonitor, IssueStart,
         RestoreGetZone, SweepList, SweepNext

\* Of the other steps, two do.
LEMMA ContinueKeepsLogs ==
  ASSUME NEW w \in Workers, Continue(w)
  PROVE  \/ interlocks' = interlocks
         \/ IssueCreateLog(w)
         \/ \E i \in local[w].logs : RestoreCloseLog(w, i)
  BY DEF Continue, IngestGetZone, IngestUpdateState, IngestReloadZone, IngestUpdateRatio,
         IssueListArea, IssueUpdateZone, IssueListCommandZones, IssueListMonitors,
         UpdateMonitor, RestoreListArea, RestoreUpdateZone, RestoreListLogs, SweepEnd

\* The logs that are stored stay stored, in their area, and are not opened again.
LogsKept ==
  \A i \in DOMAIN interlocks :
    /\ i \in DOMAIN interlocks'
    /\ interlocks'[i].area = interlocks[i].area
    /\ interlocks'[i].open => interlocks[i].open

\* A step keeps every log as it is, or has a restore sign it.
LEMMA LogsStep ==
  ASSUME IInv, [Next]_vars
  PROVE  /\ LogsKept
         /\ \A i \in DOMAIN interlocks :
              \/ interlocks'[i] = interlocks[i]
              \/ \E w \in Workers :
                   /\ pc[w] = "close_logs" /\ i \in local[w].logs
                   /\ interlocks'[i] = Closed(interlocks[i], local[w].operator)
<1> DEFINE Signed(i) == \E w \in Workers :
             /\ pc[w] = "close_logs" /\ i \in local[w].logs
             /\ interlocks'[i] = Closed(interlocks[i], local[w].operator)
<1>1. ASSUME NEW w \in Workers, IssueCreateLog(w)
      PROVE  LogsKept /\ \A i \in DOMAIN interlocks : interlocks'[i] = interlocks[i]
  BY <1>1, CreateLogStep DEF Stepped, StoreGrows, LogsKept
<1>2. ASSUME NEW w \in Workers, NEW j \in local[w].logs, RestoreCloseLog(w, j)
      PROVE  LogsKept /\ \A i \in DOMAIN interlocks : interlocks'[i] = interlocks[i] \/ Signed(i)
  <2>1. j \in DOMAIN interlocks /\ local[w].operator \in Operators \cup {Nobody} /\ StoreOK
    BY KnownFacts DEF LocalOK
  <2>2. /\ pc[w] = "close_logs" /\ UNCHANGED <<zones, monitors>>
        /\ interlocks' = [interlocks EXCEPT ![j] = Closed(@, local[w].operator)]
    BY <1>2 DEF RestoreCloseLog
  <2>3. /\ DOMAIN interlocks' = DOMAIN interlocks
        /\ interlocks'[j] = Closed(interlocks[j], local[w].operator) /\ ~interlocks'[j].open
        /\ \A i \in DOMAIN interlocks \ {j} : interlocks'[i] = interlocks[i]
        /\ \A i \in DOMAIN interlocks : interlocks'[i].area = interlocks[i].area
    BY <2>1, <2>2, LogClosed
  <2>4. LogsKept
    BY <2>3 DEF LogsKept
  <2>5. Signed(j)
    BY <2>2, <2>3
  <2>6. QED
    BY <2>3, <2>4, <2>5
<1>3. CASE interlocks' = interlocks
  BY <1>3 DEF LogsKept
<1>4. QED
  BY <1>1, <1>2, <1>3, StartKeepsLogs, ContinueKeepsLogs DEF Next, Tick, vars

RestoreSteps == {"list_restore", "update_restored", "list_logs", "close_logs"}

\* What a worker knows of its restore is still good while it lists no logs.
LEMMA HeldOn ==
  ASSUME IInv, LogsKept, NEW w \in Workers, RestoreHeld(pc[w], local[w]),
         local'[w].op = local[w].op, local'[w].before = local[w].before,
         local'[w].operator = local[w].operator,
         pc[w] \in RestoreSteps => local'[w].zone = local[w].zone,
         pc'[w] \in RestoreSteps <=> pc[w] \in RestoreSteps,
         pc'[w] = "close_logs" => pc[w] = "close_logs" /\ local'[w].logs = local[w].logs
  PROVE  RestoreHeld(pc[w], local[w])'
<1> DEFINE known == local[w]
           after == local'[w]
<1>1. /\ pc'[w] \in RestoreSteps <=> after.op = "restore"
      /\ after.op = "restore" => after.operator \in Operators
  BY DEF RestoreHeld, RestoreSteps
<1>2. \A i \in DOMAIN after.before :
        /\ i \in DOMAIN interlocks'
        /\ interlocks'[i].area = after.before[i].area
        /\ interlocks'[i].open => after.before[i].open
  BY DEF RestoreHeld, LogsKept
<1>3. ASSUME pc'[w] = "close_logs"
      PROVE  /\ \A i \in after.logs :
                  /\ interlocks'[i].area = AreaOf[after.zone]
                  /\ i \in DOMAIN after.before => after.before[i].open
             /\ \A i \in DOMAIN after.before :
                  interlocks'[i].open /\ interlocks'[i].area = AreaOf[after.zone]
                    => i \in after.logs
  <2>1. known.logs \subseteq DOMAIN interlocks
    BY KnownFacts DEF LocalOK
  <2>2. after.zone = known.zone
    BY <1>3 DEF RestoreSteps
  <2>3. QED
    BY <1>3, <2>1, <2>2 DEF RestoreHeld, LogsKept
<1>4. QED
  BY <1>1, <1>2, <1>3 DEF RestoreHeld, RestoreSteps

\* A worker that is not restoring, or has been answered, knows no logs.
Forgets(w) ==
  /\ local'[w].op # "restore" /\ local'[w].before = Nothing
  /\ pc'[w] \in Steps \ RestoreSteps
  /\ pc[w] \in RestoreSteps => SaveMayFail

\* A worker goes on with the request it has, and lists no logs.
Proceeds(w) ==
  /\ local'[w].op = local[w].op /\ local'[w].before = local[w].before
  /\ local'[w].operator = local[w].operator
  /\ pc[w] \in RestoreSteps => local'[w].zone = local[w].zone
  /\ pc'[w] \in RestoreSteps <=> pc[w] \in RestoreSteps
  /\ pc'[w] # "close_logs"

\* Where a worker may go next without having read logs.
LEMMA WhereTo ==
  ASSUME IInv, NEW w \in Workers
  PROVE  /\ Finish(w) \/ GiveUp(w) =>
              /\ local'[w].op # "restore" /\ local'[w].before = Nothing
              /\ pc'[w] \in Steps \ RestoreSteps
         /\ \A to \in Steps : \A known : Go(w, to, known) => pc'[w] = to /\ local'[w] = known
<1>1. \A to \in Steps : \A known : Go(w, to, known) => pc'[w] = to /\ local'[w] = known
  BY KnownFacts, GoFacts
<1>2. {"idle", "next_candidate"} \subseteq Steps \ RestoreSteps
  BY DEF Steps, RestoreSteps
<1>3. Fresh.op = "none" /\ Fresh.before = Nothing
  BY FreshValues
<1>4. \A queue : /\ [Fresh EXCEPT !.op = "sweep", !.queue = queue].op = "sweep"
                 /\ [Fresh EXCEPT !.op = "sweep", !.queue = queue].before = Nothing
  BY <1>3, FreshFields DEF Fields
<1>5. CASE Go(w, "idle", Fresh)
  BY <1>1, <1>2, <1>3, <1>5
<1>6. CASE Go(w, "next_candidate", [Fresh EXCEPT !.op = "sweep", !.queue = local[w].queue])
  <2> DEFINE known == [Fresh EXCEPT !.op = "sweep", !.queue = local[w].queue]
  <2>1. pc'[w] = "next_candidate" /\ local'[w] = known
    BY <1>1, <1>2, <1>6
  <2>2. QED
    BY <1>1, <1>2, <1>4, <2>1
<1>7. QED
  BY <1>1, <1>5, <1>6 DEF Finish, GiveUp

\* Starting a request, other than a restore.
LEMMA StartForgets ==
  ASSUME IInv, RestoreInv, NEW w \in Workers, Start(w)
  PROVE  \/ UNCHANGED <<pc, local>>
         \/ \E z \in Zones, operator \in Operators : RestoreGetZone(w, z, operator)
         \/ Forgets(w)
         \/ Proceeds(w)
<1>1. {"update_monitors", "get_zone", "list_area", "next_candidate"} \subseteq Steps \ RestoreSteps
  BY DEF Steps, RestoreSteps
<1>2. pc[w] \in {"idle", "next_candidate"} /\ pc[w] \notin RestoreSteps
  BY DEF Start, CreateCleanZone, CreateMonitorZone, SetMaintenance, SetCalibration,
         IngestGetMonitor, IssueStart, RestoreGetZone, SweepList, SweepNext, Starts, RestoreSteps
<1>3. ASSUME NEW m, NEW edited, EditMonitor(w, m, edited) PROVE Forgets(w)
  <2> DEFINE known == [Fresh EXCEPT !.op = "edit", !.equipment = [x \in {m} |-> edited]]
  <2>1. known.op = "edit" /\ known.before = Nothing
    BY FreshFields, FreshValues DEF Fields
  <2>2. Go(w, "update_monitors", known)
    BY <1>3 DEF EditMonitor
  <2> HIDE DEF known
  <2>3. QED
    BY <1>1, <1>2, <2>1, <2>2, WhereTo DEF Forgets
<1>4. ASSUME NEW op \in {"ingest", "issue"}, NEW z, NEW ratio, NEW to \in {"get_zone", "list_area"},
             Go(w, to, [Fresh EXCEPT !.op = op, !.zone = z, !.ratio = ratio])
      PROVE  Forgets(w)
  <2> DEFINE known == [Fresh EXCEPT !.op = op, !.zone = z, !.ratio = ratio]
  <2>1. known.op = op /\ known.before = Nothing
    BY FreshFields, FreshValues DEF Fields
  <2>2. Go(w, to, known)
    BY <1>4
  <2> HIDE DEF known
  <2>3. QED
    BY <1>1, <1>2, <2>1, <2>2, WhereTo DEF Forgets
<1>5. ASSUME SweepList(w) PROVE Forgets(w)
  <2> DEFINE known == [Fresh EXCEPT !.op = "sweep", !.queue = A!AutoInterlockCandidates]
  <2>1. known.op = "sweep" /\ known.before = Nothing
    BY FreshFields, FreshValues DEF Fields
  <2>2. Go(w, "next_candidate", known)
    BY <1>5 DEF SweepList
  <2> HIDE DEF known
  <2>3. QED
    BY <1>1, <1>2, <2>1, <2>2, WhereTo DEF Forgets
<1>6. ASSUME NEW c \in local[w].queue, SweepNext(w, c) PROVE Proceeds(w)
  <2> DEFINE known == [local[w] EXCEPT !.zone = c.zone, !.ratio = c.ratio, !.queue = @ \ {c}]
  <2>1. /\ known.op = local[w].op /\ known.before = local[w].before
        /\ known.operator = local[w].operator
    BY KnownFacts DEF Fields
  <2>2. Go(w, "list_area", known)
    BY <1>6 DEF SweepNext
  <2> HIDE DEF known
  <2>3. QED
    BY <1>1, <1>2, <2>1, <2>2, WhereTo DEF Proceeds
<1>7. QED
  BY <1>3, <1>4, <1>5, <1>6
  DEF Start, CreateCleanZone, CreateMonitorZone, SetMaintenance, SetCalibration,
      IngestGetMonitor, IssueStart

\* What a step of worker w changes is not what it knows of its restore.
SameRequest(known, known2) ==
  /\ known2.op = known.op /\ known2.zone = known.zone
  /\ known2.operator = known.operator /\ known2.before = known.before

LEMMA GoOn ==
  ASSUME IInv, NEW w \in Workers, NEW to \in Steps \ {"close_logs"}, NEW known,
         SameRequest(local[w], known), Go(w, to, known),
         to \in RestoreSteps <=> pc[w] \in RestoreSteps
  PROVE  Proceeds(w)
  BY WhereTo DEF Proceeds, SameRequest

LEMMA Leave ==
  ASSUME IInv, NEW w \in Workers, Finish(w) \/ GiveUp(w),
         pc[w] \in RestoreSteps => SaveMayFail
  PROVE  Forgets(w)
  BY WhereTo DEF Forgets

\* Steps of a sample.
LEMMA IngestGoesOn ==
  ASSUME IInv, NEW w \in Workers,
         \/ IngestGetZone(w) \/ IngestUpdateState(w)
         \/ IngestReloadZone(w) \/ IngestUpdateRatio(w)
  PROVE  Forgets(w) \/ Proceeds(w)
<1>1. pc[w] \notin RestoreSteps
  BY DEF IngestGetZone, IngestUpdateState, IngestReloadZone, IngestUpdateRatio, RestoreSteps
<1>2. {"list_area", "reload_zone", "update_state", "update_ratio"} \subseteq Steps \ RestoreSteps
  BY DEF Steps, RestoreSteps
<1>3. "close_logs" \in RestoreSteps
  BY DEF RestoreSteps
<1>4. \A y : SameRequest(local[w], [local[w] EXCEPT !.cleanZone = y])
  BY KnownFacts DEF SameRequest, Fields
<1>5. SameRequest(local[w], local[w])
  BY DEF SameRequest
<1>6. \/ Finish(w) \/ GiveUp(w)
      \/ \E to \in {"list_area", "reload_zone", "update_state", "update_ratio"} :
           \/ Go(w, to, local[w])
           \/ \E y : Go(w, to, [local[w] EXCEPT !.cleanZone = y])
  BY DEF IngestGetZone, IngestUpdateState, IngestReloadZone, IngestUpdateRatio,
         GoAfterWrite, FinishAfterWrite
<1>7. QED
  BY <1>1, <1>2, <1>3, <1>4, <1>5, <1>6, GoOn, Leave

\* Steps of an interlock, and of an edit.
LEMMA IssueGoesOn ==
  ASSUME IInv, NEW w \in Workers,
         \/ IssueListArea(w)
         \/ \E z \in DOMAIN local[w].areaZones : IssueUpdateZone(w, z)
         \/ IssueListCommandZones(w) \/ IssueListMonitors(w)
         \/ \E m \in DOMAIN local[w].equipment : UpdateMonitor(w, m)
         \/ IssueCreateLog(w)
  PROVE  Forgets(w) \/ Proceeds(w)
<1> DEFINE to == {"list_command_zones", "update_area", "list_monitors", "create_log",
                  "update_monitors", "reload_zone"}
<1>1. pc[w] \notin RestoreSteps
  BY DEF IssueListArea, IssueUpdateZone, IssueListCommandZones, IssueListMonitors,
         UpdateMonitor, IssueCreateLog, RestoreSteps
<1>2. to \subseteq Steps \ RestoreSteps /\ "close_logs" \in RestoreSteps
  BY DEF Steps, RestoreSteps
<1>3. ASSUME NEW x, NEW y
      PROVE  /\ SameRequest(local[w], [local[w] EXCEPT !.affected = x, !.areaZones = y])
             /\ SameRequest(local[w], [local[w] EXCEPT !.inArea = x, !.equipment = y])
             /\ SameRequest(local[w], [local[w] EXCEPT !.areaZones = x])
             /\ SameRequest(local[w], [local[w] EXCEPT !.inArea = x])
             /\ SameRequest(local[w], [local[w] EXCEPT !.equipment = x])
             /\ SameRequest(local[w], [local[w] EXCEPT !.affected = x])
  BY KnownFacts DEF SameRequest, Fields
<1>4. ASSUME NEW step \in to, NEW known, SameRequest(local[w], known), Go(w, step, known)
      PROVE  Proceeds(w)
  BY <1>1, <1>2, <1>4, GoOn
<1>5. ASSUME Finish(w) \/ GiveUp(w) PROVE Forgets(w)
  BY <1>1, <1>5, Leave
<1>6. CASE IssueListArea(w)
  BY <1>3, <1>4, <1>6 DEF IssueListArea
<1>7. CASE \E z \in DOMAIN local[w].areaZones : IssueUpdateZone(w, z)
  BY <1>3, <1>4, <1>5, <1>7 DEF IssueUpdateZone, GoAfterWrite
<1>8. CASE IssueListCommandZones(w)
  BY <1>3, <1>4, <1>8 DEF IssueListCommandZones
<1>9. CASE IssueListMonitors(w)
  BY <1>3, <1>4, <1>9 DEF IssueListMonitors
<1>10. CASE \E m \in DOMAIN local[w].equipment : UpdateMonitor(w, m)
  BY <1>3, <1>4, <1>5, <1>10 DEF UpdateMonitor, GoAfterWrite, FinishAfterWrite
<1>11. CASE IssueCreateLog(w)
  BY <1>3, <1>4, <1>5, <1>11 DEF IssueCreateLog, GoAfterWrite, FinishAfterWrite
<1>12. QED
  BY <1>6, <1>7, <1>8, <1>9, <1>10, <1>11

\* Steps of a restore until it lists the logs, and the end of a sweep.
LEMMA RestoreGoesOn ==
  ASSUME IInv, NEW w \in Workers,
         \/ RestoreListArea(w)
         \/ \E z \in DOMAIN local[w].areaZones : RestoreUpdateZone(w, z)
         \/ SweepEnd(w)
  PROVE  Forgets(w) \/ Proceeds(w)
<1>1. /\ {"list_logs", "update_restored"} \subseteq Steps \ {"close_logs"}
      /\ {"list_logs", "update_restored", "list_restore"} \subseteq RestoreSteps
      /\ "next_candidate" \notin RestoreSteps
  BY DEF Steps, RestoreSteps
<1>2. ASSUME NEW x PROVE SameRequest(local[w], [local[w] EXCEPT !.areaZones = x])
  BY KnownFacts DEF SameRequest, Fields
<1>3. CASE RestoreListArea(w)
  BY <1>1, <1>2, <1>3, GoOn DEF RestoreListArea
<1>4. ASSUME NEW z \in DOMAIN local[w].areaZones, RestoreUpdateZone(w, z)
      PROVE  Forgets(w) \/ Proceeds(w)
  <2>1. \/ GiveUp(w) /\ SaveMayFail
        \/ \E to \in {"list_logs", "update_restored"} : \E x :
             Go(w, to, [local[w] EXCEPT !.areaZones = x])
    BY <1>4 DEF RestoreUpdateZone, GoAfterWrite
  <2>2. pc[w] = "update_restored"
    BY <1>4 DEF RestoreUpdateZone
  <2>3. QED
    BY <1>1, <1>2, <2>1, <2>2, GoOn, Leave
<1>5. CASE SweepEnd(w)
  BY <1>1, <1>5, Leave DEF SweepEnd
<1>6. QED
  BY <1>3, <1>4, <1>5

\* Every step of a worker, as its restore sees it.
LEMMA RestoreKinds ==
  ASSUME IInv, RestoreInv, NEW w \in Workers, Start(w) \/ Continue(w)
  PROVE  \/ UNCHANGED <<pc, local>>
         \/ \E z \in Zones, operator \in Operators : RestoreGetZone(w, z, operator)
         \/ RestoreListLogs(w)
         \/ \E i \in local[w].logs : RestoreCloseLog(w, i)
         \/ Forgets(w)
         \/ Proceeds(w)
  BY StartForgets, IngestGoesOn, IssueGoesOn, RestoreGoesOn DEF Continue

\* A restore begins with what is stored.
LEMMA RestoreGetZoneHeld ==
  ASSUME IInv, NEW w \in Workers, NEW z \in Zones, NEW operator \in Operators,
         RestoreGetZone(w, z, operator)
  PROVE  RestoreHeld(pc[w], local[w])'
<1> DEFINE known == [Fresh EXCEPT !.op = "restore", !.zone = z, !.operator = operator,
                                  !.before = interlocks]
<1>1. known.op = "restore" /\ known.operator = operator /\ known.before = interlocks
  BY FreshFields DEF Fields
<1>2. Go(w, "list_restore", known) /\ interlocks' = interlocks
  BY DEF RestoreGetZone
<1> HIDE DEF known
<1>3. pc'[w] = "list_restore" /\ local'[w] = known
  BY <1>2, WhereTo DEF Steps
<1>4. QED
  BY <1>1, <1>2, <1>3 DEF RestoreHeld

\* It lists all the open logs it has seen, and none it has seen closed.
LEMMA RestoreListLogsHeld ==
  ASSUME IInv, RestoreInv, NEW w \in Workers, RestoreListLogs(w)
  PROVE  /\ RestoreHeld(pc[w], local[w])'
         /\ local[w].op = "restore"
         /\ local'[w].op # "restore" =>
              \A i \in DOMAIN local[w].before :
                /\ local[w].before[i].open
                /\ local[w].before[i].area = AreaOf[local[w].zone]
                => ~interlocks'[i].open
<1> DEFINE known == local[w]
           mine  == {i \in DOMAIN interlocks :
                       interlocks[i].open /\ interlocks[i].area = AreaOf[known.zone]}
           next  == [known EXCEPT !.logs = mine]
<1>1. RestoreHeld(pc[w], known) /\ pc[w] = "list_logs" /\ interlocks' = interlocks
  BY DEF RestoreInv, RestoreListLogs
<1>2. known.op = "restore" /\ known.operator \in Operators
  BY <1>1 DEF RestoreHeld
<1>3. CASE mine = {} /\ Finish(w)
  <2>1. /\ local'[w].op # "restore" /\ local'[w].before = Nothing
        /\ pc'[w] \notin RestoreSteps
    BY <1>3, WhereTo
  <2>2. \A i \in DOMAIN known.before :
          /\ known.before[i].open
          /\ known.before[i].area = AreaOf[known.zone]
          => ~interlocks'[i].open
    BY <1>1, <1>3 DEF RestoreHeld
  <2>3. RestoreHeld(pc[w], local[w])'
    BY <2>1, FreshValues DEF RestoreHeld, RestoreSteps
  <2>4. QED
    BY <1>2, <2>2, <2>3
<1>4. CASE Go(w, "close_logs", next)
  <2>1. /\ next.op = "restore" /\ next.zone = known.zone /\ next.before = known.before
        /\ next.operator = known.operator /\ next.logs = mine
    BY <1>2, KnownFacts DEF Fields
  <2>2. /\ \A i \in mine : /\ interlocks[i].area = AreaOf[known.zone]
                           /\ i \in DOMAIN known.before => known.before[i].open
        /\ \A i \in DOMAIN known.before :
             interlocks[i].open /\ interlocks[i].area = AreaOf[known.zone] => i \in mine
    BY <1>1 DEF RestoreHeld
  <2>3. pc'[w] = "close_logs" /\ local'[w] = next
    BY <1>4, WhereTo DEF Steps
  <2> HIDE DEF mine, next
  <2>4. RestoreHeld(pc[w], local[w])'
    BY <1>1, <1>2, <2>1, <2>2, <2>3 DEF RestoreHeld
  <2>5. QED
    BY <1>2, <2>1, <2>3, <2>4
<1>5. QED
  BY <1>3, <1>4 DEF RestoreListLogs

\* It closes them all before it answers.
LEMMA RestoreCloseLogHeld ==
  ASSUME IInv, RestoreInv, LogsKept, NEW w \in Workers, NEW j \in local[w].logs,
         RestoreCloseLog(w, j)
  PROVE  /\ RestoreHeld(pc[w], local[w])'
         /\ local[w].op = "restore"
         /\ local'[w].op # "restore" /\ SaveMayFail = FALSE =>
              \A i \in DOMAIN local[w].before :
                /\ local[w].before[i].open
                /\ local[w].before[i].area = AreaOf[local[w].zone]
                => ~interlocks'[i].open
<1> DEFINE known == local[w]
           left  == known.logs \ {j}
           next  == [known EXCEPT !.logs = left]
<1>1. /\ RestoreHeld(pc[w], known) /\ pc[w] = "close_logs"
      /\ known.logs \subseteq DOMAIN interlocks
  BY KnownFacts DEF RestoreInv, RestoreCloseLog, LocalOK
<1>2. known.op = "restore" /\ known.operator \in Operators
  BY <1>1 DEF RestoreHeld
<1>3. /\ ~interlocks'[j].open
      /\ \A i \in DOMAIN interlocks \ {j} : interlocks'[i] = interlocks[i]
  BY <1>1, LogClosed, KnownFacts DEF RestoreCloseLog, LocalOK
<1>4. CASE Finish(w) \/ GiveUp(w)
  <2>1. /\ local'[w].op # "restore" /\ local'[w].before = Nothing
        /\ pc'[w] \notin RestoreSteps
    BY <1>4, WhereTo
  <2>2. RestoreHeld(pc[w], local[w])'
    BY <2>1, FreshValues DEF RestoreHeld, RestoreSteps
  <2>3. ASSUME left = {}
        PROVE  \A i \in DOMAIN known.before :
                 /\ known.before[i].open
                 /\ known.before[i].area = AreaOf[known.zone]
                 => ~interlocks'[i].open
    BY <1>1, <1>3, <2>3 DEF RestoreHeld
  <2>4. CASE left = {}
    BY <1>2, <2>2, <2>3, <2>4
  <2>5. CASE left # {}
    <3>1. GoAfterWrite(w, "close_logs", next)
      BY <2>5 DEF RestoreCloseLog
    <3>2. pc'[w] # "close_logs"
      BY <2>1 DEF RestoreSteps
    <3>3. SaveMayFail
      BY <3>1, <3>2, WhereTo DEF GoAfterWrite, Steps
    <3>4. QED
      BY <1>2, <2>2, <3>3
  <2>6. QED
    BY <2>4, <2>5
<1>5. CASE Go(w, "close_logs", next)
  <2>1. /\ next.op = "restore" /\ next.zone = known.zone /\ next.before = known.before
        /\ next.operator = known.operator /\ next.logs = left
    BY <1>2, KnownFacts DEF Fields
  <2>2. pc'[w] = "close_logs" /\ local'[w] = next
    BY <1>5, WhereTo DEF Steps
  <2>3. /\ \A i \in left : /\ interlocks'[i].area = AreaOf[known.zone]
                           /\ i \in DOMAIN known.before => known.before[i].open
        /\ \A i \in DOMAIN known.before :
             interlocks'[i].open /\ interlocks'[i].area = AreaOf[known.zone] => i \in left
        /\ \A i \in DOMAIN known.before :
             /\ i \in DOMAIN interlocks'
             /\ interlocks'[i].area = known.before[i].area
             /\ interlocks'[i].open => known.before[i].open
    BY <1>1, <1>3 DEF RestoreHeld, LogsKept
  <2> HIDE DEF left, next
  <2>4. RestoreHeld(pc[w], local[w])'
    BY <1>2, <2>1, <2>2, <2>3 DEF RestoreHeld
  <2>5. QED
    BY <1>2, <2>1, <2>2, <2>4
<1>6. QED
  BY <1>4, <1>5 DEF RestoreCloseLog, GoAfterWrite, FinishAfterWrite

\* Nobody has asked for anything yet.
LEMMA RestoreInit == Init => RestoreInv
<1> SUFFICES ASSUME Init, NEW w \in Workers PROVE RestoreHeld(pc[w], local[w])
  BY DEF RestoreInv
<1>1. pc[w] = "idle" /\ local[w] = Fresh
  BY DEF Init
<1>2. QED
  BY <1>1, FreshValues DEF RestoreHeld

\* Only worker w writes what it knows.
LEMMA Others ==
  ASSUME IInv, NEW w \in Workers, Start(w) \/ Continue(w)
  PROVE  \A v \in Workers \ {w} : pc'[v] = pc[v] /\ local'[v] = local[v]
<1>1. CASE Stepped(w)
  BY <1>1 DEF Stepped, OthersWait
<1>2. CASE UNCHANGED <<pc, local>>
  BY <1>2
<1>3. QED
  BY <1>1, <1>2, WorkerSteps DEF CreateCleanZone, CreateMonitorZone

\* Every step keeps what the restores under way know good.
LEMMA RestoreInvStep == IInv /\ RestoreInv /\ [Next]_vars => RestoreInv'
<1> SUFFICES ASSUME IInv, RestoreInv, [Next]_vars, NEW v \in Workers
             PROVE  RestoreHeld(pc[v], local[v])'
  BY DEF RestoreInv
<1>1. LogsKept /\ RestoreHeld(pc[v], local[v])
  BY LogsStep DEF RestoreInv
<1>2. CASE pc'[v] = pc[v] /\ local'[v] = local[v]
  BY <1>1, <1>2, HeldOn
<1>3. CASE Tick
  <2>1. /\ pc'[v] = pc[v] /\ local'[v].op = local[v].op /\ local'[v].zone = local[v].zone
        /\ local'[v].logs = local[v].logs /\ local'[v].operator = local[v].operator
        /\ local'[v].before = local[v].before
    BY <1>3, TickStep DEF Tick
  <2>2. QED
    BY <1>1, <2>1, HeldOn
<1>4. ASSUME Start(v) \/ Continue(v) PROVE RestoreHeld(pc[v], local[v])'
  <2>1. CASE UNCHANGED <<pc, local>>
    BY <1>2, <2>1
  <2>2. CASE Forgets(v)
    BY <2>2, FreshValues DEF Forgets, RestoreHeld, RestoreSteps
  <2>3. CASE Proceeds(v)
    BY <1>1, <2>3, HeldOn DEF Proceeds
  <2>4. QED
    BY <1>1, <1>4, <2>1, <2>2, <2>3, RestoreKinds, RestoreGetZoneHeld, RestoreListLogsHeld,
       RestoreCloseLogHeld
<1>5. ASSUME NEW w \in Workers, Start(w) \/ Continue(w) PROVE RestoreHeld(pc[v], local[v])'
  <2>1. CASE w = v
    BY <1>4, <1>5, <2>1
  <2>2. CASE w # v
    BY <1>2, <1>5, <2>2, Others
  <2>3. QED
    BY <2>1, <2>2
<1>6. CASE UNCHANGED vars
  BY <1>2, <1>6 DEF vars
<1>7. QED
  BY <1>3, <1>5, <1>6 DEF Next

\* However requests overlap and whatever save fails, interlock logs are never
\* lost, and what a log says of its restore is written by restores of its area
\* that began before it was closed: a restore confirmed afterwards changes no
\* name, note or time.
THEOREM OnlyOpenLogsSigned == Spec => SignedWhileOpen
<1> DEFINE Kept ==
      \A i \in DOMAIN interlocks :
        /\ i \in DOMAIN interlocks'
        /\ interlocks'[i] # interlocks[i] =>
             \E w \in Workers :
               /\ local[w].op = "restore"
               /\ AreaOf[local[w].zone] = interlocks[i].area
               /\ i \in DOMAIN local[w].before => local[w].before[i].open
               /\ interlocks'[i] = Closed(interlocks[i], local[w].operator)
<1>1. ASSUME IInv, RestoreInv, [Next]_vars PROVE Kept
  <2> USE <1>1
  <2>1. ASSUME NEW w \in Workers, pc[w] = "close_logs", NEW i \in local[w].logs
        PROVE  /\ local[w].op = "restore"
               /\ AreaOf[local[w].zone] = interlocks[i].area
               /\ i \in DOMAIN local[w].before => local[w].before[i].open
    BY <2>1 DEF RestoreInv, RestoreHeld
  <2>2. QED
    BY <2>1, LogsStep DEF LogsKept
<1>2. ASSUME IInv, RestoreInv, [Next]_vars PROVE [Kept]_vars
  BY <1>1, <1>2
<1>3. Spec => [](IInv /\ RestoreInv)
  BY InvariantInit, InvariantStep, RestoreInit, RestoreInvStep, PTL DEF Spec
<1>4. QED
  BY <1>2, <1>3, PTL DEF Spec, SignedWhileOpen

\* As long as saves succeed, and whatever requests overlap with it, a restore
\* that is answered leaves no log of its area open that was open when it began.
THEOREM RestoresCloseLogs ==
  ASSUME SaveMayFail = FALSE
  PROVE  Spec => RestoreClosesLogs
<1> DEFINE Owes(w, i) ==
             /\ local[w].before[i].open
             /\ local[w].before[i].area = AreaOf[local[w].zone]
           AllClosed ==
             \A w \in Workers :
               local[w].op = "restore" /\ local'[w].op # "restore" =>
                 \A i \in DOMAIN local[w].before :
                   /\ local[w].before[i].open
                   /\ local[w].before[i].area = AreaOf[local[w].zone]
                   => ~interlocks'[i].open
<1>1. ASSUME IInv, RestoreInv, [Next]_vars PROVE AllClosed
  <2> USE <1>1
  <2> SUFFICES ASSUME NEW w \in Workers, local[w].op = "restore", local'[w].op # "restore"
               PROVE  \A i \in DOMAIN local[w].before : Owes(w, i) => ~interlocks'[i].open
    OBVIOUS
  <2>1. pc[w] \in RestoreSteps
    BY DEF RestoreInv, RestoreHeld, RestoreSteps
  <2>2. Start(w) \/ Continue(w)
    <3>1. ~Tick
      BY TickStep
    <3>2. PICK v \in Workers : Start(v) \/ Continue(v)
      BY <3>1 DEF Next, vars
    <3>3. QED
      BY <3>2, Others
  <2>3. LogsKept
    BY LogsStep
  <2>4. ~Forgets(w) /\ ~Proceeds(w) /\ ~UNCHANGED <<pc, local>>
    BY <2>1 DEF Forgets, Proceeds
  <2>5. ASSUME NEW z \in Zones, NEW operator \in Operators PROVE ~RestoreGetZone(w, z, operator)
    BY <2>1 DEF RestoreGetZone, Starts, RestoreSteps
  <2>6. RestoreListLogs(w) \/ \E j \in local[w].logs : RestoreCloseLog(w, j)
    BY <2>2, <2>4, <2>5, RestoreKinds
  <2>7. QED
    BY <2>3, <2>6, RestoreListLogsHeld, RestoreCloseLogHeld
<1>2. ASSUME IInv, RestoreInv, [Next]_vars PROVE [AllClosed]_vars
  BY <1>1, <1>2
<1>3. Spec => [](IInv /\ RestoreInv)
  BY InvariantInit, InvariantStep, RestoreInit, RestoreInvStep, PTL DEF Spec
<1>4. QED
  BY <1>2, <1>3, PTL DEF Spec, RestoreClosesLogs

-----------------------------------------------------------------------------
(* Every interlock is on record, as long as saves succeed. *)

\* What is on record stays there when logs keep what they name, and when a
\* worker that still has its log to create keeps it in mind or creates it.
LEMMA RecordedKept ==
  ASSUME NEW w \in Workers, OthersWait(w),
         \A i \in DOMAIN interlocks :
           i \in DOMAIN interlocks' /\ interlocks'[i].affected = interlocks[i].affected,
         Issuing(w) =>
           \/ Issuing(w)' /\ local'[w].affected = local[w].affected
           \/ \E i \in DOMAIN interlocks' : interlocks'[i].affected = local[w].affected,
         NEW z, Recorded(z)
  PROVE  Recorded(z)'
<1>1. ASSUME NEW i \in DOMAIN interlocks, z \in interlocks[i].affected PROVE Recorded(z)'
  BY <1>1 DEF Recorded
<1>2. ASSUME NEW v \in Workers, Issuing(v), z \in local[v].affected PROVE Recorded(z)'
  <2>1. CASE v = w
    BY <1>2, <2>1 DEF Recorded
  <2>2. CASE v # w
    BY <1>2, <2>2 DEF Recorded, Issuing, OthersWait
  <2>3. QED
    BY <2>1, <2>2
<1>3. QED
  BY <1>1, <1>2 DEF Recorded

\* A step of worker w that leaves nothing interlocked off the record.
LEMMA RecordStep ==
  ASSUME RecordInv, NEW w \in Workers, OthersWait(w),
         \A z : Recorded(z) => Recorded(z)',
         \A z \in DOMAIN zones' : zones'[z].status = "interlocked" => Recorded(z)',
         \/ local'[w].cleanZone = Nothing
         \/ \A z : z = local'[w].zone /\ local'[w].cleanZone.status = "interlocked"
                     => Recorded(z)'
  PROVE  RecordInv'
<1>1. InterlocksRecorded'
  BY DEF InterlocksRecorded
<1>2. ASSUME NEW v \in Workers, NEW z, z = local'[v].zone,
             local'[v].cleanZone # Nothing, local'[v].cleanZone.status = "interlocked"
      PROVE  Recorded(z)'
  <2>1. CASE v = w
    BY <1>2, <2>1
  <2>2. CASE v # w
    <3>1. local'[v] = local[v]
      BY <2>2 DEF OthersWait
    <3>2. Recorded(local[v].zone)
      BY <1>2, <3>1 DEF RecordInv
    <3>3. Recorded(z)
      BY <1>2, <3>1, <3>2
    <3>4. QED
      BY <3>3
  <2>3. QED
    BY <2>1, <2>2
<1>3. ASSUME NEW v \in Workers, local'[v].cleanZone # Nothing,
             local'[v].cleanZone.status = "interlocked"
      PROVE  Recorded(local[v].zone)'
  <2>1. PICK z : z = local'[v].zone
    OBVIOUS
  <2>2. Recorded(z)'
    BY <1>2, <1>3, <2>1
  <2>3. QED
    BY <2>1, <2>2 DEF Recorded
<1>4. QED
  BY <1>1, <1>3 DEF RecordInv

\* Copies are held on the way to a state or ratio update only.
LEMMA NoCopyHeld ==
  ASSUME IInv, NEW w \in Workers, Stepped(w), pc'[w] \notin {"update_state", "update_ratio"}
  PROVE  local'[w].cleanZone = Nothing
  BY DEF Stepped, WorkerOK, Held

\* Steps that write neither zones nor logs nor read a copy of a zone.
LEMMA QuietStep ==
  ASSUME IInv, RecordInv, NEW w \in Workers, Stepped(w), UNCHANGED <<zones, interlocks>>,
         pc'[w] \notin {"update_state", "update_ratio"},
         Issuing(w) => Issuing(w)' /\ local'[w].affected = local[w].affected
  PROVE  RecordInv'
<1>1. OthersWait(w)
  BY DEF Stepped
<1>2. \A z : Recorded(z) => Recorded(z)'
  BY <1>1, RecordedKept
<1>3. \A z \in DOMAIN zones' : zones'[z].status = "interlocked" => Recorded(z)'
  BY <1>2 DEF RecordInv, InterlocksRecorded
<1>4. QED
  BY <1>1, <1>2, <1>3, NoCopyHeld, RecordStep

\* Starting a request takes nothing off the record.
LEMMA StartRecords ==
  ASSUME IInv, RecordInv, NEW w \in Workers, Start(w)
  PROVE  RecordInv'
<1>1. CASE ~(\/ \E z \in Zones : CreateCleanZone(w, z)
             \/ \E m \in Monitors, due \in Times : CreateMonitorZone(w, m, due))
  <2>1. Stepped(w)
    BY <1>1, WorkerSteps
  <2>2. /\ UNCHANGED <<zones, interlocks>>
        /\ pc[w] \in {"idle", "next_candidate"}
        /\ pc'[w] \in {"update_monitors", "get_zone", "list_area", "list_restore",
                       "next_candidate"}
    BY <1>1, KnownFacts
    DEF Start, SetMaintenance, SetCalibration, EditMonitor, IngestGetMonitor, IssueStart,
        RestoreGetZone, SweepList, SweepNext, Starts, Go, TypeOK
  <2>3. ~Issuing(w)
    BY <2>2 DEF Issuing
  <2>4. QED
    BY <2>1, <2>2, <2>3, QuietStep
<1>2. CASE \/ \E z \in Zones : CreateCleanZone(w, z)
           \/ \E m \in Monitors, due \in Times : CreateMonitorZone(w, m, due)
  <2>1. /\ UNCHANGED <<interlocks, pc, local>>
        /\ \A z \in DOMAIN zones' :
             \/ zones'[z].status = "normal"
             \/ z \in DOMAIN zones /\ zones'[z] = zones[z]
    <3>1. ASSUME NEW x \in Zones, CreateCleanZone(w, x)
          PROVE  /\ UNCHANGED <<interlocks, pc, local>>
                 /\ zones' = [z \in DOMAIN zones \cup {x} |->
                                IF z = x THEN NewCleanZone ELSE zones[z]]
      BY <3>1
      DEF CreateCleanZone, A!CreateCleanZone, A!NewCleanZone, A!CleanZone, NewCleanZone,
          CleanZone
    <3>2. NewCleanZone.status = "normal"
      BY DEF NewCleanZone, CleanZone
    <3>3. ASSUME NEW m \in Monitors, NEW due \in Times, CreateMonitorZone(w, m, due)
          PROVE  UNCHANGED <<zones, interlocks, pc, local>>
      BY <3>3 DEF CreateMonitorZone, A!CreateMonitorZone
    <3>4. QED
      BY <1>2, <3>1, <3>2, <3>3
  <2>2. \A z : Recorded(z)' <=> Recorded(z)
    BY <2>1 DEF Recorded, Issuing
  <2>3. InterlocksRecorded'
    BY <2>1, <2>2 DEF RecordInv, InterlocksRecorded
  <2>4. QED
    BY <2>1, <2>3 DEF RecordInv, Recorded, Issuing
<1>3. QED
  BY <1>1, <1>2

\* Process takes nothing off the record: what it writes back as interlocked it
\* has read as interlocked.
LEMMA IngestRecords ==
  ASSUME IInv, RecordInv, SaveMayFail = FALSE, NEW w \in Workers,
         \/ IngestGetZone(w) \/ IngestUpdateState(w)
         \/ IngestReloadZone(w) \/ IngestUpdateRatio(w)
  PROVE  RecordInv'
<1> DEFINE known == local[w]
<1>1. Stepped(w) /\ OthersWait(w)
  BY IngestSteps, IngestRatioSteps DEF Stepped
<1>2. /\ known.zone \in DOMAIN zones
      /\ zones[known.zone].status = "interlocked" => Recorded(known.zone)
  BY KnownFacts
  DEF IngestGetZone, IngestUpdateState, IngestReloadZone, IngestUpdateRatio, Held, Steps,
      RecordInv, InterlocksRecorded
<1>3. ~Issuing(w) /\ interlocks' = interlocks
  BY DEF IngestGetZone, IngestUpdateState, IngestReloadZone, IngestUpdateRatio, Issuing
<1>4. \A z : Recorded(z) => Recorded(z)'
  BY <1>1, <1>3, RecordedKept
<1>5. ASSUME zones' = zones, NEW y, local'[w] = [known EXCEPT !.cleanZone = y],
             y.status = "interlocked" => zones[known.zone].status = "interlocked"
      PROVE  RecordInv'
  <2>1. local'[w].zone = known.zone /\ local'[w].cleanZone = y
    BY <1>5, KnownFacts DEF Fields
  <2>2. \A z : z = local'[w].zone /\ local'[w].cleanZone.status = "interlocked"
                 => Recorded(z)'
    BY <1>2, <1>4, <1>5, <2>1
  <2>3. \A z \in DOMAIN zones' : zones'[z].status = "interlocked" => Recorded(z)'
    BY <1>4, <1>5 DEF RecordInv, InterlocksRecorded
  <2>4. QED
    BY <1>1, <1>4, <2>2, <2>3, RecordStep
<1>6. ASSUME zones' = [zones EXCEPT ![known.zone] = known.cleanZone],
             pc[w] \in {"update_state", "update_ratio"},
             pc'[w] \notin {"update_state", "update_ratio"}
      PROVE  RecordInv'
  <2>1. known.cleanZone # Nothing
    BY <1>6, KnownFacts DEF Held
  <2>2. known.cleanZone.status = "interlocked" => Recorded(known.zone)
    BY <2>1 DEF RecordInv
  <2>3. \A z \in DOMAIN zones' : zones'[z].status = "interlocked" => Recorded(z)'
    BY <1>2, <1>4, <1>6, <2>2 DEF RecordInv, InterlocksRecorded
  <2>4. QED
    BY <1>1, <1>4, <1>6, <2>3, NoCopyHeld, RecordStep
<1>7. CASE IngestGetZone(w)
  <2> DEFINE read   == zones[known.zone]
             target == IngestedStatus(read.status, known.ratio)
  <2>1. CASE pc'[w] \notin {"update_state", "update_ratio"}
    BY <1>1, <1>3, <1>7, <2>1, QuietStep DEF IngestGetZone
  <2>2. CASE pc'[w] \in {"update_state", "update_ratio"}
    <3>1. /\ zones' = zones
          /\ ~(known.ratio >= OverLimitRatio /\ read.status # "interlocked")
          /\ local'[w] = [known EXCEPT !.cleanZone = SetStatus(read, target)]
      BY <1>7, <2>2, KnownFacts DEF IngestGetZone, Go, TypeOK
    <3>2. /\ read \in CleanZoneRecord /\ read.status \in ZoneStatuses \ {"over_limit"}
          /\ known.ratio \in Nat
      BY <1>2, KnownFacts, StoredFacts DEF LocalOK
    <3>3. target \in ZoneStatuses /\ (target = "interlocked" <=> read.status = "interlocked")
      BY <3>1, <3>2, IngestedStatusFacts, ConfigAssumption
    <3>4. SetStatus(read, target).status = target
      BY <3>2, <3>3, SetStatusFacts
    <3>5. QED
      BY <1>5, <3>1, <3>3, <3>4
  <2>3. QED
    BY <2>1, <2>2
<1>8. CASE IngestReloadZone(w)
  <2> DEFINE read == zones[known.zone]
             y    == [read EXCEPT !.lastParticleRatio = known.ratio]
  <2>1. CASE Finish(w)
    <3>1. pc'[w] \notin {"update_state", "update_ratio"}
      BY <2>1, KnownFacts DEF Finish, Go, TypeOK
    <3>2. QED
      BY <1>1, <1>3, <1>8, <3>1, QuietStep DEF IngestReloadZone
  <2>2. CASE Go(w, "update_ratio", [known EXCEPT !.cleanZone = y])
    <3>1. zones' = zones /\ local'[w] = [known EXCEPT !.cleanZone = y]
      BY <1>8, <2>2, KnownFacts DEF IngestReloadZone, Go, TypeOK
    <3>2. y.status = read.status
      BY <1>2, KnownFacts, StoredFacts DEF CleanZoneRecord
    <3>3. QED
      BY <1>5, <3>1, <3>2
  <2>3. QED
    BY <1>8, <2>1, <2>2 DEF IngestReloadZone
<1>9. CASE IngestUpdateState(w)
  BY <1>6, <1>9, KnownFacts DEF IngestUpdateState, GoAfterWrite, GiveUp, Go, TypeOK
<1>10. CASE IngestUpdateRatio(w)
  BY <1>6, <1>10, KnownFacts DEF IngestUpdateRatio, FinishAfterWrite, Finish, GiveUp, Go, TypeOK
<1>11. QED
  BY <1>7, <1>8, <1>9, <1>10

\* An issue that has listed the area keeps what it has listed in mind until
\* its log is created, and interlocks nothing else.
LEMMA IssueRecords ==
  ASSUME IInv, RecordInv, SaveMayFail = FALSE, NEW w \in Workers,
         \/ IssueListArea(w)
         \/ \E z \in DOMAIN local[w].areaZones : IssueUpdateZone(w, z)
         \/ IssueListCommandZones(w)
         \/ IssueListMonitors(w)
         \/ \E m \in DOMAIN local[w].equipment : UpdateMonitor(w, m)
         \/ IssueCreateLog(w)
  PROVE  RecordInv'
<1> DEFINE known == local[w]
<1>1. CASE IssueListArea(w)
  <2>1. /\ ~Issuing(w) /\ UNCHANGED <<zones, interlocks>>
        /\ pc'[w] \notin {"update_state", "update_ratio"}
    BY <1>1, KnownFacts DEF IssueListArea, Issuing, Go, TypeOK
  <2>2. QED
    BY <1>1, <2>1, IssueListAreaStep, QuietStep
<1>2. CASE IssueListCommandZones(w) \/ IssueListMonitors(w)
  <2>1. known.op # "edit"
    BY <1>2, KnownFacts DEF IssueListCommandZones, IssueListMonitors, Held
  <2>2. /\ pc'[w] \in {"list_monitors", "create_log", "update_monitors"}
        /\ local'[w].affected = known.affected /\ local'[w].op = known.op
        /\ UNCHANGED <<zones, interlocks>>
    BY <1>2, KnownFacts DEF IssueListCommandZones, IssueListMonitors, Go, TypeOK, Fields
  <2>3. Issuing(w)'
    BY <2>1, <2>2 DEF Issuing
  <2>4. QED
    BY <1>2, <2>2, <2>3, CommandReadSteps, QuietStep
<1>3. ASSUME NEW m \in DOMAIN known.equipment, UpdateMonitor(w, m) PROVE RecordInv'
  <2>1. Stepped(w) /\ UNCHANGED <<zones, interlocks>>
    BY <1>3, UpdateMonitorStep DEF UpdateMonitor
  <2>2. CASE known.op = "edit"
    <3>1. ~Issuing(w) /\ pc'[w] \notin {"update_state", "update_ratio"}
      BY <1>3, <2>2, KnownFacts
      DEF UpdateMonitor, Issuing, FinishAfterWrite, Finish, GiveUp, Go, TypeOK
    <3>2. QED
      BY <2>1, <3>1, QuietStep
  <2>3. CASE known.op # "edit"
    <3>1. /\ pc'[w] \in {"create_log", "update_monitors"}
          /\ local'[w].affected = known.affected /\ local'[w].op = known.op
      BY <1>3, <2>3, KnownFacts DEF UpdateMonitor, GoAfterWrite, Go, TypeOK, Fields
    <3>2. Issuing(w)'
      BY <2>3, <3>1 DEF Issuing
    <3>3. QED
      BY <2>1, <3>1, <3>2, QuietStep
  <2>4. QED
    BY <2>2, <2>3
<1>4. ASSUME NEW z \in DOMAIN known.areaZones, IssueUpdateZone(w, z) PROVE RecordInv'
  <2>1. Stepped(w) /\ OthersWait(w) /\ interlocks' = interlocks
    BY <1>4, AreaWriteStep DEF IssueUpdateZone, Stepped
  <2>2. /\ pc'[w] \in {"update_area", "list_command_zones"}
        /\ local'[w].affected = known.affected
    BY <1>4, KnownFacts DEF IssueUpdateZone, GoAfterWrite, Go, TypeOK, Fields
  <2>3. Issuing(w) /\ Issuing(w)'
    BY <1>4, <2>2 DEF IssueUpdateZone, Issuing
  <2>4. \A x : Recorded(x) => Recorded(x)'
    BY <2>1, <2>2, <2>3, RecordedKept
  <2>5. known.areaZones[z].status = "interlocked" => Recorded(z)
    BY <2>3, KnownFacts DEF Held, Recorded
  <2>6. \A x \in DOMAIN zones' : zones'[x].status = "interlocked" => Recorded(x)'
    BY <1>4, <2>4, <2>5 DEF IssueUpdateZone, RecordInv, InterlocksRecorded
  <2>7. QED
    BY <2>1, <2>2, <2>4, <2>6, NoCopyHeld, RecordStep
<1>5. CASE IssueCreateLog(w)
  <2>1. /\ Stepped(w) /\ OthersWait(w) /\ zones' = zones
        /\ \E i \in DOMAIN interlocks' : interlocks'[i].affected = known.affected
        /\ \A i \in DOMAIN interlocks : i \in DOMAIN interlocks' /\ interlocks'[i] = interlocks[i]
    BY <1>5, CreateLogStep DEF IssueCreateLog, Stepped, StoreGrows
  <2>2. \A x : Recorded(x) => Recorded(x)'
    BY <2>1, RecordedKept
  <2>3. pc'[w] \notin {"update_state", "update_ratio"}
    BY <1>5, KnownFacts
    DEF IssueCreateLog, GoAfterWrite, FinishAfterWrite, Finish, GiveUp, Go, TypeOK
  <2>4. \A x \in DOMAIN zones' : zones'[x].status = "interlocked" => Recorded(x)'
    BY <2>1, <2>2 DEF RecordInv, InterlocksRecorded
  <2>5. QED
    BY <2>1, <2>2, <2>3, <2>4, NoCopyHeld, RecordStep
<1>6. QED
  BY <1>1, <1>2, <1>3, <1>4, <1>5

\* Restore interlocks nothing and keeps what logs name; nor does the end of a
\* sweep.
LEMMA RestoreRecords ==
  ASSUME IInv, RecordInv, NEW w \in Workers,
         \/ RestoreListArea(w)
         \/ \E z \in DOMAIN local[w].areaZones : RestoreUpdateZone(w, z)
         \/ RestoreListLogs(w)
         \/ \E i \in local[w].logs : RestoreCloseLog(w, i)
         \/ SweepEnd(w)
  PROVE  RecordInv'
<1>1. CASE RestoreListArea(w) \/ RestoreListLogs(w) \/ SweepEnd(w)
  <2>1. /\ ~Issuing(w) /\ UNCHANGED <<zones, interlocks>>
        /\ pc'[w] \notin {"update_state", "update_ratio"}
    BY <1>1, KnownFacts
    DEF RestoreListArea, RestoreListLogs, SweepEnd, Issuing, Finish, GiveUp, Go, TypeOK
  <2>2. QED
    BY <1>1, <2>1, RestoreReadSteps, SweepSteps, QuietStep
<1>2. ASSUME NEW z \in DOMAIN local[w].areaZones, RestoreUpdateZone(w, z) PROVE RecordInv'
  <2>1. Stepped(w) /\ OthersWait(w) /\ interlocks' = interlocks /\ ~Issuing(w)
    BY <1>2, AreaWriteStep DEF RestoreUpdateZone, Issuing, Stepped
  <2>2. pc'[w] \notin {"update_state", "update_ratio"}
    BY <1>2, KnownFacts DEF RestoreUpdateZone, GoAfterWrite, GiveUp, Go, TypeOK
  <2>3. \A x : Recorded(x) => Recorded(x)'
    BY <2>1, RecordedKept
  <2>4. local[w].areaZones[z].status # "interlocked"
    BY <1>2, KnownFacts DEF RestoreUpdateZone, Held
  <2>5. \A x \in DOMAIN zones' : zones'[x].status = "interlocked" => Recorded(x)'
    BY <1>2, <2>3, <2>4 DEF RestoreUpdateZone, RecordInv, InterlocksRecorded
  <2>6. QED
    BY <2>1, <2>2, <2>3, <2>5, NoCopyHeld, RecordStep
<1>3. ASSUME NEW i \in local[w].logs, RestoreCloseLog(w, i) PROVE RecordInv'
  <2>1. /\ Stepped(w) /\ OthersWait(w) /\ zones' = zones /\ ~Issuing(w)
        /\ \A j \in DOMAIN interlocks :
             j \in DOMAIN interlocks' /\ interlocks'[j].affected = interlocks[j].affected
    BY <1>3, RestoreCloseLogStep DEF RestoreCloseLog, Issuing, Stepped, StoreGrows
  <2>2. pc'[w] \notin {"update_state", "update_ratio"}
    BY <1>3, KnownFacts
    DEF RestoreCloseLog, GoAfterWrite, FinishAfterWrite, Finish, GiveUp, Go, TypeOK
  <2>3. \A x : Recorded(x) => Recorded(x)'
    BY <2>1, RecordedKept
  <2>4. \A x \in DOMAIN zones' : zones'[x].status = "interlocked" => Recorded(x)'
    BY <2>1, <2>3 DEF RecordInv, InterlocksRecorded
  <2>5. QED
    BY <2>1, <2>2, <2>3, <2>4, NoCopyHeld, RecordStep
<1>4. QED
  BY <1>1, <1>2, <1>3

\* Every step keeps the record complete.
LEMMA RecordsStep ==
  ASSUME SaveMayFail = FALSE, IInv, RecordInv, [Next]_vars
  PROVE  RecordInv'
<1>1. ASSUME NEW w \in Workers, Continue(w) PROVE RecordInv'
  BY <1>1, IngestRecords, IssueRecords, RestoreRecords DEF Continue
<1>2. CASE Tick
  <2>1. \A z : Recorded(z)' <=> Recorded(z)
    <3>1. /\ UNCHANGED <<interlocks, pc>>
          /\ \A w \in Workers : local'[w].affected = local[w].affected /\ local'[w].op = local[w].op
      BY <1>2, TickStep DEF Tick
    <3>2. \A w \in Workers : Issuing(w)' <=> Issuing(w)
      BY <3>1 DEF Issuing
    <3>3. QED
      BY <3>1, <3>2 DEF Recorded
  <2>2. InterlocksRecorded'
    BY <1>2, <2>1, TickStep DEF RecordInv, InterlocksRecorded
  <2>3. ASSUME NEW w \in Workers, local'[w].cleanZone # Nothing,
               local'[w].cleanZone.status = "interlocked"
        PROVE  Recorded(local[w].zone)'
    <3>1. Recorded(local[w].zone) /\ local'[w].zone = local[w].zone
      BY <1>2, <2>3, TickStep DEF RecordInv
    <3>2. PICK z : z = local[w].zone
      OBVIOUS
    <3>3. Recorded(z)'
      BY <2>1, <3>1, <3>2
    <3>4. QED
      BY <3>1, <3>2, <3>3 DEF Recorded
  <2>4. QED
    BY <2>2, <2>3 DEF RecordInv
<1>3. CASE UNCHANGED vars
  BY <1>3 DEF vars, RecordInv, InterlocksRecorded, Recorded, Issuing
<1>4. QED
  BY <1>1, <1>2, <1>3, StartRecords DEF Next

\* With saves that succeed, however many requests overlap: a zone that is
\* interlocked is named by an interlock log, or by the one that an issue in
\* progress is about to create.  IssueForArea lists a zone before it writes it,
\* and everyone else writes back as interlocked only what was.
THEOREM RacesOnRecord == ASSUME SaveMayFail = FALSE PROVE Spec => []InterlocksRecorded
<1>1. Init => RecordInv
  <2> SUFFICES ASSUME Init PROVE RecordInv
    OBVIOUS
  <2>1. InterlocksRecorded
    BY DEF Init, InterlocksRecorded, NewCleanZone, CleanZone
  <2>2. QED
    BY <2>1, FreshValues DEF Init, RecordInv
<1>2. IInv /\ RecordInv /\ [Next]_vars => RecordInv'
  BY RecordsStep
<1>3. RecordInv => InterlocksRecorded
  BY DEF RecordInv
<1>4. QED
  BY InvariantInit, InvariantStep, <1>1, <1>2, <1>3, PTL DEF Spec

-----------------------------------------------------------------------------
(* Requests served one after the other: statuses and logs. *)

\* What LegalTransitions and LogsFollowZones say of one step.
StatusesMoveLegally ==
  \A z \in DOMAIN zones : CanTransition(zones[z].status, zones'[z].status)

LogsFollow ==
  /\ \A i \in DOMAIN interlocks' \ DOMAIN interlocks :
       \A z \in interlocks'[i].affected : zones[z].status = "interlocked"
  /\ \A i \in DOMAIN interlocks :
       interlocks[i].open /\ ~interlocks'[i].open =>
         \A z \in A!ZonesOfArea(interlocks[i].area) : zones[z].status # "interlocked"

\* What the lemma of every action of a request says.
Served(w) == Follows(pc[w], local[w])' /\ StatusesMoveLegally /\ LogsFollow

\* A call that writes no clean zone and no log.
LEMMA NothingMoved ==
  ASSUME UNCHANGED <<zones, interlocks>>
  PROVE  StatusesMoveLegally /\ LogsFollow
  BY DEF StatusesMoveLegally, LogsFollow, CanTransition

\* CleanZones().Update with a successor of the stored status.
LEMMA LegalWrite ==
  ASSUME NEW z \in DOMAIN zones, NEW y, zones' = [zones EXCEPT ![z] = y],
         CanTransition(zones[z].status, y.status), interlocks' = interlocks
  PROVE  StatusesMoveLegally /\ LogsFollow
<1>1. LogsFollow
  BY DEF LogsFollow
<1>2. ASSUME NEW x \in DOMAIN zones PROVE CanTransition(zones[x].status, zones'[x].status)
  <2>1. CASE x = z
    BY <2>1
  <2>2. CASE x # z
    BY <2>2 DEF CanTransition
  <2>3. QED
    BY <2>1, <2>2
<1>3. QED
  BY <1>1, <1>2 DEF StatusesMoveLegally

\* A worker that is between two requests has nothing to follow.
LEMMA RestFollows ==
  ASSUME IInv, NEW w \in Workers, Finish(w) \/ GiveUp(w)
  PROVE  Follows(pc[w], local[w])'
<1>1. pc'[w] \in {"idle", "next_candidate"}
  BY KnownFacts DEF Finish, GiveUp, Go, TypeOK
<1>2. QED
  BY <1>1 DEF Follows

\* A sample asks for a successor of the status it read.
LEMMA IngestedIsLegal ==
  ASSUME NEW s \in ZoneStatuses, NEW r \in Nat
  PROVE  CanTransition(s, IngestedStatus(s, r))
<1>1. IngestedStatus(s, r) = s
      \/ IngestedStatus(s, r) = TargetStatusFromRatio(s, r, OverLimitRatio)
  BY DEF IngestedStatus
<1>2. CanTransition(s, TargetStatusFromRatio(s, r, OverLimitRatio))
  BY DEF TargetStatusFromRatio, CanTransition
<1>3. QED
  BY <1>1, <1>2 DEF CanTransition

\* Process, call by call.
LEMMA IngestServed ==
  ASSUME IInv, NEW w \in Workers, Follows(pc[w], local[w]),
         \/ IngestGetZone(w)
         \/ IngestUpdateState(w)
         \/ IngestReloadZone(w)
         \/ IngestUpdateRatio(w)
  PROVE  Served(w)
<1> DEFINE known == local[w]
           read  == zones[known.zone]
<1>1. /\ known.zone \in DOMAIN zones /\ known.ratio \in Nat
      /\ read \in CleanZoneRecord /\ read.status \in ZoneStatuses
  BY KnownFacts, StoredFacts
  DEF IngestGetZone, IngestUpdateState, IngestReloadZone, IngestUpdateRatio, Held, LocalOK, Steps
<1>2. CASE IngestGetZone(w)
  <2> DEFINE target == IngestedStatus(read.status, known.ratio)
             y      == SetStatus(read, target)
  <2>1. UNCHANGED <<zones, interlocks>>
    BY <1>2 DEF IngestGetZone
  <2>2. target \in ZoneStatuses /\ CanTransition(read.status, target)
    BY <1>1, IngestedStatusTyped, IngestedIsLegal
  <2> HIDE DEF target
  <2>3. y.status = target
    BY <1>1, <2>2, SetStatusFacts
  <2> HIDE DEF y
  <2>4. CASE pc'[w] \in {"list_area", "reload_zone"}
    BY <2>1, <2>4, NothingMoved DEF Served, Follows
  <2>5. CASE Go(w, "update_state", [known EXCEPT !.cleanZone = y])
    <3>1. /\ pc'[w] = "update_state" /\ local'[w].zone = known.zone
          /\ local'[w].cleanZone = y
      BY <2>5, KnownFacts DEF Go, TypeOK, Fields
    <3>2. Follows(pc[w], local[w])'
      BY <2>1, <2>2, <2>3, <3>1 DEF Follows
    <3>3. QED
      BY <2>1, <3>2, NothingMoved DEF Served
  <2>6. QED
    BY <1>2, <2>4, <2>5, KnownFacts DEF IngestGetZone, Go, TypeOK, target, y
<1>3. CASE IngestUpdateState(w)
  <2>1. StatusesMoveLegally /\ LogsFollow
    BY <1>1, <1>3, LegalWrite DEF IngestUpdateState, Follows
  <2>2. pc'[w] \in {"reload_zone", "idle"}
    BY <1>3, KnownFacts DEF IngestUpdateState, GoAfterWrite, GiveUp, Go, TypeOK
  <2>3. QED
    BY <2>1, <2>2 DEF Served, Follows
<1>4. CASE IngestReloadZone(w)
  <2> DEFINE y == [read EXCEPT !.lastParticleRatio = known.ratio]
  <2>1. UNCHANGED <<zones, interlocks>>
    BY <1>4 DEF IngestReloadZone
  <2>2. y.status = read.status
    BY <1>1 DEF CleanZoneRecord
  <2>3. CASE Finish(w)
    BY <2>1, <2>3, RestFollows, NothingMoved DEF Served
  <2>4. CASE Go(w, "update_ratio", [known EXCEPT !.cleanZone = y])
    <3> HIDE DEF y
    <3>1. /\ pc'[w] = "update_ratio" /\ local'[w].zone = known.zone
          /\ local'[w].cleanZone = y
      BY <2>4, KnownFacts DEF Go, TypeOK, Fields
    <3>2. Follows(pc[w], local[w])'
      BY <2>1, <2>2, <3>1 DEF Follows
    <3>3. QED
      BY <2>1, <3>2, NothingMoved DEF Served
  <2>5. QED
    BY <1>4, <2>3, <2>4 DEF IngestReloadZone
<1>5. CASE IngestUpdateRatio(w)
  <2>1. CanTransition(read.status, known.cleanZone.status)
    BY <1>5 DEF IngestUpdateRatio, Follows, CanTransition
  <2>2. StatusesMoveLegally /\ LogsFollow
    BY <1>1, <1>5, <2>1, LegalWrite DEF IngestUpdateRatio
  <2>3. QED
    BY <1>5, <2>2, RestFollows DEF IngestUpdateRatio, FinishAfterWrite, Served
<1>6. QED
  BY <1>2, <1>3, <1>4, <1>5

\* IssueForArea up to its last clean zone.
LEMMA IssueAreaServed ==
  ASSUME IInv, NEW w \in Workers, Follows(pc[w], local[w]),
         \/ IssueListArea(w)
         \/ \E z \in DOMAIN local[w].areaZones : IssueUpdateZone(w, z)
  PROVE  Served(w)
<1> DEFINE known == local[w]
<1>1. CASE IssueListArea(w)
  <2> DEFINE area    == A!ZonesOfArea(AreaOf[known.zone])
             pending == {z \in area : zones[z].status # "interlocked"}
             copies  == [z \in pending |-> SetStatus(zones[z], "interlocked")]
             next    == [known EXCEPT !.affected = area, !.areaZones = copies]
  <2>1. UNCHANGED <<zones, interlocks>>
    BY <1>1 DEF IssueListArea
  <2>2. \A z \in pending : CanTransition(zones[z].status, "interlocked")
    BY <1>1 DEF IssueListArea
  <2>3. area \subseteq DOMAIN zones /\ pending \subseteq area
    BY DEF A!ZonesOfArea
  <2>4. \A z \in area \ pending : zones[z].status = "interlocked"
    OBVIOUS
  <2>5. Go(w, IF pending = {} THEN "list_command_zones" ELSE "update_area", next)
    BY <1>1 DEF IssueListArea
  <2> HIDE DEF area, pending
  <2>c. copies = [z \in pending |-> SetStatus(zones[z], "interlocked")]
    OBVIOUS
  <2> HIDE DEF copies
  <2>6. /\ DOMAIN copies = pending
        /\ \A z \in pending : copies[z] \in CleanZoneRecord /\ copies[z].status = "interlocked"
    BY <2>3, <2>c, PendingFacts, KnownFacts
  <2>7. /\ pc'[w] = IF pending = {} THEN "list_command_zones" ELSE "update_area"
        /\ local'[w].affected = area /\ local'[w].areaZones = copies
    BY <2>5, KnownFacts DEF Go, TypeOK, Fields
  <2>8. Follows(pc[w], local[w])'
    BY <2>1, <2>2, <2>4, <2>6, <2>7 DEF Follows
  <2>9. QED
    BY <2>1, <2>8, NothingMoved DEF Served
<1>2. ASSUME NEW z \in DOMAIN known.areaZones, IssueUpdateZone(w, z) PROVE Served(w)
  <2> DEFINE left == Drop(known.areaZones, z)
             y    == known.areaZones[z]
  <2>1. /\ z \in DOMAIN zones /\ pc[w] = "update_area"
        /\ zones' = [zones EXCEPT ![z] = y] /\ interlocks' = interlocks
    BY <1>2, KnownFacts DEF IssueUpdateZone, LocalOK
  <2>2. y.status = "interlocked" /\ CanTransition(zones[z].status, "interlocked")
    BY <2>1 DEF Follows
  <2>3. StatusesMoveLegally /\ LogsFollow
    BY <2>1, <2>2, LegalWrite
  <2>4. /\ DOMAIN left = DOMAIN known.areaZones \ {z}
        /\ \A x \in DOMAIN left : left[x] = known.areaZones[x]
    BY DEF Drop, Restrict
  <2>5. CASE GiveUp(w)
    BY <2>3, <2>5, RestFollows DEF Served
  <2>6. CASE Go(w, IF DOMAIN left = {} THEN "list_command_zones" ELSE "update_area",
                [known EXCEPT !.areaZones = left])
    <3> HIDE DEF left
    <3>1. /\ pc'[w] = IF DOMAIN left = {} THEN "list_command_zones" ELSE "update_area"
          /\ local'[w].affected = known.affected /\ local'[w].areaZones = left
      BY <2>6, KnownFacts DEF Go, TypeOK, Fields
    <3>2. \A x \in DOMAIN left : /\ zones'[x].status = zones[x].status
                                 /\ left[x].status = "interlocked"
                                 /\ CanTransition(zones[x].status, "interlocked")
      BY <2>1, <2>4, KnownFacts DEF Follows, LocalOK
    <3>3. \A x \in known.affected \ DOMAIN left : zones'[x].status = "interlocked"
      BY <2>1, <2>2, <2>4, KnownFacts DEF Follows, LocalOK
    <3>4. Follows(pc[w], local[w])'
      BY <3>1, <3>2, <3>3 DEF Follows
    <3>5. QED
      BY <2>3, <3>4 DEF Served
  <2>7. QED
    BY <1>2, <2>5, <2>6 DEF IssueUpdateZone, GoAfterWrite
<1>3. QED
  BY <1>1, <1>2

\* Interlock commands, or an edit: no clean zone moves.
LEMMA CommandsServed ==
  ASSUME IInv, NEW w \in Workers, Follows(pc[w], local[w]),
         \/ IssueListCommandZones(w)
         \/ IssueListMonitors(w)
         \/ \E m \in DOMAIN local[w].equipment : UpdateMonitor(w, m)
  PROVE  Served(w)
<1> DEFINE known == local[w]
<1>1. UNCHANGED <<zones, interlocks>>
  BY DEF IssueListCommandZones, IssueListMonitors, UpdateMonitor
<1>2. CASE Finish(w) \/ GiveUp(w)
  BY <1>1, <1>2, RestFollows, NothingMoved DEF Served
<1>3. CASE ~(Finish(w) \/ GiveUp(w))
  <2>1. \/ pc[w] \in {"list_command_zones", "list_monitors"}
        \/ pc[w] = "update_monitors" /\ known.op # "edit"
    BY <1>3 DEF IssueListCommandZones, IssueListMonitors, UpdateMonitor, FinishAfterWrite
  <2>2. /\ pc'[w] \in {"list_monitors", "create_log", "update_monitors"}
        /\ local'[w].affected = known.affected
    <3>1. CASE IssueListCommandZones(w) \/ IssueListMonitors(w)
      BY <3>1, KnownFacts DEF IssueListCommandZones, IssueListMonitors, Go, TypeOK, Fields
    <3>2. ASSUME NEW m \in DOMAIN known.equipment, UpdateMonitor(w, m)
          PROVE  /\ pc'[w] \in {"create_log", "update_monitors"}
                 /\ local'[w].affected = known.affected
      BY <1>3, <3>2, KnownFacts
      DEF UpdateMonitor, FinishAfterWrite, GoAfterWrite, Go, TypeOK, Fields
    <3>3. QED
      BY <3>1, <3>2
  <2>3. \A z \in known.affected : zones[z].status = "interlocked"
    BY <2>1 DEF Follows
  <2>4. Follows(pc[w], local[w])'
    BY <1>1, <2>2, <2>3 DEF Follows
  <2>5. QED
    BY <1>1, <2>4, NothingMoved DEF Served
<1>4. QED
  BY <1>2, <1>3

\* The log is created once its zones are interlocked.
LEMMA CreateLogServed ==
  ASSUME IInv, NEW w \in Workers, Follows(pc[w], local[w]), IssueCreateLog(w)
  PROVE  Served(w)
<1> DEFINE known == local[w]
<1>1. zones' = zones /\ pc[w] = "create_log" /\ interlocks' = Append(interlocks, Log(w))
  BY DEF IssueCreateLog, Log
<1>2. StatusesMoveLegally
  BY <1>1 DEF StatusesMoveLegally, CanTransition
<1>3. /\ DOMAIN interlocks' = DOMAIN interlocks \cup {Len(interlocks) + 1}
      /\ interlocks'[Len(interlocks) + 1] = Log(w)
      /\ \A i \in DOMAIN interlocks : interlocks'[i] = interlocks[i]
  <2>1. Log(w) \in InterlockRecord
    <3>1. known.zone \in Zones /\ known.affected \subseteq Zones
      BY <1>1, KnownFacts DEF StoreOK, LocalOK, Held, Steps
    <3>2. known.ratio \in Nat
      BY KnownFacts DEF LocalOK
    <3>3. QED
      BY <3>1, <3>2, NewLogFacts DEF Log
  <2>2. UNCHANGED <<zones, monitors>>
    BY DEF IssueCreateLog
  <2>3. QED
    BY <1>1, <2>1, <2>2, LogAdded, KnownFacts
<1>4. \A z \in Log(w).affected : zones[z].status = "interlocked"
  BY <1>1 DEF Follows, Log, NewInterlockLog
<1>5. LogsFollow
  BY <1>3, <1>4 DEF LogsFollow
<1>6. pc'[w] \in {"reload_zone", "idle", "next_candidate"}
  BY KnownFacts
  DEF IssueCreateLog, GoAfterWrite, FinishAfterWrite, Finish, GiveUp, Go, TypeOK
<1>7. QED
  BY <1>2, <1>5, <1>6 DEF Served, Follows

\* Restore up to its last clean zone.
LEMMA RestoreAreaServed ==
  ASSUME IInv, NEW w \in Workers, Follows(pc[w], local[w]),
         \/ RestoreListArea(w)
         \/ \E z \in DOMAIN local[w].areaZones : RestoreUpdateZone(w, z)
  PROVE  Served(w)
<1> DEFINE known == local[w]
<1>1. CASE RestoreListArea(w)
  <2> DEFINE area    == A!ZonesOfArea(AreaOf[known.zone])
             pending == {z \in area : /\ zones[z].status # RestoreStatus
                                      /\ CanTransition(zones[z].status, RestoreStatus)}
             copies  == [z \in pending |-> SetStatus(zones[z], RestoreStatus)]
             next    == [known EXCEPT !.areaZones = copies]
  <2>1. UNCHANGED <<zones, interlocks>>
    BY <1>1 DEF RestoreListArea
  <2>2. \A z \in pending : CanTransition(zones[z].status, RestoreStatus)
    OBVIOUS
  <2>3. area \subseteq DOMAIN zones /\ pending \subseteq area
    BY DEF A!ZonesOfArea
  <2>4. \A z \in area \ pending : zones[z].status # "interlocked"
    BY DEF CanTransition, NextStatuses, RestoreStatus
  <2>5. Go(w, IF pending = {} THEN "list_logs" ELSE "update_restored", next)
    BY <1>1 DEF RestoreListArea
  <2>6. area = A!ZonesOfArea(AreaOf[known.zone])
    OBVIOUS
  <2> HIDE DEF area, pending
  <2>c. copies = [z \in pending |-> SetStatus(zones[z], "restored")]
    BY DEF RestoreStatus
  <2> HIDE DEF copies
  <2>7. /\ DOMAIN copies = pending
        /\ \A z \in pending : copies[z] \in CleanZoneRecord /\ copies[z].status = "restored"
    BY <2>3, <2>c, PendingFacts, KnownFacts
  <2>8. /\ pc'[w] = IF pending = {} THEN "list_logs" ELSE "update_restored"
        /\ local'[w].zone = known.zone /\ local'[w].areaZones = copies
    BY <2>5, KnownFacts DEF Go, TypeOK, Fields
  <2>9. A!ZonesOfArea(AreaOf[local[w].zone])' = area
    BY <2>1, <2>6, <2>8 DEF A!ZonesOfArea
  <2>10. Follows(pc[w], local[w])'
    BY <2>1, <2>2, <2>4, <2>7, <2>8, <2>9 DEF Follows, RestoreStatus
  <2>11. QED
    BY <2>1, <2>10, NothingMoved DEF Served
<1>2. ASSUME NEW z \in DOMAIN known.areaZones, RestoreUpdateZone(w, z) PROVE Served(w)
  <2> DEFINE area == A!ZonesOfArea(AreaOf[known.zone])
             left == Drop(known.areaZones, z)
             y    == known.areaZones[z]
  <2>1. /\ z \in DOMAIN zones /\ pc[w] = "update_restored"
        /\ zones' = [zones EXCEPT ![z] = y] /\ interlocks' = interlocks
    BY <1>2, KnownFacts DEF RestoreUpdateZone, LocalOK
  <2>2. y.status = "restored" /\ CanTransition(zones[z].status, "restored")
    BY <2>1 DEF Follows, RestoreStatus
  <2>3. StatusesMoveLegally /\ LogsFollow
    BY <2>1, <2>2, LegalWrite
  <2>4. /\ DOMAIN left = DOMAIN known.areaZones \ {z}
        /\ \A x \in DOMAIN left : left[x] = known.areaZones[x]
    BY DEF Drop, Restrict
  <2>5. CASE GiveUp(w)
    BY <2>3, <2>5, RestFollows DEF Served
  <2>6. CASE Go(w, IF DOMAIN left = {} THEN "list_logs" ELSE "update_restored",
                [known EXCEPT !.areaZones = left])
    <3> HIDE DEF left
    <3>1. /\ pc'[w] = IF DOMAIN left = {} THEN "list_logs" ELSE "update_restored"
          /\ local'[w].zone = known.zone /\ local'[w].areaZones = left
      BY <2>6, KnownFacts DEF Go, TypeOK, Fields
    <3>2. A!ZonesOfArea(AreaOf[local[w].zone])' = area
      BY <2>1, <3>1 DEF A!ZonesOfArea
    <3>3. \A x \in DOMAIN left : /\ zones'[x].status = zones[x].status
                                 /\ left[x].status = RestoreStatus
                                 /\ CanTransition(zones[x].status, RestoreStatus)
      BY <2>1, <2>4, KnownFacts DEF Follows, LocalOK
    <3>4. \A x \in area : x \in DOMAIN zones
      BY DEF A!ZonesOfArea
    <3>5. \A x \in area \ DOMAIN left : zones'[x].status # "interlocked"
      BY <2>1, <2>2, <2>4, <3>4 DEF Follows
    <3> HIDE DEF area
    <3>6. Follows(pc[w], local[w])'
      BY <3>1, <3>2, <3>3, <3>5 DEF Follows
    <3>7. QED
      BY <2>3, <3>6 DEF Served
  <2>7. QED
    BY <1>2, <2>5, <2>6 DEF RestoreUpdateZone, GoAfterWrite
<1>3. QED
  BY <1>1, <1>2

\* Restore closes the logs of an area that has no interlocked zone any more.
LEMMA RestoreLogsServed ==
  ASSUME IInv, NEW w \in Workers, Follows(pc[w], local[w]),
         \/ RestoreListLogs(w)
         \/ \E i \in local[w].logs : RestoreCloseLog(w, i)
  PROVE  Served(w)
<1> DEFINE known == local[w]
           area  == A!ZonesOfArea(AreaOf[known.zone])
<1>1. zones' = zones /\ pc[w] \in {"list_logs", "close_logs"}
  BY DEF RestoreListLogs, RestoreCloseLog
<1>2. \A z \in area : zones[z].status # "interlocked"
  BY <1>1 DEF Follows
<1>3. CASE RestoreListLogs(w)
  <2> DEFINE mine == {i \in DOMAIN interlocks :
                        interlocks[i].open /\ interlocks[i].area = AreaOf[known.zone]}
  <2>1. UNCHANGED <<zones, interlocks>>
    BY <1>3 DEF RestoreListLogs
  <2>2. CASE Finish(w)
    BY <2>1, <2>2, RestFollows, NothingMoved DEF Served
  <2>3. CASE Go(w, "close_logs", [known EXCEPT !.logs = mine])
    <3>1. \A i \in mine : interlocks[i].area = AreaOf[known.zone]
      OBVIOUS
    <3> HIDE DEF mine
    <3>2. pc'[w] = "close_logs" /\ local'[w].zone = known.zone /\ local'[w].logs = mine
      BY <2>3, KnownFacts DEF Go, TypeOK, Fields
    <3>3. A!ZonesOfArea(AreaOf[local[w].zone])' = area
      BY <1>1, <3>2 DEF A!ZonesOfArea
    <3> HIDE DEF area
    <3>4. Follows(pc[w], local[w])'
      BY <1>2, <2>1, <3>1, <3>2, <3>3 DEF Follows
    <3>5. QED
      BY <2>1, <3>4, NothingMoved DEF Served
  <2>4. QED
    BY <1>3, <2>2, <2>3 DEF RestoreListLogs
<1>4. ASSUME NEW i \in known.logs, RestoreCloseLog(w, i) PROVE Served(w)
  <2> DEFINE left == known.logs \ {i}
  <2>1. /\ i \in DOMAIN interlocks /\ interlocks[i].area = AreaOf[known.zone]
        /\ pc[w] = "close_logs" /\ known.operator \in Operators \cup {Nobody}
    BY <1>4, KnownFacts DEF RestoreCloseLog, LocalOK, Follows
  <2>2. /\ DOMAIN interlocks' = DOMAIN interlocks
        /\ \A j \in DOMAIN interlocks : j # i => interlocks'[j] = interlocks[j]
        /\ \A j \in DOMAIN interlocks : interlocks'[j].area = interlocks[j].area
    <3>1. /\ interlocks' = [interlocks EXCEPT ![i] = Closed(@, known.operator)]
          /\ UNCHANGED <<zones, monitors>>
      BY <1>4 DEF RestoreCloseLog
    <3>2. QED
      BY <2>1, <3>1, LogClosed, KnownFacts
  <2>3. StatusesMoveLegally
    BY <1>1 DEF StatusesMoveLegally, CanTransition
  <2>4. LogsFollow
    BY <1>2, <2>1, <2>2 DEF LogsFollow
  <2>5. CASE Finish(w) \/ GiveUp(w)
    BY <2>3, <2>4, <2>5, RestFollows DEF Served
  <2>6. CASE Go(w, "close_logs", [known EXCEPT !.logs = left])
    <3>1. pc'[w] = "close_logs" /\ local'[w].zone = known.zone /\ local'[w].logs = left
      BY <2>6, KnownFacts DEF Go, TypeOK, Fields
    <3>2. A!ZonesOfArea(AreaOf[local[w].zone])' = area
      BY <1>1, <3>1 DEF A!ZonesOfArea
    <3>3. \A j \in left : interlocks'[j].area = AreaOf[known.zone]
      BY <2>1, <2>2, KnownFacts DEF Follows, LocalOK
    <3> HIDE DEF area
    <3>4. Follows(pc[w], local[w])'
      BY <1>1, <1>2, <3>1, <3>2, <3>3 DEF Follows
    <3>5. QED
      BY <2>3, <2>4, <3>4 DEF Served
  <2>7. QED
    BY <1>4, <2>5, <2>6 DEF RestoreCloseLog, GoAfterWrite, FinishAfterWrite
<1>5. QED
  BY <1>3, <1>4

\* While only worker w is in the middle of a request, the others have nothing
\* to follow.
LEMMA SerialStep ==
  ASSUME NEW w \in Workers, OthersWait(w), \A v \in Workers \ {w} : AtRest(v),
         Follows(pc[w], local[w])'
  PROVE  SerialInv'
<1>1. \A v \in Workers \ {w} : pc'[v] \in {"idle", "next_candidate"}
  BY DEF OthersWait, AtRest
<1>2. \A v \in Workers \ {w} : Follows(pc[v], local[v])'
  BY <1>1 DEF Follows
<1>3. \A v, x \in Workers : v = x \/ AtRest(v)' \/ AtRest(x)'
  BY <1>1 DEF AtRest
<1>4. QED
  BY <1>2, <1>3 DEF SerialInv

\* A request starts when no other is under way.
LEMMA StartServed ==
  ASSUME OneAtATime = TRUE, IInv, SerialInv, NEW w \in Workers, Start(w)
  PROVE  SerialInv' /\ StatusesMoveLegally /\ LogsFollow
<1>1. ASSUME \/ \E z \in Zones : CreateCleanZone(w, z)
             \/ \E m \in Monitors, due \in Times : CreateMonitorZone(w, m, due)
      PROVE  SerialInv' /\ StatusesMoveLegally /\ LogsFollow
  <2>1. UNCHANGED <<pc, local>> /\ \A v \in Workers : AtRest(v)
    BY <1>1 DEF CreateCleanZone, CreateMonitorZone, Starts, MayStart, AtRest
  <2>2. interlocks' = interlocks /\ \A z \in DOMAIN zones : zones'[z] = zones[z]
    BY <1>1
    DEF CreateCleanZone, CreateMonitorZone, A!CreateCleanZone, A!CreateMonitorZone
  <2>3. OthersWait(w)
    BY <2>1, KnownFacts DEF OthersWait, TypeOK
  <2>4. Follows(pc[w], local[w])'
    BY <2>1 DEF Follows, AtRest
  <2>5. StatusesMoveLegally /\ LogsFollow
    BY <2>2 DEF StatusesMoveLegally, LogsFollow, CanTransition
  <2>6. QED
    BY <2>1, <2>3, <2>4, <2>5, SerialStep
<1>2. ASSUME NEW to, NEW known, Go(w, to, known), UNCHANGED <<zones, interlocks>>, Stepped(w),
             \/ to \in {"get_zone", "list_area", "list_restore", "next_candidate"}
             \/ to = "update_monitors" /\ known.op = "edit",
             MayStart(w)
      PROVE  SerialInv' /\ StatusesMoveLegally /\ LogsFollow
  <2>1. pc'[w] = to /\ local'[w] = known
    BY <1>2, KnownFacts DEF Go, TypeOK
  <2>2. Follows(pc[w], local[w])'
    BY <1>2, <2>1 DEF Follows
  <2>3. QED
    BY <1>2, <2>2, SerialStep, NothingMoved DEF MayStart, Stepped
<1>3. ASSUME NEW m, NEW edited, EditMonitor(w, m, edited), Stepped(w), MayStart(w)
      PROVE  SerialInv' /\ StatusesMoveLegally /\ LogsFollow
  <2> DEFINE known == [Fresh EXCEPT !.op = "edit", !.equipment = [x \in {m} |-> edited]]
  <2>1. known.op = "edit"
    BY FreshFields DEF Fields
  <2>2. Go(w, "update_monitors", known) /\ UNCHANGED <<zones, interlocks>>
    BY <1>3 DEF EditMonitor
  <2> HIDE DEF known
  <2>3. QED
    BY <1>2, <1>3, <2>1, <2>2
<1>4. ASSUME NEW m \in Monitors, NEW b \in BOOLEAN, SetMaintenance(w, m, b)
      PROVE  SerialInv' /\ StatusesMoveLegally /\ LogsFollow
  BY <1>3, <1>4, StartSteps DEF SetMaintenance, Starts
<1>5. ASSUME NEW m \in Monitors, NEW due \in Times, SetCalibration(w, m, due)
      PROVE  SerialInv' /\ StatusesMoveLegally /\ LogsFollow
  BY <1>3, <1>5, StartSteps DEF SetCalibration, Starts
<1>6. ASSUME NEW m \in Monitors, NEW r \in Ratios, NEW at \in Times,
             IngestGetMonitor(w, m, r, at)
      PROVE  SerialInv' /\ StatusesMoveLegally /\ LogsFollow
  BY <1>2, <1>6, StartSteps DEF IngestGetMonitor, Starts
<1>7. ASSUME NEW z \in Zones, NEW r \in Ratios, IssueStart(w, z, r)
      PROVE  SerialInv' /\ StatusesMoveLegally /\ LogsFollow
  BY <1>2, <1>7, StartSteps DEF IssueStart, Starts
<1>8. ASSUME NEW z \in Zones, NEW operator \in Operators, RestoreGetZone(w, z, operator)
      PROVE  SerialInv' /\ StatusesMoveLegally /\ LogsFollow
  BY <1>2, <1>8, StartSteps DEF RestoreGetZone, Starts
<1>9. ASSUME SweepList(w) PROVE SerialInv' /\ StatusesMoveLegally /\ LogsFollow
  BY <1>2, <1>9, SweepSteps DEF SweepList, Starts
<1>10. ASSUME NEW c \in local[w].queue, SweepNext(w, c)
       PROVE  SerialInv' /\ StatusesMoveLegally /\ LogsFollow
  BY <1>2, <1>10, SweepSteps DEF SweepNext
<1>11. QED
  BY <1>1, <1>4, <1>5, <1>6, <1>7, <1>8, <1>9, <1>10 DEF Start

\* A request goes on while no other is under way.
LEMMA ContinueServed ==
  ASSUME IInv, SerialInv, NEW w \in Workers, Continue(w), OthersWait(w)
  PROVE  SerialInv' /\ StatusesMoveLegally /\ LogsFollow
<1>0. Follows(pc[w], local[w])
  BY DEF SerialInv
<1>1. CASE SweepEnd(w)
  <2>1. UNCHANGED <<zones, interlocks>> /\ pc'[w] = "idle"
    BY <1>1, KnownFacts DEF SweepEnd, GiveUp, Go, TypeOK
  <2>2. \A v \in Workers : AtRest(v) => AtRest(v)'
    BY <2>1 DEF AtRest, OthersWait
  <2>3. ASSUME NEW v \in Workers PROVE Follows(pc[v], local[v])'
    <3>1. CASE v = w
      BY <2>1, <3>1 DEF Follows
    <3>2. CASE v # w
      <4>1. pc'[v] = pc[v] /\ local'[v] = local[v]
        BY <3>2 DEF OthersWait
      <4>2. Follows(pc[v], local[v])
        BY DEF SerialInv
      <4>3. QED
        BY <2>1, <4>1, <4>2 DEF Follows, A!ZonesOfArea
    <3>3. QED
      BY <3>1, <3>2
  <2>4. QED
    BY <2>1, <2>2, <2>3, NothingMoved DEF SerialInv
<1>2. CASE ~SweepEnd(w)
  <2>1. Served(w)
    BY <1>0, <1>2, IngestServed, IssueAreaServed, CommandsServed, CreateLogServed,
       RestoreAreaServed, RestoreLogsServed DEF Continue
  <2>2. ~AtRest(w)
    BY <1>2 DEF Continue, AtRest, IngestGetZone, IngestUpdateState, IngestReloadZone,
       IngestUpdateRatio, IssueListArea, IssueUpdateZone, IssueListCommandZones,
       IssueListMonitors, UpdateMonitor, IssueCreateLog, RestoreListArea, RestoreUpdateZone,
       RestoreListLogs, RestoreCloseLog
  <2>3. \A v \in Workers \ {w} : AtRest(v)
    BY <2>2 DEF SerialInv
  <2>4. QED
    BY <2>1, <2>3, SerialStep DEF Served
<1>3. QED
  BY <1>1, <1>2

\* Every step moves statuses legally, and logs after them.
LEMMA SerialSteps ==
  ASSUME OneAtATime = TRUE, IInv, SerialInv, [Next]_vars
  PROVE  SerialInv' /\ StatusesMoveLegally /\ LogsFollow
<1>1. ASSUME NEW w \in Workers, Start(w) \/ Continue(w)
      PROVE  SerialInv' /\ StatusesMoveLegally /\ LogsFollow
  <2>1. CASE Start(w)
    BY <2>1, StartServed
  <2>2. CASE Continue(w)
    <3>1. OthersWait(w)
      BY <2>2, ContinueSteps DEF Stepped
    <3>2. QED
      BY <2>2, <3>1, ContinueServed
  <2>3. QED
    BY <1>1, <2>1, <2>2
<1>2. CASE Tick
  <2>1. \A w \in Workers : AtRest(w) /\ pc'[w] = pc[w]
    BY <1>2 DEF Tick
  <2>2. SerialInv'
    BY <2>1 DEF SerialInv, AtRest, Follows
  <2>3. StatusesMoveLegally /\ LogsFollow
    BY <1>2, TickStep DEF Tick, StatusesMoveLegally, LogsFollow, CanTransition
  <2>4. QED
    BY <2>2, <2>3
<1>3. CASE UNCHANGED vars
  <2>1. UNCHANGED <<zones, interlocks, pc, local>>
    BY <1>3 DEF vars
  <2>2. \A w \in Workers : Follows(pc[w], local[w])'
    BY <2>1 DEF SerialInv, Follows, A!ZonesOfArea
  <2>3. QED
    BY <2>1, <2>2, NothingMoved DEF SerialInv, AtRest
<1>4. QED
  BY <1>1, <1>2, <1>3 DEF Next

\* What LegalTransitions and LogsFollowZones say, for all steps.
LEMMA ServedInOrder ==
  ASSUME OneAtATime = TRUE
  PROVE  Spec => /\ [][StatusesMoveLegally]_vars
                 /\ [][LogsFollow]_vars
<1>1. Init => SerialInv
  <2>1. ASSUME Init, NEW w \in Workers PROVE pc[w] = "idle"
    BY <2>1 DEF Init
  <2>2. QED
    BY <2>1 DEF SerialInv, AtRest, Follows
<1>2. IInv /\ SerialInv /\ [Next]_vars => SerialInv' /\ StatusesMoveLegally /\ LogsFollow
  BY SerialSteps
<1>3. QED
  BY InvariantInit, InvariantStep, <1>1, <1>2, PTL DEF Spec

\* Served one after the other, requests move every stored status along the
\* edges of zoneStateMachine, whatever save fails and however a request gives
\* up half way: what is written follows from what was read, and nothing has
\* changed in between.
THEOREM SerialTransitionsLegal == ASSUME OneAtATime = TRUE PROVE Spec => LegalTransitions
  BY ServedInOrder, PTL DEF LegalTransitions, StatusesMoveLegally

\* Served one after the other, requests create a log only once all the zones it
\* lists are interlocked, and close one only once no zone of its area is,
\* whatever save fails (IssueForArea and Restore).
THEOREM SerialLogsFollow == ASSUME OneAtATime = TRUE PROVE Spec => LogsFollowZones
  BY ServedInOrder, PTL DEF LogsFollowZones, LogsFollow
=============================================================================
