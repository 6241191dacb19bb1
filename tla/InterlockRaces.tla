--------------------------- MODULE InterlockRaces ----------------------------
(***************************************************************************)
(* The requests of module AreaInterlock split into their store calls.      *)
(*                                                                         *)
(* store.mu makes one repository call atomic; a service reads records,     *)
(* decides, and writes the whole records back with later calls.  Each      *)
(* worker (an HTTP request or the sweeper goroutine) is therefore a        *)
(* process that keeps the records it read in `local' and whose `pc' names  *)
(* the store call it makes next.  A step ends right before a store call.   *)
(*                                                                         *)
(* SaveMayFail lets a write report the error of its snapshot: the record   *)
(* is already changed in memory and the handler returns on the spot.       *)
(* OneAtATime keeps two requests from overlapping.                         *)
(***************************************************************************)
EXTENDS CleanroomTopology, Functions

CONSTANTS
  Requesters,    \* workers that take requests, one request each at a time
  Sweeper,       \* the worker that runs the sweeps; it may take requests too
  Operations,    \* kinds of request the environment sends
  SaveMayFail,   \* may a write fail after it changed the memory?
  OneAtATime     \* are requests served one after the other?

ASSUME RaceAssumption ==
  /\ Operations \subseteq {"ingest", "issue", "restore", "sweep", "maintenance",
                           "calibration", "create"}
  /\ SaveMayFail \in BOOLEAN
  /\ OneAtATime \in BOOLEAN

Workers == Requesters \cup {Sweeper}

VARIABLES
  zones, monitors, interlocks, \* the store, as in AreaInterlock
  pc,     \* the store call each worker makes next
  local   \* what each worker has read and decided so far

vars == <<zones, monitors, interlocks, pc, local>>

\* What AreaInterlock says of a store reads the same here: the sweeper's list
\* is the queue of the sweeping worker.
A == INSTANCE AreaInterlock WITH sweep <- local[Sweeper].queue

Nothing == <<>>

\* What a worker knows before it has read anything.
Fresh ==
  [op        |-> "none",   \* the kind of request
   zone      |-> Nothing,  \* the clean zone it is about
   ratio     |-> 0,
   cleanZone |-> Nothing,  \* the clean-zone record it read
   areaZones |-> Nothing,  \* records still to be written, by zone
   affected  |-> {},       \* zones the interlock log will list
   inArea    |-> {},       \* zones whose monitors take the commands
   equipment |-> Nothing,  \* monitor records still to be written
   logs      |-> {},       \* logs still to be closed
   operator  |-> Nobody,   \* who confirms the restore
   before    |-> Nothing,  \* history: the logs as they were when it began
   queue     |-> {}]       \* sweep candidates still to be interlocked

Steps == {"idle", "get_zone", "update_state", "list_area", "update_area",
          "list_command_zones", "list_monitors", "update_monitors", "create_log",
          "reload_zone", "update_ratio", "list_restore", "update_restored",
          "list_logs", "close_logs", "next_candidate"}

\* Worker w has listed the area and will create a log.
Issuing(w) ==
  \/ pc[w] \in {"update_area", "list_command_zones", "list_monitors", "create_log"}
  \/ pc[w] = "update_monitors" /\ local[w].op # "edit"

-----------------------------------------------------------------------------
\* A sweeper between two candidates is at rest too.
AtRest(w) == pc[w] \in {"idle", "next_candidate"}

MayStart(w) == OneAtATime => \A v \in Workers \ {w} : AtRest(v)

\* Worker w goes on to pc `to' knowing `known'.
Go(w, to, known) ==
  /\ pc' = [pc EXCEPT ![w] = to]
  /\ local' = [local EXCEPT ![w] = known]

\* The worker has answered: only the sweeper keeps what it listed, and it
\* drops even that when it gives up on an error.
Finish(w) ==
  IF local[w].op = "sweep"
  THEN Go(w, "next_candidate", [Fresh EXCEPT !.op = "sweep", !.queue = local[w].queue])
  ELSE Go(w, "idle", Fresh)

GiveUp(w) == Go(w, "idle", Fresh)

\* The worker goes on, or its write reported an error and it gives up.
GoAfterWrite(w, to, known) ==
  \/ Go(w, to, known)
  \/ SaveMayFail /\ GiveUp(w)

FinishAfterWrite(w) ==
  \/ Finish(w)
  \/ SaveMayFail /\ GiveUp(w)

Drop(f, x) == Restrict(f, DOMAIN f \ {x})

Starts(w, op) ==
  /\ pc[w] = "idle"
  /\ op \in Operations
  /\ IF op = "sweep" THEN w = Sweeper ELSE w \in Requesters
  /\ MayStart(w)

-----------------------------------------------------------------------------
\* Requests made of a single store call.

CreateCleanZone(w, z) ==
  /\ Starts(w, "create")
  /\ UNCHANGED <<pc, local>>
  /\ A!CreateCleanZone(z)

CreateMonitorZone(w, m, due) ==
  /\ Starts(w, "create")
  /\ UNCHANGED <<pc, local>>
  /\ A!CreateMonitorZone(m, due)

-----------------------------------------------------------------------------
\* SetMaintenance and SetCalibration: MonitorZones().Get, then Update.

EditMonitor(w, m, edited) ==
  /\ Go(w, "update_monitors",
        [Fresh EXCEPT !.op = "edit", !.equipment = [x \in {m} |-> edited]])
  /\ UNCHANGED <<zones, monitors, interlocks>>

SetMaintenance(w, m, inMaintenance) ==
  /\ Starts(w, "maintenance")
  /\ m \in DOMAIN monitors
  /\ EditMonitor(w, m, [monitors[m] EXCEPT !.inMaintenance = inMaintenance])

SetCalibration(w, m, due) ==
  /\ Starts(w, "calibration")
  /\ m \in DOMAIN monitors
  /\ EditMonitor(w, m, [monitors[m] EXCEPT !.calibrationDue = due])

-----------------------------------------------------------------------------
\* Process.

\* MonitorZones().Get; an invalid sample changes no clean zone.
IngestGetMonitor(w, m, ratio, at) ==
  /\ Starts(w, "ingest")
  /\ m \in DOMAIN monitors
  /\ EvaluateValidity(monitors[m], at)
  /\ Go(w, "get_zone",
        [Fresh EXCEPT !.op = "ingest", !.zone = ZoneOf[m], !.ratio = ratio])
  /\ UNCHANGED <<zones, monitors, interlocks>>

\* CleanZones().Get, then applyStateAndInterlock decides on that copy.
IngestGetZone(w) ==
  /\ pc[w] = "get_zone"
  /\ LET known  == local[w]
         read   == zones[known.zone]
         target == IngestedStatus(read.status, known.ratio)
         issues == known.ratio >= OverLimitRatio /\ read.status # "interlocked"
     IN  /\ \/ /\ issues
               /\ Go(w, "list_area", known)
            \/ /\ ~issues
               /\ target = read.status
               /\ Go(w, "reload_zone", known)
            \/ /\ ~issues
               /\ target # read.status
               /\ Go(w, "update_state",
                     [known EXCEPT !.cleanZone = SetStatus(read, target)])
         /\ UNCHANGED <<zones, monitors, interlocks>>

IngestUpdateState(w) ==
  /\ pc[w] = "update_state"
  /\ zones' = [zones EXCEPT ![local[w].zone] = local[w].cleanZone]
  /\ GoAfterWrite(w, "reload_zone",
                  [local[w] EXCEPT !.cleanZone = Nothing])
  /\ UNCHANGED <<monitors, interlocks>>

\* Mutant of IngestReloadZone: the zone is not read, a blank record is written.
IngestSkipReload(w) ==
  /\ pc[w] = "reload_zone"
  /\ Go(w, "update_ratio", local[w])
  /\ UNCHANGED <<zones, monitors, interlocks>>

\* The zone is read again; its last ratio is written only if it differs.
IngestReloadZone(w) ==
  /\ pc[w] = "reload_zone"
  /\ LET read == zones[local[w].zone]
     IN  /\ \/ /\ read.lastParticleRatio = local[w].ratio
               /\ Finish(w)
            \/ /\ read.lastParticleRatio # local[w].ratio
               /\ Go(w, "update_ratio",
                     [local[w] EXCEPT !.cleanZone =
                        [read EXCEPT !.lastParticleRatio = local[w].ratio]])
         /\ UNCHANGED <<zones, monitors, interlocks>>

IngestUpdateRatio(w) ==
  /\ pc[w] = "update_ratio"
  /\ zones' = [zones EXCEPT ![local[w].zone] = local[w].cleanZone]
  /\ FinishAfterWrite(w)
  /\ UNCHANGED <<monitors, interlocks>>

-----------------------------------------------------------------------------
\* IssueForArea, called by Process, by the manual request and by the sweeper.

\* The manual request; its CleanZones().Get only yields the immutable area.
IssueStart(w, z, ratio) ==
  /\ Starts(w, "issue")
  /\ z \in DOMAIN zones
  /\ Go(w, "list_area",
        [Fresh EXCEPT !.op = "issue", !.zone = z,
                      !.ratio = IF ratio < One THEN 150 ELSE ratio])
  /\ UNCHANGED <<zones, monitors, interlocks>>

\* Mutant of IssueListArea: only the trigger zone is listed as affected.
IssueListTrigger(w) ==
  /\ pc[w] = "list_area"
  /\ Len(interlocks) + Cardinality({v \in Workers : Issuing(v)}) < MaxLogs
  /\ LET pending == {z \in A!ZonesOfArea(AreaOf[local[w].zone]) :
                       zones[z].status # "interlocked"}
     IN  Go(w, IF pending = {} THEN "list_command_zones" ELSE "update_area",
            [local[w] EXCEPT
               !.affected = {local[w].zone},
               !.areaZones = [z \in pending |-> SetStatus(zones[z], "interlocked")]])
  /\ UNCHANGED <<zones, monitors, interlocks>>

\* ListByPhysicalArea: zones already interlocked are listed as affected, the
\* others are about to be written, as read now.
IssueListArea(w) ==
  /\ pc[w] = "list_area"
  /\ LET area    == A!ZonesOfArea(AreaOf[local[w].zone])
         pending == {z \in area : zones[z].status # "interlocked"}
         known   == [local[w] EXCEPT
                       !.affected = area,
                       !.areaZones = [z \in pending |-> SetStatus(zones[z], "interlocked")]]
     IN  /\ Len(interlocks) + Cardinality({v \in Workers : Issuing(v)}) < MaxLogs
         /\ \A z \in pending : CanTransition(zones[z].status, "interlocked")
         /\ Go(w, IF pending = {} THEN "list_command_zones" ELSE "update_area", known)
         /\ UNCHANGED <<zones, monitors, interlocks>>

\* One zone of the list; the code goes by ascending id, any order goes here.
IssueUpdateZone(w, z) ==
  /\ pc[w] = "update_area"
  /\ LET left == Drop(local[w].areaZones, z)
     IN  /\ z \in DOMAIN local[w].areaZones
         /\ zones' = [zones EXCEPT ![z] = local[w].areaZones[z]]
         /\ GoAfterWrite(w, IF DOMAIN left = {} THEN "list_command_zones" ELSE "update_area",
                         [local[w] EXCEPT !.areaZones = left])
         /\ UNCHANGED <<monitors, interlocks>>

\* applyInterlockCommands: the zones of the area, then all monitor zones.
IssueListCommandZones(w) ==
  /\ pc[w] = "list_command_zones"
  /\ Go(w, "list_monitors",
        [local[w] EXCEPT !.inArea = A!ZonesOfArea(AreaOf[local[w].zone])])
  /\ UNCHANGED <<zones, monitors, interlocks>>

\* Mutant of IssueListMonitors: only monitors of the trigger zone.
IssueListOwnMonitors(w) ==
  /\ pc[w] = "list_monitors"
  /\ LET level == InterlockLevelForRatio(local[w].ratio)
         mine  == {m \in DOMAIN monitors : ZoneOf[m] = local[w].zone}
     IN  Go(w, IF mine = {} THEN "create_log" ELSE "update_monitors",
            [local[w] EXCEPT
               !.inArea = {},
               !.equipment = [m \in mine |-> RaiseVentilation(monitors[m], level)]])
  /\ UNCHANGED <<zones, monitors, interlocks>>

IssueListMonitors(w) ==
  /\ pc[w] = "list_monitors"
  /\ LET level == InterlockLevelForRatio(local[w].ratio)
         mine  == {m \in DOMAIN monitors : ZoneOf[m] \in local[w].inArea}
     IN  /\ Go(w, IF mine = {} THEN "create_log" ELSE "update_monitors",
               [local[w] EXCEPT
                  !.inArea = {},
                  !.equipment = [m \in mine |-> RaiseVentilation(monitors[m], level)]])
         /\ UNCHANGED <<zones, monitors, interlocks>>

\* MonitorZones().Update, of an interlock command or of an edit.
UpdateMonitor(w, m) ==
  /\ pc[w] = "update_monitors"
  /\ LET left == Drop(local[w].equipment, m)
     IN  /\ m \in DOMAIN local[w].equipment
         /\ monitors' = [monitors EXCEPT ![m] = local[w].equipment[m]]
         /\ IF local[w].op = "edit" THEN FinishAfterWrite(w)
            ELSE GoAfterWrite(w, IF DOMAIN left = {} THEN "create_log" ELSE "update_monitors",
                              [local[w] EXCEPT !.equipment = left])
         /\ UNCHANGED <<zones, interlocks>>

\* NewID and Interlocks().Create.
IssueCreateLog(w) ==
  /\ pc[w] = "create_log"
  /\ LET known == local[w]
         log   == NewInterlockLog(known.zone, known.affected, known.ratio)
     IN  /\ interlocks' = Append(interlocks, log)
         /\ \/ /\ known.op = "ingest"
               /\ GoAfterWrite(w, "reload_zone",
                               [known EXCEPT !.affected = {}])
            \/ known.op # "ingest" /\ FinishAfterWrite(w)
         /\ UNCHANGED <<zones, monitors>>

-----------------------------------------------------------------------------
\* Restore.

\* CleanZones().Get and the state check; nothing is done when it refuses.
RestoreGetZone(w, z, operator) ==
  /\ Starts(w, "restore")
  /\ z \in DOMAIN zones
  /\ CanTransition(zones[z].status, RestoreStatus)
  /\ Go(w, "list_restore",
        [Fresh EXCEPT !.op = "restore", !.zone = z, !.operator = operator,
                      !.before = interlocks])
  /\ UNCHANGED <<zones, monitors, interlocks>>

\* Mutant of RestoreListArea: zones without an edge to restored go there too.
RestoreListWholeArea(w) ==
  /\ pc[w] = "list_restore"
  /\ LET pending == {z \in A!ZonesOfArea(AreaOf[local[w].zone]) :
                       zones[z].status # RestoreStatus}
     IN  Go(w, IF pending = {} THEN "list_logs" ELSE "update_restored",
            [local[w] EXCEPT !.areaZones =
               [z \in pending |-> SetStatus(zones[z], RestoreStatus)]])
  /\ UNCHANGED <<zones, monitors, interlocks>>

\* ListByPhysicalArea: restored zones are left alone, and so are those that
\* have no edge to restored.
RestoreListArea(w) ==
  /\ pc[w] = "list_restore"
  /\ LET pending == {z \in A!ZonesOfArea(AreaOf[local[w].zone]) :
                       /\ zones[z].status # RestoreStatus
                       /\ CanTransition(zones[z].status, RestoreStatus)}
     IN  /\ Go(w, IF pending = {} THEN "list_logs" ELSE "update_restored",
               [local[w] EXCEPT !.areaZones =
                  [z \in pending |-> SetStatus(zones[z], RestoreStatus)]])
         /\ UNCHANGED <<zones, monitors, interlocks>>

\* Mutant of RestoreUpdateZone: on an error the logs are closed all the same.
RestoreUpdateZoneOrCloseLogs(w, z) ==
  /\ pc[w] = "update_restored"
  /\ z \in DOMAIN local[w].areaZones
  /\ zones' = [zones EXCEPT ![z] = local[w].areaZones[z]]
  /\ LET left == Drop(local[w].areaZones, z)
     IN  \/ Go(w, IF DOMAIN left = {} THEN "list_logs" ELSE "update_restored",
               [local[w] EXCEPT !.areaZones = left])
         \/ SaveMayFail /\ Go(w, "list_logs", [local[w] EXCEPT !.areaZones = Nothing])
  /\ UNCHANGED <<monitors, interlocks>>

RestoreUpdateZone(w, z) ==
  /\ pc[w] = "update_restored"
  /\ LET left == Drop(local[w].areaZones, z)
     IN  /\ z \in DOMAIN local[w].areaZones
         /\ zones' = [zones EXCEPT ![z] = local[w].areaZones[z]]
         /\ GoAfterWrite(w, IF DOMAIN left = {} THEN "list_logs" ELSE "update_restored",
                         [local[w] EXCEPT !.areaZones = left])
         /\ UNCHANGED <<monitors, interlocks>>

\* Mutant of RestoreListLogs: closed logs are closed once more.
RestoreListAllLogs(w) ==
  /\ pc[w] = "list_logs"
  /\ LET mine == {i \in DOMAIN interlocks : interlocks[i].area = AreaOf[local[w].zone]}
     IN  IF mine = {} THEN Finish(w) ELSE Go(w, "close_logs", [local[w] EXCEPT !.logs = mine])
  /\ UNCHANGED <<zones, monitors, interlocks>>

\* Mutant of RestoreListLogs: only logs triggered by this very zone.
RestoreListOwnLogs(w) ==
  /\ pc[w] = "list_logs"
  /\ LET mine == {i \in DOMAIN interlocks :
                    interlocks[i].open /\ interlocks[i].zone = local[w].zone}
     IN  IF mine = {} THEN Finish(w) ELSE Go(w, "close_logs", [local[w] EXCEPT !.logs = mine])
  /\ UNCHANGED <<zones, monitors, interlocks>>

RestoreListLogs(w) ==
  /\ pc[w] = "list_logs"
  /\ LET mine == {i \in DOMAIN interlocks :
                    interlocks[i].open /\ interlocks[i].area = AreaOf[local[w].zone]}
     IN  /\ IF mine = {} THEN Finish(w)
            ELSE Go(w, "close_logs", [local[w] EXCEPT !.logs = mine])
         /\ UNCHANGED <<zones, monitors, interlocks>>

\* Interlocks().Update of the copy listed while the log was open.  Close sets
\* all its fields that ever change, so whatever an overlapping restore wrote
\* since is overwritten.
RestoreCloseLog(w, i) ==
  /\ pc[w] = "close_logs"
  /\ LET left == local[w].logs \ {i}
     IN  /\ i \in local[w].logs
         /\ interlocks' = [interlocks EXCEPT ![i] = Closed(@, local[w].operator)]
         /\ IF left = {} THEN FinishAfterWrite(w)
            ELSE GoAfterWrite(w, "close_logs", [local[w] EXCEPT !.logs = left])
         /\ UNCHANGED <<zones, monitors>>

-----------------------------------------------------------------------------
\* The zone sweeper.

SweepList(w) ==
  /\ Starts(w, "sweep")
  /\ A!AutoInterlockCandidates # {}
  /\ Go(w, "next_candidate",
        [Fresh EXCEPT !.op = "sweep", !.queue = A!AutoInterlockCandidates])
  /\ UNCHANGED <<zones, monitors, interlocks>>

SweepNext(w, c) ==
  /\ pc[w] = "next_candidate"
  /\ c \in local[w].queue
  /\ MayStart(w)
  /\ Go(w, "list_area",
        [local[w] EXCEPT !.zone = c.zone, !.ratio = c.ratio, !.queue = @ \ {c}])
  /\ UNCHANGED <<zones, monitors, interlocks>>

SweepEnd(w) ==
  /\ pc[w] = "next_candidate"
  /\ local[w].queue = {}
  /\ GiveUp(w)
  /\ UNCHANGED <<zones, monitors, interlocks>>

-----------------------------------------------------------------------------
\* The clock: a record read but not yet written back grows older with it.
\* Those in areaZones do not: they get their StatusSince when they are
\* written.
Older(z) == [z EXCEPT !.timeInStatus = MinInt(AutoInterlockAfter, @ + 1)]

Tick ==
  /\ OneAtATime => \A w \in Workers : AtRest(w)
  /\ zones' = [z \in DOMAIN zones |-> Older(zones[z])]
  /\ local' = [w \in Workers |->
                 [local[w] EXCEPT
                    !.cleanZone = IF @ = Nothing THEN @ ELSE Older(@)]]
  /\ UNCHANGED <<monitors, interlocks, pc>>

-----------------------------------------------------------------------------
Init ==
  /\ zones = [z \in SeededZones |-> NewCleanZone]
  /\ monitors \in [SeededMonitors -> {NewMonitorZone(due) : due \in Times \ {NoDue}}]
  /\ interlocks = <<>>
  /\ pc = [w \in Workers |-> "idle"]
  /\ local = [w \in Workers |-> Fresh]

Start(w) ==
  \/ \E z \in Zones : CreateCleanZone(w, z)
  \/ \E m \in Monitors, due \in Times : CreateMonitorZone(w, m, due)
  \/ \E m \in Monitors, b \in BOOLEAN : SetMaintenance(w, m, b)
  \/ \E m \in Monitors, due \in Times : SetCalibration(w, m, due)
  \/ \E m \in Monitors, ratio \in Ratios, at \in Times :
       IngestGetMonitor(w, m, ratio, at)
  \/ \E z \in Zones, ratio \in Ratios : IssueStart(w, z, ratio)
  \/ \E z \in Zones, operator \in Operators : RestoreGetZone(w, z, operator)
  \/ SweepList(w)
  \/ \E c \in local[w].queue : SweepNext(w, c)

Continue(w) ==
  \/ IngestGetZone(w)
  \/ IngestUpdateState(w)
  \/ IngestReloadZone(w)
  \/ IngestUpdateRatio(w)
  \/ IssueListArea(w)
  \/ \E z \in DOMAIN local[w].areaZones : IssueUpdateZone(w, z)
  \/ IssueListCommandZones(w)
  \/ IssueListMonitors(w)
  \/ \E m \in DOMAIN local[w].equipment : UpdateMonitor(w, m)
  \/ IssueCreateLog(w)
  \/ RestoreListArea(w)
  \/ \E z \in DOMAIN local[w].areaZones : RestoreUpdateZone(w, z)
  \/ RestoreListLogs(w)
  \/ \E i \in local[w].logs : RestoreCloseLog(w, i)
  \/ SweepEnd(w)

Next == Tick \/ \E w \in Workers : Start(w) \/ Continue(w)

Spec == Init /\ [][Next]_vars

-----------------------------------------------------------------------------
\* The records a worker holds are records of the store.
LocalOK(known) ==
  /\ DOMAIN known = DOMAIN Fresh
  /\ known.op \in {"none", "edit", "ingest", "issue", "restore", "sweep"}
  /\ known.zone = Nothing \/ known.zone \in Zones
  /\ known.ratio \in Nat
  /\ known.cleanZone = Nothing \/ known.cleanZone \in CleanZoneRecord
  /\ DOMAIN known.areaZones \subseteq DOMAIN zones
  /\ \A z \in DOMAIN known.areaZones : known.areaZones[z] \in CleanZoneRecord
  /\ known.affected \cup known.inArea \subseteq DOMAIN zones
  /\ DOMAIN known.equipment \subseteq DOMAIN monitors
  /\ \A m \in DOMAIN known.equipment : known.equipment[m] \in MonitorRecord
  /\ known.logs \subseteq DOMAIN interlocks
  /\ known.operator \in Operators \cup {Nobody}
  /\ known.before \in Seq(InterlockRecord)
  /\ known.queue \subseteq SweepCandidate

TypeOK ==
  /\ DOMAIN zones \subseteq Zones
  /\ zones \in [DOMAIN zones -> CleanZoneRecord]
  /\ DOMAIN monitors \subseteq Monitors
  /\ monitors \in [DOMAIN monitors -> MonitorRecord]
  /\ interlocks \in Seq(InterlockRecord)
  /\ pc \in [Workers -> Steps]
  /\ DOMAIN local = Workers
  /\ \A w \in Workers : LocalOK(local[w])

\* However requests overlap, no zone is stored as over_limit, not even by a
\* whole record written back late.
NeverOverLimit == A!NeverOverLimit

\* A log names zone z, or will: the issue in progress has listed it.
Recorded(z) ==
  \/ \E i \in DOMAIN interlocks : z \in interlocks[i].affected
  \/ \E w \in Workers : Issuing(w) /\ z \in local[w].affected

\* A zone that is interlocked is named by an interlock log, or by the one an
\* issue in progress is about to create: no zone is ventilated off the record.
InterlocksRecorded ==
  \A z \in DOMAIN zones : zones[z].status = "interlocked" => Recorded(z)

\* The inductive invariants of InterlockRacesProofs.  What a worker at pc `step'
\* holds is as good as what is stored: it is about a stored zone, and a record
\* it will write is not over_limit, and interlocked only on behalf of a log.
Held(step, known) ==
  /\ \/ step \in Steps \ {"idle", "next_candidate", "update_monitors"}
     \/ step = "update_monitors" /\ known.op # "edit"
     => known.zone \in DOMAIN zones
  /\ known.op = "edit" => step = "update_monitors"
  /\ step \in {"update_state", "update_ratio"} <=> known.cleanZone # Nothing
  /\ known.cleanZone # Nothing => known.cleanZone.status # "over_limit"
  /\ \A z \in DOMAIN known.areaZones :
       /\ known.areaZones[z].status # "over_limit"
       /\ known.areaZones[z].status = "interlocked" =>
            step = "update_area" /\ z \in known.affected
  /\ \A c \in known.queue : c.zone \in DOMAIN zones

IInv ==
  /\ TypeOK
  /\ NeverOverLimit
  /\ \A m \in DOMAIN monitors : ZoneOf[m] \in DOMAIN zones
  /\ \A w \in Workers : Held(pc[w], local[w])

RecordInv ==
  /\ InterlocksRecorded
  /\ \A w \in Workers :
       /\ local[w].cleanZone # Nothing
       /\ local[w].cleanZone.status = "interlocked"
       => Recorded(local[w].zone)

\* What a restore at pc `step' knows of the logs: since it began they have
\* neither changed their area nor been opened again, and among those still to
\* be closed are all the open ones that it saw, and none it saw closed.
RestoreHeld(step, known) ==
  /\ step \in {"list_restore", "update_restored", "list_logs", "close_logs"} <=>
       known.op = "restore"
  /\ known.op = "restore" => known.operator \in Operators
  /\ \A i \in DOMAIN known.before :
       /\ i \in DOMAIN interlocks
       /\ interlocks[i].area = known.before[i].area
       /\ interlocks[i].open => known.before[i].open
  /\ step = "close_logs" =>
       /\ \A i \in known.logs :
            /\ interlocks[i].area = AreaOf[known.zone]
            /\ i \in DOMAIN known.before => known.before[i].open
       /\ \A i \in DOMAIN known.before :
            interlocks[i].open /\ interlocks[i].area = AreaOf[known.zone] => i \in known.logs

RestoreInv == \A w \in Workers : RestoreHeld(pc[w], local[w])

\* With OneAtATime, what a worker at pc `step' is about to do follows from what
\* is stored: a status it writes is a successor of the stored one, zones it has
\* written stay as written until their log is created or closed.
Follows(step, known) ==
  /\ step = "update_state" =>
       CanTransition(zones[known.zone].status, known.cleanZone.status)
  /\ step = "update_ratio" => known.cleanZone.status = zones[known.zone].status
  /\ step = "update_area" =>
       /\ \A z \in DOMAIN known.areaZones :
            /\ known.areaZones[z].status = "interlocked"
            /\ CanTransition(zones[z].status, "interlocked")
       /\ \A z \in known.affected \ DOMAIN known.areaZones : zones[z].status = "interlocked"
  /\ \/ step \in {"list_command_zones", "list_monitors", "create_log"}
     \/ step = "update_monitors" /\ known.op # "edit"
     => \A z \in known.affected : zones[z].status = "interlocked"
  /\ step = "update_restored" =>
       /\ \A z \in DOMAIN known.areaZones :
            /\ known.areaZones[z].status = RestoreStatus
            /\ CanTransition(zones[z].status, RestoreStatus)
       /\ \A z \in A!ZonesOfArea(AreaOf[known.zone]) \ DOMAIN known.areaZones :
            zones[z].status # "interlocked"
  /\ step \in {"list_logs", "close_logs"} =>
       \A z \in A!ZonesOfArea(AreaOf[known.zone]) : zones[z].status # "interlocked"
  /\ step = "close_logs" =>
       \A i \in known.logs : interlocks[i].area = AreaOf[known.zone]

SerialInv ==
  /\ \A v, w \in Workers : v = w \/ AtRest(v) \/ AtRest(w)
  /\ \A w \in Workers : Follows(pc[w], local[w])

\* With OneAtATime and saves that succeed, each area that no request is working
\* on has an open log exactly when it has an interlocked zone.
WorkingOn(w, a) ==
  /\ Issuing(w) \/ pc[w] \in {"update_restored", "list_logs", "close_logs"}
  /\ AreaOf[local[w].zone] = a

Agrees(a) == A!HasOpenLog(a) <=> \E z \in A!ZonesOfArea(a) : zones[z].status = "interlocked"

\* What the request of a worker at pc `step' will make of its area.
InItsArea(step, known) ==
  /\ step = "update_state" =>
       /\ known.cleanZone.status # "interlocked"
       /\ zones[known.zone].status # "interlocked"
  /\ \/ step \in {"update_area", "list_command_zones", "list_monitors", "create_log"}
     \/ step = "update_monitors" /\ known.op # "edit"
     => known.zone \in known.affected
  /\ step \in {"update_area", "update_restored"} =>
       \A z \in DOMAIN known.areaZones : AreaOf[z] = AreaOf[known.zone]
  /\ step = "close_logs" =>
       \A i \in DOMAIN interlocks :
         interlocks[i].open /\ interlocks[i].area = AreaOf[known.zone] => i \in known.logs

AgreeInv ==
  /\ \A a \in Areas : Agrees(a) \/ \E w \in Workers : WorkingOn(w, a)
  /\ \A w \in Workers : InItsArea(pc[w], local[w])

\* The stored status of a zone moves along the edges of zoneStateMachine
\* only; in particular interlocked goes to nothing but restored.
LegalTransitions ==
  [][\A z \in DOMAIN zones :
       CanTransition(zones[z].status, zones'[z].status)]_vars

\* The record follows the zones, even when saves fail half way: a log is
\* created only once all the zones it lists are interlocked, and closed only
\* once no zone of its area is (IssueForArea and Restore write the clean zones
\* first and give up on the first error).
LogsFollowZones ==
  [][/\ \A i \in DOMAIN interlocks' \ DOMAIN interlocks :
          \A z \in interlocks'[i].affected : zones[z].status = "interlocked"
     /\ \A i \in DOMAIN interlocks :
          interlocks[i].open /\ ~interlocks'[i].open =>
            \A z \in A!ZonesOfArea(interlocks[i].area) :
              zones[z].status # "interlocked"]_vars

\* A log is stored once and for all, but for its restore: that is written only
\* on behalf of a restore of its area that began while the log was open, and
\* names its operator.  Two restores that overlap may both sign a log, the
\* later one over the other; a restore that begins afterwards is accepted as
\* well (a restored zone may be restored) but must leave the names, notes and
\* times of closed logs alone, even when saves fail.
SignedWhileOpen ==
  [][\A i \in DOMAIN interlocks :
       /\ i \in DOMAIN interlocks'
       /\ interlocks'[i] # interlocks[i] =>
            \E w \in Workers :
              /\ local[w].op = "restore"
              /\ AreaOf[local[w].zone] = interlocks[i].area
              /\ i \in DOMAIN local[w].before => local[w].before[i].open
              /\ interlocks'[i] = Closed(interlocks[i], local[w].operator)]_vars

\* What Restore promises, whatever overlaps with it, as long as saves succeed:
\* when it is answered, each log of the area that was open when it began is
\* closed, whichever zone had triggered it.
RestoreClosesLogs ==
  [][\A w \in Workers :
       local[w].op = "restore" /\ local'[w].op # "restore" =>
         \A i \in DOMAIN local[w].before :
           /\ local[w].before[i].open
           /\ local[w].before[i].area = AreaOf[local[w].zone]
           => ~interlocks'[i].open]_vars
=============================================================================
