-------------------------- MODULE SerialRefinement ---------------------------
(***************************************************************************)
(* Requests that do not overlap are atomic.  With OneAtATime, module       *)
(* InterlockRaces implements AreaInterlock: the store as it was when every *)
(* worker was last at rest behaves as if each request were one step.       *)
(***************************************************************************)
EXTENDS InterlockRaces

VARIABLE committed \* the store when all workers were last at rest

Resting == \A w \in Workers : AtRest(w)

Store ==
  [zones |-> zones, monitors |-> monitors, interlocks |-> interlocks,
   sweep |-> local[Sweeper].queue]

SerialInit == Init /\ committed = Store

SerialNext ==
  /\ Next
  /\ committed' = IF Resting' THEN Store' ELSE committed

SerialSpec == SerialInit /\ [][SerialNext]_<<vars, committed>>

Atomic == INSTANCE AreaInterlock WITH
  zones <- committed.zones, monitors <- committed.monitors,
  interlocks <- committed.interlocks, sweep <- committed.sweep

\* The store calls of a request, in the order the services make them, add up
\* to one step of AreaInterlock for that request, whatever the request reads
\* and however many records it writes.
ImplementsAreaInterlock == Atomic!Spec

-----------------------------------------------------------------------------
\* The inductive invariant of SerialProofs: what the request under way has
\* been asked, and how much of its answer is stored already.

Stored(someZones, someMonitors, someInterlocks) ==
  zones = someZones /\ monitors = someMonitors /\ interlocks = someInterlocks

NothingWritten == Stored(committed.zones, committed.monitors, committed.interlocks)

\* A table on its way from `before' to `after', with `left' still to be written.
PartWritten(before, after, left) ==
  [x \in DOMAIN before |-> IF x \in left THEN before[x] ELSE after[x]]

\* The records still to be written are those of `after'.
ToBeWritten(records, after) ==
  \A x \in DOMAIN records : x \in DOMAIN after /\ records[x] = after[x]

ZonesClassified(z, ratio) ==
  [committed.zones EXCEPT ![z] = SetStatus(@, IngestedStatus(@.status, ratio))]

ZonesInterlocked(z) == Atomic!ZonesInterlocked(z)

MonitorsCommanded(z, ratio) ==
  Atomic!MonitorsWithCommands(AreaOf[z], InterlockLevelForRatio(ratio))

LogsWith(z, ratio) == Append(committed.interlocks, Atomic!InterlockLog(z, ratio))

ZonesRestored(z) ==
  Atomic!ZonesWithArea(AreaOf[z], {s \in ZoneStatuses : CanTransition(s, RestoreStatus)},
                       RestoreStatus)

LogsToClose(z) ==
  {i \in DOMAIN committed.interlocks :
     committed.interlocks[i].open /\ committed.interlocks[i].area = AreaOf[z]}

LogsClosed(z, operator) ==
  [i \in DOMAIN committed.interlocks |->
     IF i \in LogsToClose(z)
     THEN Closed(committed.interlocks[i], operator) ELSE committed.interlocks[i]]

\* One monitor zone is written, with its new flag or its new due date.
EditAsked(known) ==
  \E m \in DOMAIN committed.monitors :
    /\ DOMAIN known.equipment = {m}
    /\ \/ \E b \in BOOLEAN :
            known.equipment[m] = [committed.monitors[m] EXCEPT !.inMaintenance = b]
       \/ \E due \in Times :
            known.equipment[m] = [committed.monitors[m] EXCEPT !.calibrationDue = due]

SampleAsked(known) ==
  /\ known.op = "ingest" /\ known.ratio \in Ratios
  /\ \E m \in Monitors, at \in Times :
       Atomic!ValidSample(m, at) /\ known.zone = ZoneOf[m]

OverLimit(known) ==
  known.ratio >= OverLimitRatio /\ ~Atomic!IsInterlocked(known.zone)

Candidate(known) == [zone |-> known.zone, ratio |-> known.ratio]

IssueAsked(known) ==
  /\ known.zone \in DOMAIN committed.zones
  /\ \/ SampleAsked(known) /\ OverLimit(known)
     \/ /\ known.op = "issue"
        /\ \E r \in Ratios : known.ratio = IF r < One THEN 150 ELSE r
     \/ known.op = "sweep" /\ Candidate(known) \in committed.sweep

\* The area may be interlocked, and the log will have room.
AreaListed(known) ==
  /\ Len(committed.interlocks) < MaxLogs
  /\ \A z \in Atomic!ZonesOfArea(AreaOf[known.zone]) :
       CanTransition(committed.zones[z].status, "interlocked")

RestoreAsked(known) ==
  /\ known.op = "restore" /\ known.operator \in Operators
  /\ known.zone \in DOMAIN committed.zones
  /\ CanTransition(committed.zones[known.zone].status, RestoreStatus)

Ingesting(step, known) ==
  /\ step = "get_zone" => NothingWritten /\ SampleAsked(known)
  /\ step = "update_state" =>
       /\ NothingWritten /\ SampleAsked(known) /\ ~OverLimit(known)
       /\ known.cleanZone = ZonesClassified(known.zone, known.ratio)[known.zone]
  /\ step \in {"reload_zone", "update_ratio"} =>
       /\ SampleAsked(known)
       /\ \/ /\ ~OverLimit(known)
             /\ Stored(ZonesClassified(known.zone, known.ratio), committed.monitors,
                       committed.interlocks)
          \/ /\ OverLimit(known) /\ AreaListed(known)
             /\ Stored(ZonesInterlocked(known.zone),
                       MonitorsCommanded(known.zone, known.ratio),
                       LogsWith(known.zone, known.ratio))
  /\ step = "update_ratio" =>
       known.cleanZone = [zones[known.zone] EXCEPT !.lastParticleRatio = known.ratio]

\* Areas are interlocked zones first, then equipment, then the log.
Interlocking(step, known) ==
  LET z     == known.zone
      ratio == known.ratio
      left  == DOMAIN known.areaZones
      mine  == DOMAIN known.equipment
  IN  /\ step = "list_area" => NothingWritten /\ IssueAsked(known)
      /\ \/ step \in {"update_area", "list_command_zones", "list_monitors", "create_log"}
         \/ step = "update_monitors" /\ known.op # "edit"
         => /\ IssueAsked(known) /\ AreaListed(known)
            /\ known.affected = Atomic!ZonesOfArea(AreaOf[z])
      /\ step = "update_area" =>
           /\ Stored(PartWritten(committed.zones, ZonesInterlocked(z), left),
                     committed.monitors, committed.interlocks)
           /\ ToBeWritten(known.areaZones, ZonesInterlocked(z))
      /\ step \in {"list_command_zones", "list_monitors"} =>
           Stored(ZonesInterlocked(z), committed.monitors, committed.interlocks)
      /\ step = "list_monitors" => known.inArea = Atomic!ZonesOfArea(AreaOf[z])
      /\ step = "update_monitors" /\ known.op # "edit" =>
           /\ Stored(ZonesInterlocked(z),
                     PartWritten(committed.monitors, MonitorsCommanded(z, ratio), mine),
                     committed.interlocks)
           /\ ToBeWritten(known.equipment, MonitorsCommanded(z, ratio))
      /\ step = "create_log" =>
           Stored(ZonesInterlocked(z), MonitorsCommanded(z, ratio), committed.interlocks)

\* Areas are restored zones first, then the logs.
Restoring(step, known) ==
  LET z    == known.zone
      left == DOMAIN known.areaZones
  IN  /\ step \in {"list_restore", "update_restored", "list_logs", "close_logs"} =>
           RestoreAsked(known)
      /\ step = "list_restore" => NothingWritten
      /\ step = "update_restored" =>
           /\ Stored(PartWritten(committed.zones, ZonesRestored(z), left),
                     committed.monitors, committed.interlocks)
           /\ ToBeWritten(known.areaZones, ZonesRestored(z))
      /\ step = "list_logs" =>
           Stored(ZonesRestored(z), committed.monitors, committed.interlocks)
      /\ step = "close_logs" =>
           /\ known.logs \subseteq LogsToClose(z)
           /\ Stored(ZonesRestored(z), committed.monitors,
                     PartWritten(committed.interlocks, LogsClosed(z, known.operator), known.logs))

Progress(step, known) ==
  /\ step = "update_monitors" /\ known.op = "edit" => NothingWritten /\ EditAsked(known)
  /\ Ingesting(step, known)
  /\ Interlocking(step, known)
  /\ Restoring(step, known)

\* Only the sweeper has candidates, and all those it has not interlocked yet.
Sweeping(w) ==
  /\ pc[w] = "idle" => local[w] = Fresh
  /\ pc[w] = "next_candidate" => local[w].op = "sweep"
  /\ local[w].op = "sweep" => w = Sweeper
  /\ local[w].op # "sweep" => local[w].queue = {}

QueueInv ==
  LET known == local[Sweeper]
  IN  known.queue = IF ~AtRest(Sweeper) /\ known.op = "sweep"
                    THEN committed.sweep \ {Candidate(known)} ELSE committed.sweep

CommitInv ==
  /\ Atomic!TypeOK
  /\ \A m \in DOMAIN committed.monitors : ZoneOf[m] \in DOMAIN committed.zones
  /\ Resting => committed = Store
  /\ \A w \in Workers : Progress(pc[w], local[w])
  /\ \A w \in Workers : Sweeping(w)
  /\ QueueInv
=============================================================================
