---------------------------- MODULE SerialProofs ----------------------------
(***************************************************************************)
(* What requests served one after the other, whose saves succeed, make     *)
(* certain for every topology and any number of them.                      *)
(*                                                                         *)
(* That an overview agrees with itself: such requests leave an open log    *)
(* exactly where they leave an interlocked zone, and then the answers      *)
(* collected from the store say so.                                        *)
(*                                                                         *)
(* That they are atomic: the store each of them leaves behind is the one   *)
(* AreaInterlock gives it in a single step.                                *)
(***************************************************************************)
EXTENDS Dashboard, SerialRefinement, InterlockRacesProofs, FiniteSetTheorems

-----------------------------------------------------------------------------
(* Logs and zones agree wherever no request is at work. *)

\* What the lemma of every action of a request says.
Fitting(w) ==
  /\ InItsArea(pc[w], local[w])'
  /\ \A a \in Areas : Agrees(a)' \/ WorkingOn(w, a)'

\* All other workers are between two requests.
Alone(w) == \A v \in Workers \ {w} : AtRest(v)

\* What the lemma of every action may use: the areas that do not agree are
\* those the worker is at work on.
LEMMA AgreeFacts ==
  ASSUME AgreeInv, NEW w \in Workers, Alone(w)
  PROVE  /\ \A a \in Areas : Agrees(a) \/ WorkingOn(w, a)
         /\ InItsArea(pc[w], local[w])
<1>1. ASSUME NEW v \in Workers, NEW a, v # w PROVE ~WorkingOn(v, a)
  BY <1>1 DEF Alone, AtRest, WorkingOn, Issuing
<1>2. QED
  BY <1>1 DEF AgreeInv

\* Other workers go on with nothing.
LEMMA AgreeStep ==
  ASSUME NEW w \in Workers, Alone(w), OthersWait(w), Fitting(w)
  PROVE  AgreeInv'
<1>1. \A v \in Workers \ {w} : pc'[v] \in {"idle", "next_candidate"}
  BY DEF OthersWait, Alone, AtRest
<1>2. \A v \in Workers \ {w} : InItsArea(pc[v], local[v])'
  BY <1>1 DEF InItsArea
<1>3. QED
  BY <1>2 DEF AgreeInv, Fitting

\* Zones that are as interlocked as before, and the same logs, agree as before.
LEMMA AgreesKept ==
  ASSUME interlocks' = interlocks, DOMAIN zones \subseteq DOMAIN zones',
         \A z \in DOMAIN zones :
           zones'[z].status = "interlocked" <=> zones[z].status = "interlocked",
         \A z \in DOMAIN zones' \ DOMAIN zones : zones'[z].status # "interlocked"
  PROVE  \A a : Agrees(a)' <=> Agrees(a)
  BY DEF Agrees, A!HasOpenLog, A!ZonesOfArea

\* A worker that is between two requests, or at a read that starts one, is at
\* work on no area.
AtNoArea(step, known) ==
  \/ step \in {"idle", "next_candidate", "get_zone", "list_area", "reload_zone",
               "update_ratio", "list_restore"}
  \/ step = "update_monitors" /\ known.op = "edit"

\* Before and after, the worker is at work on no area.
LEMMA ElsewhereFits ==
  ASSUME AgreeInv, NEW w \in Workers, Alone(w), AtNoArea(pc[w], local[w]) \/ pc[w] = "update_state",
         AtNoArea(pc[w], local[w])', \A a \in Areas : Agrees(a)' <=> Agrees(a)
  PROVE  Fitting(w)
<1>1. \A a : ~WorkingOn(w, a)
  BY DEF AtNoArea, WorkingOn, Issuing
<1>2. InItsArea(pc[w], local[w])'
  BY DEF InItsArea, AtNoArea
<1>3. QED
  BY <1>1, <1>2, AgreeFacts DEF Fitting

\* Answering a request, or giving it up.
LEMMA RestAtNoArea ==
  ASSUME IInv, NEW w \in Workers, Finish(w) \/ GiveUp(w)
  PROVE  AtNoArea(pc[w], local[w])'
  BY KnownFacts DEF Finish, GiveUp, Go, TypeOK, AtNoArea

\* Process interlocks nothing by itself, and never ends an interlock.
LEMMA IngestFits ==
  ASSUME IInv, SerialInv, AgreeInv, NEW w \in Workers, Alone(w),
         \/ IngestGetZone(w)
         \/ IngestUpdateState(w)
         \/ IngestReloadZone(w)
         \/ IngestUpdateRatio(w)
  PROVE  Fitting(w)
<1> DEFINE known == local[w]
           read  == zones[known.zone]
<1>1. /\ known.zone \in DOMAIN zones /\ known.ratio \in Nat
      /\ read \in CleanZoneRecord /\ read.status \in ZoneStatuses \ {"over_limit"}
  BY KnownFacts, StoredFacts
  DEF IngestGetZone, IngestUpdateState, IngestReloadZone, IngestUpdateRatio, Held, LocalOK, Steps
<1>2. Follows(pc[w], local[w])
  BY DEF SerialInv
<1>3. CASE IngestGetZone(w)
  <2> DEFINE target == IngestedStatus(read.status, known.ratio)
             y      == SetStatus(read, target)
  <2>1. UNCHANGED <<zones, interlocks>> /\ pc[w] = "get_zone"
    BY <1>3 DEF IngestGetZone
  <2>2. \A a \in Areas : Agrees(a)' <=> Agrees(a)
    BY <2>1, AgreesKept
  <2>3. CASE Go(w, "list_area", known) \/ Go(w, "reload_zone", known)
    <3>1. pc'[w] \in {"list_area", "reload_zone"}
      BY <2>3, KnownFacts DEF Go, TypeOK
    <3>2. QED
      BY <2>1, <2>2, <3>1, ElsewhereFits DEF AtNoArea
  <2>4. CASE /\ ~(known.ratio >= OverLimitRatio /\ read.status # "interlocked")
             /\ target # read.status
             /\ Go(w, "update_state", [known EXCEPT !.cleanZone = y])
    <3>1. known.ratio < OverLimitRatio \/ read.status = "interlocked"
      BY <1>1, <2>4, ConfigAssumption
    <3>2. target \in ZoneStatuses /\ (target = "interlocked" <=> read.status = "interlocked")
      BY <1>1, <3>1, IngestedStatusFacts
    <3>3. target # "interlocked" /\ read.status # "interlocked"
      BY <2>4, <3>2
    <3>4. y.status = target
      BY <1>1, <3>2, SetStatusFacts
    <3> HIDE DEF target, y
    <3>5. /\ pc'[w] = "update_state" /\ local'[w].zone = known.zone
          /\ local'[w].cleanZone = y
      BY <2>4, KnownFacts DEF Go, TypeOK, Fields
    <3>6. InItsArea(pc[w], local[w])'
      BY <2>1, <3>3, <3>4, <3>5 DEF InItsArea
    <3>7. \A a \in Areas : Agrees(a)
      BY <2>1, AgreeFacts DEF WorkingOn, Issuing
    <3>8. QED
      BY <2>2, <3>6, <3>7 DEF Fitting
  <2>5. QED
    BY <1>3, <2>3, <2>4 DEF IngestGetZone
<1>4. CASE IngestUpdateState(w)
  <2>1. /\ zones' = [zones EXCEPT ![known.zone] = known.cleanZone] /\ interlocks' = interlocks
        /\ pc[w] = "update_state"
    BY <1>4 DEF IngestUpdateState
  <2>2. known.cleanZone.status # "interlocked" /\ read.status # "interlocked"
    BY <2>1, AgreeFacts DEF InItsArea
  <2>3. \A a \in Areas : Agrees(a)' <=> Agrees(a)
    BY <1>1, <2>1, <2>2, AgreesKept
  <2>4. pc'[w] \in {"reload_zone", "idle"}
    BY <1>4, KnownFacts DEF IngestUpdateState, GoAfterWrite, GiveUp, Go, TypeOK
  <2>5. QED
    BY <2>1, <2>3, <2>4, ElsewhereFits DEF AtNoArea
<1>5. CASE IngestReloadZone(w)
  <2>1. UNCHANGED <<zones, interlocks>> /\ pc[w] = "reload_zone"
    BY <1>5 DEF IngestReloadZone
  <2>2. \A a \in Areas : Agrees(a)' <=> Agrees(a)
    BY <2>1, AgreesKept
  <2>3. pc'[w] \in {"update_ratio", "idle", "next_candidate"}
    BY <1>5, KnownFacts DEF IngestReloadZone, Finish, Go, TypeOK
  <2>4. QED
    BY <2>1, <2>2, <2>3, ElsewhereFits DEF AtNoArea
<1>6. CASE IngestUpdateRatio(w)
  <2>1. /\ zones' = [zones EXCEPT ![known.zone] = known.cleanZone] /\ interlocks' = interlocks
        /\ pc[w] = "update_ratio" /\ known.cleanZone.status = read.status
    BY <1>2, <1>6 DEF IngestUpdateRatio, Follows
  <2>2. \A a \in Areas : Agrees(a)' <=> Agrees(a)
    BY <1>1, <2>1, AgreesKept
  <2>3. AtNoArea(pc[w], local[w])'
    BY <1>6, RestAtNoArea DEF IngestUpdateRatio, FinishAfterWrite
  <2>4. QED
    BY <2>1, <2>2, <2>3, ElsewhereFits DEF AtNoArea
<1>7. QED
  BY <1>3, <1>4, <1>5, <1>6

\* A worker that goes on with its area: the other areas agree as before.
LEMMA SameAreaFits ==
  ASSUME AgreeInv, NEW w \in Workers, Alone(w), NEW here, here = AreaOf[local[w].zone],
         pc[w] \in {"list_area", "list_restore"} \/ WorkingOn(w, here),
         WorkingOn(w, here)',
         \A a \in Areas : a # here => (Agrees(a)' <=> Agrees(a)),
         InItsArea(pc[w], local[w])'
  PROVE  Fitting(w)
<1>1. \A a \in Areas : a # here => ~WorkingOn(w, a)
  BY DEF WorkingOn, Issuing
<1>2. QED
  BY <1>1, AgreeFacts DEF Fitting

\* IssueForArea up to its last clean zone.
LEMMA IssueAreaFits ==
  ASSUME SaveMayFail = FALSE, IInv, AgreeInv, NEW w \in Workers, Alone(w),
         \/ IssueListArea(w)
         \/ \E z \in DOMAIN local[w].areaZones : IssueUpdateZone(w, z)
  PROVE  Fitting(w)
<1> DEFINE known == local[w]
<1>h. PICK here : here = AreaOf[known.zone]
  OBVIOUS
<1>1. CASE IssueListArea(w)
  <2> DEFINE area    == A!ZonesOfArea(here)
             pending == {z \in area : zones[z].status # "interlocked"}
             copies  == [z \in pending |-> SetStatus(zones[z], "interlocked")]
             to      == IF pending = {} THEN "list_command_zones" ELSE "update_area"
  <2>1. UNCHANGED <<zones, interlocks>> /\ pc[w] = "list_area"
    BY <1>1 DEF IssueListArea
  <2>2. \A a : Agrees(a)' <=> Agrees(a)
    BY <2>1, AgreesKept
  <2>3. known.zone \in area
    BY <1>h, <2>1, KnownFacts DEF Held, Steps, A!ZonesOfArea
  <2>4. DOMAIN copies = pending /\ \A z \in pending : AreaOf[z] = here
    BY <1>h DEF A!ZonesOfArea
  <2>5. Go(w, to, [known EXCEPT !.affected = area, !.areaZones = copies])
    BY <1>h, <1>1 DEF IssueListArea
  <2>6. to \in {"list_command_zones", "update_area"}
    OBVIOUS
  <2> HIDE DEF area, pending, copies, to
  <2>7. /\ pc'[w] = to /\ local'[w].zone = known.zone
        /\ local'[w].affected = area /\ local'[w].areaZones = copies
    BY <2>5, KnownFacts DEF Go, TypeOK, Fields
  <2>8. InItsArea(pc[w], local[w])'
    BY <1>h, <2>3, <2>4, <2>6, <2>7 DEF InItsArea
  <2>9. WorkingOn(w, here)'
    BY <1>h, <2>6, <2>7 DEF WorkingOn, Issuing
  <2>10. QED
    BY <1>h, <2>1, <2>2, <2>8, <2>9, SameAreaFits
<1>2. ASSUME NEW z \in DOMAIN known.areaZones, IssueUpdateZone(w, z) PROVE Fitting(w)
  <2> DEFINE left == Drop(known.areaZones, z)
             to   == IF DOMAIN left = {} THEN "list_command_zones" ELSE "update_area"
  <2>1. /\ z \in DOMAIN zones /\ pc[w] = "update_area" /\ interlocks' = interlocks
        /\ zones' = [zones EXCEPT ![z] = known.areaZones[z]]
    BY <1>2, KnownFacts DEF IssueUpdateZone, LocalOK
  <2>2. AreaOf[z] = here /\ known.zone \in known.affected
    BY <1>h, <2>1, AgreeFacts DEF InItsArea
  <2>3. \A a \in Areas : a # here => (Agrees(a)' <=> Agrees(a))
    BY <2>1, <2>2 DEF Agrees, A!HasOpenLog, A!ZonesOfArea
  <2>4. DOMAIN left \subseteq DOMAIN known.areaZones
    BY DEF Drop, Restrict
  <2>5. Go(w, to, [known EXCEPT !.areaZones = left])
    BY <1>2 DEF IssueUpdateZone, GoAfterWrite
  <2>6. to \in {"list_command_zones", "update_area"}
    OBVIOUS
  <2> HIDE DEF left, to
  <2>7. /\ pc'[w] = to /\ local'[w].zone = known.zone
        /\ local'[w].affected = known.affected /\ local'[w].areaZones = left
    BY <2>5, KnownFacts DEF Go, TypeOK, Fields
  <2>8. InItsArea(pc[w], local[w])'
    BY <1>h, <2>1, <2>2, <2>4, <2>6, <2>7, AgreeFacts DEF InItsArea
  <2>9. WorkingOn(w, here)' /\ WorkingOn(w, here)
    BY <1>h, <2>1, <2>6, <2>7 DEF WorkingOn, Issuing
  <2>10. QED
    BY <1>h, <2>3, <2>8, <2>9, SameAreaFits
<1>3. QED
  BY <1>1, <1>2

\* Interlock commands, or an edit.
LEMMA CommandsFit ==
  ASSUME SaveMayFail = FALSE, IInv, AgreeInv, NEW w \in Workers, Alone(w),
         \/ IssueListCommandZones(w)
         \/ IssueListMonitors(w)
         \/ \E m \in DOMAIN local[w].equipment : UpdateMonitor(w, m)
  PROVE  Fitting(w)
<1> DEFINE known == local[w]
<1>h. PICK here : here = AreaOf[known.zone]
  OBVIOUS
<1>1. UNCHANGED <<zones, interlocks>>
  BY DEF IssueListCommandZones, IssueListMonitors, UpdateMonitor
<1>2. \A a : Agrees(a)' <=> Agrees(a)
  BY <1>1, AgreesKept
<1>3. CASE pc[w] = "update_monitors" /\ known.op = "edit"
  <2>1. Finish(w) \/ GiveUp(w)
    BY <1>3 DEF IssueListCommandZones, IssueListMonitors, UpdateMonitor, FinishAfterWrite
  <2>2. QED
    BY <1>2, <1>3, <2>1, RestAtNoArea, ElsewhereFits DEF AtNoArea
<1>4. CASE ~(pc[w] = "update_monitors" /\ known.op = "edit")
  <2>1. \/ pc[w] \in {"list_command_zones", "list_monitors"}
        \/ pc[w] = "update_monitors" /\ known.op # "edit"
    BY <1>4 DEF IssueListCommandZones, IssueListMonitors, UpdateMonitor
  <2>2. known.op # "edit" /\ known.zone \in known.affected
    BY <2>1, KnownFacts, AgreeFacts DEF Held, InItsArea
  <2>3. /\ pc'[w] \in {"list_monitors", "create_log", "update_monitors"}
        /\ local'[w].affected = known.affected
        /\ local'[w].zone = known.zone /\ local'[w].op = known.op
    <3> DEFINE Keeps == /\ pc'[w] \in {"list_monitors", "create_log", "update_monitors"}
                        /\ local'[w].affected = known.affected
                        /\ local'[w].zone = known.zone /\ local'[w].op = known.op
    <3>f. DOMAIN known = Fields
      BY KnownFacts
    <3>g. ASSUME NEW to \in {"list_monitors", "create_log", "update_monitors"}, NEW next,
                 Go(w, to, next), next.affected = known.affected, next.zone = known.zone,
                 next.op = known.op
          PROVE  Keeps
      <4>1. pc'[w] = to /\ local'[w] = next
        BY <3>g, KnownFacts DEF Go, TypeOK
      <4>2. QED
        BY <3>g, <4>1
    <3>l. CASE IssueListCommandZones(w)
      <4>1. PICK next : next = [known EXCEPT !.inArea = A!ZonesOfArea(AreaOf[known.zone])]
        OBVIOUS
      <4>2. Go(w, "list_monitors", next)
        BY <3>l, <4>1 DEF IssueListCommandZones
      <4>3. QED
        BY <3>f, <3>g, <4>1, <4>2 DEF Fields
    <3>m. CASE IssueListMonitors(w)
      <4>1. PICK mine : mine = {m \in DOMAIN monitors : ZoneOf[m] \in known.inArea}
        OBVIOUS
      <4>2. PICK equipment : equipment =
              [m \in mine |-> RaiseVentilation(monitors[m], InterlockLevelForRatio(known.ratio))]
        OBVIOUS
      <4>3. PICK next : next = [known EXCEPT !.inArea = {}, !.equipment = equipment]
        OBVIOUS
      <4>4. Go(w, IF mine = {} THEN "create_log" ELSE "update_monitors", next)
        BY <3>m, <4>1, <4>2, <4>3 DEF IssueListMonitors
      <4>5. QED
        BY <3>f, <3>g, <4>3, <4>4 DEF Fields
    <3>1. CASE IssueListCommandZones(w) \/ IssueListMonitors(w)
      BY <3>1, <3>l, <3>m
    <3>2. ASSUME NEW m \in DOMAIN known.equipment, UpdateMonitor(w, m)
          PROVE  /\ pc'[w] \in {"create_log", "update_monitors"}
                 /\ local'[w].affected = known.affected
                 /\ local'[w].zone = known.zone /\ local'[w].op = known.op
      BY <2>2, <3>2, KnownFacts DEF UpdateMonitor, GoAfterWrite, Go, TypeOK, Fields
    <3>3. QED
      BY <3>1, <3>2
  <2>4. InItsArea(pc[w], local[w])'
    BY <2>2, <2>3 DEF InItsArea
  <2>5. WorkingOn(w, here)' /\ WorkingOn(w, here)
    BY <1>h, <2>1, <2>2, <2>3 DEF WorkingOn, Issuing
  <2>6. QED
    BY <1>h, <1>2, <2>4, <2>5, SameAreaFits
<1>5. QED
  BY <1>3, <1>4

\* With its log created an issue leaves its area with an open log, and with the
\* trigger zone interlocked.
LEMMA CreateLogFits ==
  ASSUME IInv, SerialInv, AgreeInv, NEW w \in Workers, Alone(w), IssueCreateLog(w)
  PROVE  Fitting(w)
<1> DEFINE known == local[w]
           new   == Len(interlocks) + 1
<1>h. PICK here : here = AreaOf[known.zone]
  OBVIOUS
<1>1. zones' = zones /\ pc[w] = "create_log" /\ interlocks' = Append(interlocks, Log(w))
  BY DEF IssueCreateLog, Log
<1>2. /\ DOMAIN interlocks' = DOMAIN interlocks \cup {new}
      /\ interlocks'[new] = Log(w)
      /\ \A i \in DOMAIN interlocks : interlocks'[i] = interlocks[i]
  <2>1. Log(w) \in InterlockRecord
    <3>1. known.zone \in Zones /\ known.affected \subseteq Zones
      BY <1>1, KnownFacts DEF StoreOK, LocalOK, Held, Steps
    <3>2. known.ratio \in Nat
      BY KnownFacts DEF LocalOK
    <3>3. QED
      BY <3>1, <3>2, NewLogFacts DEF Log
  <2>2. UNCHANGED <<zones, monitors>>
    BY DEF IssueCreateLog
  <2>3. QED
    BY <1>1, <2>1, <2>2, LogAdded, KnownFacts
<1>3. Log(w).area = here /\ Log(w).open
  BY <1>h DEF Log, NewInterlockLog
<1>4. known.zone \in A!ZonesOfArea(here) /\ zones[known.zone].status = "interlocked"
  <2>1. known.zone \in DOMAIN zones
    BY <1>1, KnownFacts DEF Held, Steps
  <2>2. known.zone \in known.affected
    BY <1>1, AgreeFacts DEF InItsArea
  <2>3. QED
    BY <1>h, <1>1, <2>1, <2>2 DEF SerialInv, Follows, A!ZonesOfArea
<1>5. Agrees(here)'
  <2>1. A!HasOpenLog(here)'
    BY <1>2, <1>3 DEF A!HasOpenLog
  <2>2. \E z \in A!ZonesOfArea(here)' : zones'[z].status = "interlocked"
    BY <1>1, <1>4 DEF A!ZonesOfArea
  <2>3. QED
    BY <2>1, <2>2 DEF Agrees
<1>6. ASSUME NEW a \in Areas, a # here PROVE Agrees(a)'
  <2>1. Agrees(a)
    BY <1>h, <1>6, AgreeFacts DEF WorkingOn
  <2>2. A!HasOpenLog(a)' <=> A!HasOpenLog(a)
    BY <1>2, <1>3, <1>6 DEF A!HasOpenLog
  <2>3. QED
    BY <1>1, <2>1, <2>2 DEF Agrees, A!ZonesOfArea
<1>7. pc'[w] \in {"reload_zone", "idle", "next_candidate"}
  BY KnownFacts
  DEF IssueCreateLog, GoAfterWrite, FinishAfterWrite, Finish, GiveUp, Go, TypeOK
<1>8. InItsArea(pc[w], local[w])'
  BY <1>7 DEF InItsArea
<1>9. QED
  BY <1>5, <1>6, <1>8 DEF Fitting

\* Restore up to its last clean zone.
LEMMA RestoreAreaFits ==
  ASSUME SaveMayFail = FALSE, IInv, AgreeInv, NEW w \in Workers, Alone(w),
         \/ RestoreListArea(w)
         \/ \E z \in DOMAIN local[w].areaZones : RestoreUpdateZone(w, z)
  PROVE  Fitting(w)
<1> DEFINE known == local[w]
<1>h. PICK here : here = AreaOf[known.zone]
  OBVIOUS
<1>1. CASE RestoreListArea(w)
  <2> DEFINE pending == {z \in A!ZonesOfArea(here) :
                           /\ zones[z].status # RestoreStatus
                           /\ CanTransition(zones[z].status, RestoreStatus)}
             copies  == [z \in pending |-> SetStatus(zones[z], RestoreStatus)]
             to      == IF pending = {} THEN "list_logs" ELSE "update_restored"
  <2>1. UNCHANGED <<zones, interlocks>> /\ pc[w] = "list_restore"
    BY <1>1 DEF RestoreListArea
  <2>2. \A a : Agrees(a)' <=> Agrees(a)
    BY <2>1, AgreesKept
  <2>3. DOMAIN copies = pending /\ \A z \in pending : AreaOf[z] = here
    BY DEF A!ZonesOfArea
  <2>4. Go(w, to, [known EXCEPT !.areaZones = copies])
    BY <1>h, <1>1 DEF RestoreListArea
  <2>5. to \in {"list_logs", "update_restored"}
    OBVIOUS
  <2> HIDE DEF pending, copies, to
  <2>6. pc'[w] = to /\ local'[w].zone = known.zone /\ local'[w].areaZones = copies
    BY <2>4, KnownFacts DEF Go, TypeOK, Fields
  <2>7. InItsArea(pc[w], local[w])'
    BY <1>h, <2>3, <2>5, <2>6 DEF InItsArea
  <2>8. WorkingOn(w, here)'
    BY <1>h, <2>5, <2>6 DEF WorkingOn, Issuing
  <2>9. QED
    BY <1>h, <2>1, <2>2, <2>7, <2>8, SameAreaFits
<1>2. ASSUME NEW z \in DOMAIN known.areaZones, RestoreUpdateZone(w, z) PROVE Fitting(w)
  <2> DEFINE left == Drop(known.areaZones, z)
             to   == IF DOMAIN left = {} THEN "list_logs" ELSE "update_restored"
  <2>1. /\ z \in DOMAIN zones /\ pc[w] = "update_restored" /\ interlocks' = interlocks
        /\ zones' = [zones EXCEPT ![z] = known.areaZones[z]]
    BY <1>2, KnownFacts DEF RestoreUpdateZone, LocalOK
  <2>2. AreaOf[z] = here
    BY <1>h, <2>1, AgreeFacts DEF InItsArea
  <2>3. \A a \in Areas : a # here => (Agrees(a)' <=> Agrees(a))
    BY <2>1, <2>2 DEF Agrees, A!HasOpenLog, A!ZonesOfArea
  <2>4. DOMAIN left \subseteq DOMAIN known.areaZones
    BY DEF Drop, Restrict
  <2>5. Go(w, to, [known EXCEPT !.areaZones = left])
    BY <1>2 DEF RestoreUpdateZone, GoAfterWrite
  <2>6. to \in {"list_logs", "update_restored"}
    OBVIOUS
  <2> HIDE DEF left, to
  <2>7. pc'[w] = to /\ local'[w].zone = known.zone /\ local'[w].areaZones = left
    BY <2>5, KnownFacts DEF Go, TypeOK, Fields
  <2>8. InItsArea(pc[w], local[w])'
    BY <2>1, <2>4, <2>6, <2>7, AgreeFacts DEF InItsArea
  <2>9. WorkingOn(w, here)' /\ WorkingOn(w, here)
    BY <1>h, <2>1, <2>6, <2>7 DEF WorkingOn, Issuing
  <2>10. QED
    BY <1>h, <2>3, <2>8, <2>9, SameAreaFits
<1>3. QED
  BY <1>1, <1>2

\* With its last log closed a restore leaves its area without an open log, as
\* it has left it without an interlocked zone.
LEMMA RestoreLogsFit ==
  ASSUME SaveMayFail = FALSE, IInv, SerialInv, AgreeInv, NEW w \in Workers, Alone(w),
         \/ RestoreListLogs(w)
         \/ \E i \in local[w].logs : RestoreCloseLog(w, i)
  PROVE  Fitting(w)
<1> DEFINE known == local[w]
<1>h. PICK here : here = AreaOf[known.zone]
  OBVIOUS
<1>1. zones' = zones /\ pc[w] \in {"list_logs", "close_logs"}
  BY DEF RestoreListLogs, RestoreCloseLog
<1>2. \A z \in A!ZonesOfArea(here) : zones[z].status # "interlocked"
  BY <1>h, <1>1 DEF SerialInv, Follows
<1>3. \A a \in Areas : a # here => Agrees(a)
  BY <1>h, AgreeFacts DEF WorkingOn
<1>4. WorkingOn(w, here)
  BY <1>h, <1>1 DEF WorkingOn
<1>5. ASSUME Finish(w), ~A!HasOpenLog(here)', \A a \in Areas : a # here => (Agrees(a)' <=> Agrees(a))
      PROVE  Fitting(w)
  <2>1. Agrees(here)'
    BY <1>1, <1>2, <1>5 DEF Agrees, A!ZonesOfArea
  <2>2. InItsArea(pc[w], local[w])'
    BY <1>5, RestAtNoArea DEF InItsArea, AtNoArea
  <2>3. QED
    BY <1>3, <1>5, <2>1, <2>2 DEF Fitting
<1>6. CASE RestoreListLogs(w)
  <2> DEFINE mine == {i \in DOMAIN interlocks :
                        interlocks[i].open /\ interlocks[i].area = AreaOf[known.zone]}
  <2>1. UNCHANGED <<zones, interlocks>>
    BY <1>6 DEF RestoreListLogs
  <2>2. \A a : Agrees(a)' <=> Agrees(a)
    BY <2>1, AgreesKept
  <2>3. CASE mine = {} /\ Finish(w)
    <3>1. ~A!HasOpenLog(here)'
      BY <1>h, <2>1, <2>3 DEF A!HasOpenLog
    <3>2. QED
      BY <1>5, <2>2, <2>3, <3>1
  <2>4. CASE Go(w, "close_logs", [known EXCEPT !.logs = mine])
    <3>1. pc'[w] = "close_logs" /\ local'[w].zone = known.zone /\ local'[w].logs = mine
      BY <2>4, KnownFacts DEF Go, TypeOK, Fields
    <3>2. InItsArea(pc[w], local[w])'
      BY <2>1, <3>1 DEF InItsArea
    <3>3. WorkingOn(w, here)'
      BY <1>h, <3>1 DEF WorkingOn
    <3>4. QED
      BY <1>h, <1>4, <2>2, <3>2, <3>3, SameAreaFits
  <2>5. QED
    BY <1>6, <2>3, <2>4 DEF RestoreListLogs
<1>7. ASSUME NEW i \in known.logs, RestoreCloseLog(w, i) PROVE Fitting(w)
  <2> DEFINE left == known.logs \ {i}
  <2>1. /\ i \in DOMAIN interlocks /\ interlocks[i].area = here /\ pc[w] = "close_logs"
    BY <1>h, <1>7, KnownFacts DEF RestoreCloseLog, LocalOK, SerialInv, Follows
  <2>2. /\ DOMAIN interlocks' = DOMAIN interlocks
        /\ \A j \in DOMAIN interlocks : j # i => interlocks'[j] = interlocks[j]
        /\ interlocks'[i].area = here /\ ~interlocks'[i].open
    <3>1. known.operator \in Operators \cup {Nobody} /\ StoreOK
      BY KnownFacts DEF LocalOK
    <3>2. /\ interlocks' = [interlocks EXCEPT ![i] = Closed(@, known.operator)]
          /\ UNCHANGED <<zones, monitors>>
      BY <1>7 DEF RestoreCloseLog
    <3>3. QED
      BY <2>1, <3>1, <3>2, LogClosed
  <2>3. \A a \in Areas : a # here => (Agrees(a)' <=> Agrees(a))
    <3>1. \A a : a # here => (A!HasOpenLog(a)' <=> A!HasOpenLog(a))
      BY <2>1, <2>2 DEF A!HasOpenLog
    <3>2. QED
      BY <1>1, <3>1 DEF Agrees, A!ZonesOfArea
  <2>4. \A j \in DOMAIN interlocks' :
          interlocks'[j].open /\ interlocks'[j].area = here => j \in left
    BY <1>h, <2>1, <2>2, AgreeFacts DEF InItsArea
  <2>5. CASE left = {} /\ Finish(w)
    <3>1. ~A!HasOpenLog(here)'
      BY <2>4, <2>5 DEF A!HasOpenLog
    <3>2. QED
      BY <1>5, <2>3, <2>5, <3>1
  <2>6. CASE Go(w, "close_logs", [known EXCEPT !.logs = left])
    <3> HIDE DEF left
    <3>1. pc'[w] = "close_logs" /\ local'[w].zone = known.zone /\ local'[w].logs = left
      BY <2>6, KnownFacts DEF Go, TypeOK, Fields
    <3>2. InItsArea(pc[w], local[w])'
      BY <1>h, <2>4, <3>1 DEF InItsArea
    <3>3. WorkingOn(w, here)'
      BY <1>h, <3>1 DEF WorkingOn
    <3>4. QED
      BY <1>h, <1>4, <2>3, <3>2, <3>3, SameAreaFits
  <2>7. QED
    BY <1>7, <2>5, <2>6 DEF RestoreCloseLog, GoAfterWrite, FinishAfterWrite
<1>8. QED
  BY <1>6, <1>7

\* A request starts while no other is under way.
LEMMA StartFits ==
  ASSUME OneAtATime = TRUE, IInv, AgreeInv, NEW w \in Workers, Start(w)
  PROVE  AgreeInv'
<1>1. ASSUME \/ \E z \in Zones : CreateCleanZone(w, z)
             \/ \E m \in Monitors, due \in Times : CreateMonitorZone(w, m, due)
      PROVE  AgreeInv'
  <2>1. UNCHANGED <<pc, local, interlocks>> /\ pc[w] = "idle" /\ Alone(w)
    BY <1>1 DEF CreateCleanZone, CreateMonitorZone, A!CreateCleanZone, A!CreateMonitorZone,
       Starts, MayStart, Alone
  <2>2. /\ DOMAIN zones \subseteq DOMAIN zones'
        /\ \A z \in DOMAIN zones : zones'[z] = zones[z]
        /\ \A z \in DOMAIN zones' \ DOMAIN zones : zones'[z].status # "interlocked"
    <3>1. ASSUME NEW z \in Zones, CreateCleanZone(w, z)
          PROVE  /\ DOMAIN zones' = DOMAIN zones \cup {z} /\ z \notin DOMAIN zones
                 /\ zones'[z] = A!NewCleanZone
                 /\ \A x \in DOMAIN zones : zones'[x] = zones[x]
      BY <3>1 DEF CreateCleanZone, A!CreateCleanZone
    <3>2. A!NewCleanZone.status = "normal"
      BY DEF A!NewCleanZone, A!CleanZone
    <3>3. ASSUME NEW m \in Monitors, NEW due \in Times, CreateMonitorZone(w, m, due)
          PROVE  zones' = zones
      BY <3>3 DEF CreateMonitorZone, A!CreateMonitorZone
    <3>4. CASE \E z \in Zones : CreateCleanZone(w, z)
      BY <3>1, <3>2, <3>4
    <3>5. CASE \E m \in Monitors, due \in Times : CreateMonitorZone(w, m, due)
      BY <3>3, <3>5
    <3>6. QED
      BY <1>1, <3>4, <3>5
  <2>3. \A a \in Areas : Agrees(a)' <=> Agrees(a)
    BY <2>1, <2>2, AgreesKept
  <2>4. Fitting(w)
    BY <2>1, <2>3, ElsewhereFits DEF AtNoArea
  <2>5. OthersWait(w)
    BY <2>1, KnownFacts DEF OthersWait, TypeOK
  <2>6. QED
    BY <2>1, <2>4, <2>5, AgreeStep
<1>2. ASSUME NEW to, NEW known, Go(w, to, known), UNCHANGED <<zones, interlocks>>, Stepped(w),
             \/ to \in {"get_zone", "list_area", "list_restore", "next_candidate"}
             \/ to = "update_monitors" /\ known.op = "edit",
             pc[w] \in {"idle", "next_candidate"}, MayStart(w)
      PROVE  AgreeInv'
  <2>1. pc'[w] = to /\ local'[w] = known
    BY <1>2, KnownFacts DEF Go, TypeOK
  <2>2. AtNoArea(pc[w], local[w]) /\ AtNoArea(pc[w], local[w])'
    BY <1>2, <2>1 DEF AtNoArea
  <2>3. \A a \in Areas : Agrees(a)' <=> Agrees(a)
    BY <1>2, AgreesKept
  <2>4. Alone(w) /\ OthersWait(w)
    BY <1>2 DEF MayStart, Alone, Stepped
  <2>5. QED
    BY <2>2, <2>3, <2>4, ElsewhereFits, AgreeStep
<1>3. ASSUME NEW m, NEW edited, EditMonitor(w, m, edited), Stepped(w), pc[w] = "idle", MayStart(w)
      PROVE  AgreeInv'
  <2> DEFINE known == [Fresh EXCEPT !.op = "edit", !.equipment = [x \in {m} |-> edited]]
  <2>1. known.op = "edit"
    BY FreshFields DEF Fields
  <2>2. Go(w, "update_monitors", known) /\ UNCHANGED <<zones, interlocks>>
    BY <1>3 DEF EditMonitor
  <2> HIDE DEF known
  <2>3. PICK k : k = known
    OBVIOUS
  <2>4. QED
    BY <1>2, <1>3, <2>1, <2>2, <2>3
<1>4. ASSUME NEW m \in Monitors, NEW b \in BOOLEAN, SetMaintenance(w, m, b) PROVE AgreeInv'
  BY <1>3, <1>4, StartSteps DEF SetMaintenance, Starts
<1>5. ASSUME NEW m \in Monitors, NEW due \in Times, SetCalibration(w, m, due) PROVE AgreeInv'
  BY <1>3, <1>5, StartSteps DEF SetCalibration, Starts
<1>6. ASSUME NEW m \in Monitors, NEW r \in Ratios, NEW at \in Times, IngestGetMonitor(w, m, r, at)
      PROVE  AgreeInv'
  BY <1>2, <1>6, StartSteps DEF IngestGetMonitor, Starts
<1>7. ASSUME NEW z \in Zones, NEW r \in Ratios, IssueStart(w, z, r) PROVE AgreeInv'
  BY <1>2, <1>7, StartSteps DEF IssueStart, Starts
<1>8. ASSUME NEW z \in Zones, NEW operator \in Operators, RestoreGetZone(w, z, operator)
      PROVE  AgreeInv'
  BY <1>2, <1>8, StartSteps DEF RestoreGetZone, Starts
<1>9. ASSUME SweepList(w) PROVE AgreeInv'
  BY <1>2, <1>9, SweepSteps DEF SweepList, Starts
<1>10. ASSUME NEW c \in local[w].queue, SweepNext(w, c) PROVE AgreeInv'
  BY <1>2, <1>10, SweepSteps DEF SweepNext
<1>11. QED
  BY <1>1, <1>4, <1>5, <1>6, <1>7, <1>8, <1>9, <1>10 DEF Start

\* A request goes on, or a sweep ends.
LEMMA ContinueFits ==
  ASSUME SaveMayFail = FALSE, IInv, SerialInv, AgreeInv, NEW w \in Workers, Continue(w)
  PROVE  AgreeInv'
<1>1. OthersWait(w)
  BY ContinueSteps DEF Stepped
<1>2. CASE SweepEnd(w)
  <2>1. UNCHANGED <<zones, interlocks>> /\ pc[w] = "next_candidate" /\ pc'[w] = "idle"
    BY <1>2, KnownFacts DEF SweepEnd, GiveUp, Go, TypeOK
  <2>2. \A a : Agrees(a)' <=> Agrees(a)
    BY <2>1, AgreesKept
  <2>3. \A v \in Workers : v # w => pc'[v] = pc[v] /\ local'[v] = local[v]
    BY <1>1 DEF OthersWait
  <2>4. \A v \in Workers, a \in Areas : WorkingOn(v, a) => WorkingOn(v, a)'
    BY <2>1, <2>3 DEF WorkingOn, Issuing
  <2>5. ASSUME NEW v \in Workers PROVE InItsArea(pc[v], local[v])'
    <3>1. InItsArea(pc[v], local[v])
      BY DEF AgreeInv
    <3>2. QED
      BY <2>1, <2>3, <3>1 DEF InItsArea
  <2>6. QED
    BY <2>2, <2>4, <2>5 DEF AgreeInv
<1>3. CASE ~SweepEnd(w)
  <2>1. ~AtRest(w)
    BY <1>3 DEF Continue, AtRest, IngestGetZone, IngestUpdateState, IngestReloadZone,
       IngestUpdateRatio, IssueListArea, IssueUpdateZone, IssueListCommandZones,
       IssueListMonitors, UpdateMonitor, IssueCreateLog, RestoreListArea, RestoreUpdateZone,
       RestoreListLogs, RestoreCloseLog
  <2>2. Alone(w)
    BY <2>1 DEF SerialInv, Alone
  <2>3. Fitting(w)
    BY <1>3, <2>2, IngestFits, IssueAreaFits, CommandsFit, CreateLogFits, RestoreAreaFits,
       RestoreLogsFit DEF Continue
  <2>4. QED
    BY <1>1, <2>2, <2>3, AgreeStep
<1>4. QED
  BY <1>2, <1>3

\* What all steps keep while requests are served one after the other.
AllInv == IInv /\ SerialInv /\ AgreeInv

LEMMA AllInit == Init => AllInv
<1> SUFFICES ASSUME Init PROVE AllInv
  OBVIOUS
<1>1. \A w \in Workers : pc[w] = "idle"
  BY DEF Init
<1>2. SerialInv
  BY <1>1 DEF SerialInv, AtRest, Follows
<1>3. \A w \in Workers : InItsArea(pc[w], local[w])
  BY <1>1 DEF InItsArea
<1>4. \A a \in Areas : Agrees(a)
  BY DEF Init, Agrees, A!HasOpenLog, A!ZonesOfArea, NewCleanZone, CleanZone
<1>5. QED
  BY <1>2, <1>3, <1>4, InvariantInit DEF AllInv, AgreeInv

LEMMA AllStep ==
  ASSUME OneAtATime = TRUE, SaveMayFail = FALSE, AllInv, [Next]_vars
  PROVE  AllInv'
<1>1. IInv' /\ SerialInv'
  BY InvariantStep, SerialSteps DEF AllInv
<1>2. ASSUME NEW w \in Workers, Start(w) \/ Continue(w) PROVE AgreeInv'
  BY <1>2, StartFits, ContinueFits DEF AllInv
<1>3. ASSUME Tick PROVE AgreeInv'
  <2>1. \A w \in Workers : pc'[w] \in {"idle", "next_candidate"}
    BY <1>3 DEF Tick, AtRest
  <2>2. \A w \in Workers : InItsArea(pc[w], local[w])'
    BY <2>1 DEF InItsArea
  <2>3. \A a \in Areas : Agrees(a)
    BY <1>3 DEF AllInv, AgreeInv, Tick, AtRest, WorkingOn, Issuing
  <2>4. interlocks' = interlocks
    BY <1>3 DEF Tick
  <2>5. \A a \in Areas : Agrees(a)' <=> Agrees(a)
    BY <1>3, <2>4, TickStep, AgreesKept DEF AllInv
  <2>6. \A a \in Areas : Agrees(a)'
    BY <2>3, <2>5
  <2>7. QED
    BY <2>2, <2>6 DEF AgreeInv
<1>4. ASSUME UNCHANGED vars PROVE AgreeInv'
  <2>1. UNCHANGED <<zones, interlocks, pc, local>>
    BY <1>4 DEF vars
  <2>2. \A a : Agrees(a)' <=> Agrees(a)
    BY <2>1, AgreesKept
  <2>3. \A w \in Workers, a \in Areas : WorkingOn(w, a) => WorkingOn(w, a)'
    BY <2>1 DEF WorkingOn, Issuing
  <2>4. ASSUME NEW w \in Workers PROVE InItsArea(pc[w], local[w])'
    <3>1. InItsArea(pc[w], local[w])
      BY DEF AllInv, AgreeInv
    <3>2. QED
      BY <2>1, <3>1 DEF InItsArea
  <2>5. ASSUME NEW a \in Areas PROVE Agrees(a)' \/ \E w \in Workers : WorkingOn(w, a)'
    BY <2>2, <2>3 DEF AllInv, AgreeInv
  <2>6. QED
    BY <2>4, <2>5 DEF AgreeInv
<1>5. QED
  BY <1>1, <1>2, <1>3, <1>4 DEF AllInv, Next

\* A quiet store agrees with itself.
LEMMA QuietAgrees ==
  ASSUME AllInv, Quiet
  PROVE  /\ (\E i \in DOMAIN interlocks : interlocks[i].open) <=> Interlocked # {}
         /\ \A m \in DOMAIN monitors : ZoneOf[m] \in DOMAIN zones
<1>1. \A a \in Areas : Agrees(a)
  BY DEF AllInv, AgreeInv, Quiet, AtRest, WorkingOn, Issuing
<1>2. ASSUME NEW i \in DOMAIN interlocks, interlocks[i].open PROVE Interlocked # {}
  <2>1. interlocks[i].area \in Areas
    BY StoredFacts, KnownFacts, InvariantParts DEF AllInv, InterlockRecord
  <2>2. Agrees(interlocks[i].area)
    BY <1>1, <2>1
  <2>3. QED
    BY <1>2, <2>2 DEF Agrees, A!HasOpenLog, A!ZonesOfArea, Interlocked
<1>3. ASSUME NEW z \in Interlocked PROVE \E i \in DOMAIN interlocks : interlocks[i].open
  <2>1. z \in DOMAIN zones /\ AreaOf[z] \in Areas
    BY TopologyAssumption DEF Interlocked, AllInv, IInv, TypeOK
  <2>2. Agrees(AreaOf[z])
    BY <1>1, <2>1
  <2>3. QED
    BY <1>3, <2>1, <2>2 DEF Agrees, A!HasOpenLog, A!ZonesOfArea, Interlocked
<1>4. QED
  BY <1>2, <1>3 DEF AllInv, IInv

-----------------------------------------------------------------------------
\* The polls.

\* There is an open log exactly if the overview counts one.
LEMMA OpenCounted ==
  ASSUME IInv
  PROVE  OpenCount > 0 <=> \E i \in DOMAIN interlocks : interlocks[i].open
<1> DEFINE opened == {i \in DOMAIN interlocks : interlocks[i].open}
<1>1. StoreOK
  BY InvariantParts
<1>2. DOMAIN interlocks = 1 .. Len(interlocks) /\ Len(interlocks) \in Nat
  BY <1>1, StoredFacts
<1>3. IsFiniteSet(DOMAIN interlocks)
  <2>1. 1 \in Int /\ Len(interlocks) \in Int
    BY <1>2
  <2>2. IsFiniteSet(1 .. Len(interlocks))
    BY <2>1, FS_Interval
  <2>3. QED
    BY <1>2, <2>2
<1>4. IsFiniteSet(opened)
  BY <1>3, FS_Subset
<1>5. Cardinality(opened) \in Nat /\ (Cardinality(opened) = 0 <=> opened = {})
  BY <1>4, FS_CardinalityType, FS_EmptySet
<1>6. OpenCount = Cardinality(opened)
  BY DEF OpenCount
<1>7. opened # {} <=> \E i \in DOMAIN interlocks : interlocks[i].open
  OBVIOUS
<1> HIDE DEF opened
<1>8. QED
  BY <1>5, <1>6, <1>7

\* What a calm poll has read is still what the store holds.
PollOK(poll) ==
  \/ poll = NoPoll
  \/ /\ DOMAIN poll = {"step", "calm", "interlocked", "zones", "monitors", "open"}
     /\ poll.step \in {"zones", "monitors", "interlocks", "answered"}
     /\ poll.calm \in BOOLEAN
     /\ poll.calm =>
          /\ Quiet
          /\ poll.step # "zones" =>
               poll.zones = DOMAIN zones /\ poll.interlocked = Interlocked
          /\ poll.step \in {"interlocks", "answered"} => poll.monitors = DOMAIN monitors
          /\ poll.step = "answered" => poll.open = OpenCount

PollInv ==
  /\ DOMAIN polls = Polls
  /\ \A p \in Polls : PollOK(polls[p])

LEMMA SameStorePollOK ==
  ASSUME UNCHANGED <<zones, monitors, interlocks, pc, local>>, NEW poll, PollOK(poll)
  PROVE  PollOK(poll)'
<1>1. Quiet' <=> Quiet
  BY DEF Quiet, AtRest
<1>2. Interlocked' = Interlocked /\ OpenCount' = OpenCount
  BY DEF Interlocked, OpenCount
<1>3. QED
  BY <1>1, <1>2 DEF PollOK

\* A poll that goes on, with the store as it is.
LEMMA OnePollSteps ==
  ASSUME PollInv, UNCHANGED vars, NEW p \in Polls, NEW poll,
         polls' = [polls EXCEPT ![p] = poll], PollOK(poll)
  PROVE  PollInv'
<1>1. DOMAIN polls' = Polls
  BY DEF PollInv
<1>2. UNCHANGED <<zones, monitors, interlocks, pc, local>>
  BY DEF vars
<1>3. ASSUME NEW q \in Polls PROVE PollOK(polls'[q])
  BY DEF PollInv
<1>4. ASSUME NEW q \in Polls PROVE PollOK(polls[q])'
  <2>1. PICK other : other = polls'[q]
    OBVIOUS
  <2>2. PollOK(other)'
    BY <1>2, <1>3, <2>1, SameStorePollOK
  <2>3. QED
    BY <2>1, <2>2
<1>5. QED
  BY <1>1, <1>4 DEF PollInv

LEMMA PollInit == DashboardInit => PollInv
<1> SUFFICES ASSUME DashboardInit PROVE PollInv
  OBVIOUS
<1>1. DOMAIN polls = Polls /\ \A p \in Polls : polls[p] = NoPoll
  BY DEF DashboardInit
<1>2. QED
  BY <1>1 DEF PollInv, PollOK

\* A step of another client's request makes all polls restless that it
\* concerns.
LEMMA StoreStepPolls ==
  ASSUME PollInv, StoreStep
  PROVE  PollInv'
<1>1. DOMAIN polls' = Polls
  BY DEF StoreStep
<1>2. ASSUME NEW p \in Polls, polls[p] = NoPoll PROVE PollOK(polls[p])'
  <2>1. polls'[p] = NoPoll
    BY <1>2 DEF StoreStep
  <2>2. QED
    BY <2>1 DEF PollOK
<1>3. ASSUME NEW p \in Polls, polls[p] # NoPoll PROVE PollOK(polls[p])'
  <2>1. PICK calm \in BOOLEAN : calm <=> (polls[p].calm /\ Quiet' /\ ~Changed)
    OBVIOUS
  <2>2. /\ DOMAIN polls[p] = {"step", "calm", "interlocked", "zones", "monitors", "open"}
        /\ polls[p].calm \in BOOLEAN
    BY <1>3 DEF PollInv, PollOK
  <2>3. polls'[p] = [polls[p] EXCEPT !.calm = polls[p].calm /\ Quiet' /\ ~Changed]
    BY <1>3 DEF StoreStep
  <2>4. calm = (polls[p].calm /\ Quiet' /\ ~Changed)
    BY <2>1, <2>2
  <2>5. polls'[p] = [polls[p] EXCEPT !.calm = calm]
    BY <2>3, <2>4
  <2>6. CASE ~calm
    BY <1>3, <2>2, <2>5, <2>6 DEF PollInv, PollOK
  <2>7. CASE calm
    <3>1. UNCHANGED <<zones, monitors, interlocks>> /\ Quiet' /\ polls[p].calm
      BY <2>1, <2>7 DEF Changed
    <3>2. Interlocked' = Interlocked /\ OpenCount' = OpenCount
      BY <3>1 DEF Interlocked, OpenCount
    <3>3. QED
      BY <1>3, <2>2, <2>5, <3>1, <3>2 DEF PollInv, PollOK
  <2>8. QED
    BY <2>6, <2>7
<1>4. QED
  BY <1>1, <1>2, <1>3 DEF PollInv

LEMMA PollSteps ==
  ASSUME PollInv, [DashboardNext]_allVars
  PROVE  PollInv'
<1>1. CASE StoreStep
  BY <1>1, StoreStepPolls
<1>2. ASSUME UNCHANGED polls, UNCHANGED vars PROVE PollInv'
  <2>1. \A p \in Polls : PollOK(polls[p])'
    BY <1>2, SameStorePollOK DEF PollInv, vars
  <2>2. QED
    BY <1>2, <2>1 DEF PollInv
<1>3. CASE PageStart \/ PageStop \/ UNCHANGED allVars
  BY <1>2, <1>3 DEF PageStart, PageStop, allVars, pageVars
<1>4. ASSUME NEW p \in Polls, Arrive(p) \/ ArriveFailed(p) PROVE PollInv'
  <2>1. PollOK(NoPoll)
    BY DEF PollOK
  <2>2. polls' = [polls EXCEPT ![p] = NoPoll] /\ UNCHANGED vars
    BY <1>4 DEF Arrive, ArriveFailed
  <2>3. QED
    BY <2>1, <2>2, OnePollSteps
<1>5. ASSUME NEW p \in Polls, Refresh(p) PROVE PollInv'
  <2>1. PICK calm \in BOOLEAN : calm <=> Quiet
    OBVIOUS
  <2>2. PollOK(NewPoll(calm))
    BY <2>1 DEF PollOK, NewPoll
  <2>3. calm = Quiet
    BY <2>1 DEF Quiet
  <2>4. polls' = [polls EXCEPT ![p] = NewPoll(calm)] /\ UNCHANGED vars
    BY <1>5, <2>3 DEF Refresh
  <2>5. QED
    BY <2>2, <2>4, OnePollSteps
<1>6. ASSUME NEW p \in Polls, BuildZones(p) \/ BuildMonitors(p) \/ BuildInterlocks(p)
      PROVE  PollInv'
  <2>1. PollOK(polls[p]) /\ polls[p] # NoPoll
    BY <1>6 DEF PollInv, BuildZones, BuildMonitors, BuildInterlocks, Build, NoPoll
  <2>2. ASSUME NEW poll, polls' = [polls EXCEPT ![p] = poll], UNCHANGED vars, PollOK(poll)
        PROVE  PollInv'
    BY <2>2, OnePollSteps
  <2>3. CASE BuildZones(p)
    <3>1. PICK poll : poll = [polls[p] EXCEPT !.zones = DOMAIN zones,
                                              !.interlocked = Interlocked, !.step = "monitors"]
      OBVIOUS
    <3>2. polls' = [polls EXCEPT ![p] = poll] /\ UNCHANGED vars
      BY <2>3, <3>1 DEF BuildZones, Build
    <3>3. PollOK(poll)
      BY <2>1, <3>1 DEF PollOK
    <3>4. QED
      BY <2>2, <3>2, <3>3
  <2>4. CASE BuildMonitors(p)
    <3>1. PICK poll : poll = [polls[p] EXCEPT !.monitors = DOMAIN monitors, !.step = "interlocks"]
      OBVIOUS
    <3>2. polls' = [polls EXCEPT ![p] = poll] /\ UNCHANGED vars /\ polls[p].step = "monitors"
      BY <2>4, <3>1 DEF BuildMonitors, Build
    <3>3. PollOK(poll)
      BY <2>1, <3>1, <3>2 DEF PollOK
    <3>4. QED
      BY <2>2, <3>2, <3>3
  <2>5. CASE BuildInterlocks(p)
    <3>1. PICK poll : poll = [polls[p] EXCEPT !.open = OpenCount, !.step = "answered"]
      OBVIOUS
    <3>2. polls' = [polls EXCEPT ![p] = poll] /\ UNCHANGED vars /\ polls[p].step = "interlocks"
      BY <2>5, <3>1 DEF BuildInterlocks, Build
    <3>3. PollOK(poll)
      BY <2>1, <3>1, <3>2 DEF PollOK
    <3>4. QED
      BY <2>2, <3>2, <3>3
  <2>6. QED
    BY <1>6, <2>3, <2>4, <2>5
<1>7. QED
  BY <1>1, <1>3, <1>4, <1>5, <1>6 DEF DashboardNext, Proceed

\* Requests of other clients are those of InterlockRaces.
LEMMA StoreStepsAreSteps == [DashboardNext]_allVars => [Next]_vars
  BY DEF DashboardNext, StoreStep, Next, PageStart, PageStop, Refresh, Proceed, Arrive,
     ArriveFailed, BuildZones, BuildMonitors, BuildInterlocks, Build, allVars

LEMMA CalmAnswersAgree ==
  ASSUME AllInv, PollInv
  PROVE  QuietOverviewAgrees
<1> SUFFICES ASSUME NEW p \in Polls, polls[p].step = "answered", polls[p].calm
             PROVE  /\ polls[p].open > 0 <=> polls[p].interlocked # {}
                    /\ \A m \in polls[p].monitors : ZoneOf[m] \in polls[p].zones
  BY DEF QuietOverviewAgrees
<1>1. /\ Quiet
      /\ polls[p].zones = DOMAIN zones /\ polls[p].interlocked = Interlocked
      /\ polls[p].monitors = DOMAIN monitors /\ polls[p].open = OpenCount
  BY DEF PollInv, PollOK, NoPoll
<1>2. OpenCount > 0 <=> Interlocked # {}
  BY <1>1, OpenCounted, QuietAgrees DEF AllInv
<1>3. QED
  BY <1>1, <1>2, QuietAgrees

\* Requests served one after the other, whose saves succeed, never let an
\* overview built between two of them contradict itself: whatever the zones,
\* areas, requests and polls, it counts an open interlock exactly when it
\* shows an interlocked zone, and knows the zone of every monitor zone.
THEOREM QuietOverviewsAgree ==
  ASSUME OneAtATime = TRUE, SaveMayFail = FALSE
  PROVE  DashboardSpec => []QuietOverviewAgrees
<1>1. DashboardInit => AllInv /\ PollInv
  BY AllInit, PollInit DEF DashboardInit
<1>2. AllInv /\ PollInv /\ [DashboardNext]_allVars => (AllInv /\ PollInv)'
  BY AllStep, PollSteps, StoreStepsAreSteps
<1>3. AllInv /\ PollInv => QuietOverviewAgrees
  BY CalmAnswersAgree
<1>4. QED
  BY <1>1, <1>2, <1>3, PTL DEF DashboardSpec

-----------------------------------------------------------------------------
(* Tables that are written record by record. *)

IsTable(f) == f = [x \in DOMAIN f |-> f[x]]

\* A table on its way, where everything to change is still to be written.
LEMMA NothingPartWritten ==
  ASSUME NEW before, NEW after, IsTable(before), NEW left,
         \A x \in DOMAIN before : x \notin left => after[x] = before[x]
  PROVE  PartWritten(before, after, left) = before
<1>1. PartWritten(before, after, left) = [x \in DOMAIN before |-> before[x]]
  BY DEF PartWritten
<1>2. QED
  BY <1>1 DEF IsTable

\* A table on its way, where nothing is.
LEMMA AllPartWritten ==
  ASSUME NEW before, NEW after, IsTable(after), DOMAIN after = DOMAIN before,
         NEW left, left = {}
  PROVE  PartWritten(before, after, left) = after
<1>1. PartWritten(before, after, left) = [x \in DOMAIN after |-> after[x]]
  BY DEF PartWritten
<1>2. QED
  BY <1>1 DEF IsTable

\* A table on its way, as one record more is written.
LEMMA PartWrittenNext ==
  ASSUME NEW before, NEW after, NEW left, NEW x \in DOMAIN before,
         NEW table, table = PartWritten(before, after, left),
         NEW next, next = [table EXCEPT ![x] = after[x]]
  PROVE  next = PartWritten(before, after, left \ {x})
  BY DEF PartWritten

\* A record still to be written is the one of before.
LEMMA StillToBeWritten ==
  ASSUME NEW before, NEW after, NEW left, NEW x \in DOMAIN before
  PROVE  PartWritten(before, after, left)[x] = IF x \in left THEN before[x] ELSE after[x]
  BY DEF PartWritten

\* What is still to be written of a copy once record x is.
LEMMA DropFacts ==
  ASSUME NEW f, NEW x
  PROVE  /\ DOMAIN Drop(f, x) = DOMAIN f \ {x}
         /\ \A y \in DOMAIN f : y # x => Drop(f, x)[y] = f[y]
  BY DEF Drop, Restrict

-----------------------------------------------------------------------------
(* What AreaInterlock says of the committed store. *)

\* The instance has the same rules.
LEMMA SameRules ==
  /\ \A z, s : Atomic!SetStatus(z, s) = SetStatus(z, s)
  /\ \A m, l : Atomic!RaiseVentilation(m, l) = RaiseVentilation(m, l)
  /\ \A m, at : Atomic!EvaluateValidity(m, at) = EvaluateValidity(m, at)
  /\ \A r : Atomic!InterlockLevelForRatio(r) = InterlockLevelForRatio(r)
  /\ \A s, t : Atomic!CanTransition(s, t) = CanTransition(s, t)
  /\ \A s, r : Atomic!IngestedStatus(s, r) = IngestedStatus(s, r)
  /\ \A due : Atomic!NewMonitorZone(due) = NewMonitorZone(due)
  /\ \A z, affected, r :
       Atomic!NewInterlockLog(z, affected, r) = NewInterlockLog(z, affected, r)
  /\ \A log, operator : Atomic!Closed(log, operator) = Closed(log, operator)
  /\ Atomic!NewCleanZone = NewCleanZone
  /\ Atomic!ZoneStatuses = ZoneStatuses
  /\ Atomic!RestoreStatus = RestoreStatus
  /\ Atomic!One = One
  /\ Atomic!CleanZoneRecord = CleanZoneRecord
  /\ Atomic!MonitorRecord = MonitorRecord
  /\ Atomic!InterlockRecord = InterlockRecord
  /\ Atomic!SweepCandidate = SweepCandidate
<1>1. \A z, s : Atomic!SetStatus(z, s) = SetStatus(z, s)
  BY DEF Atomic!SetStatus, SetStatus
<1>2. \A m, l : Atomic!RaiseVentilation(m, l) = RaiseVentilation(m, l)
  BY DEF Atomic!RaiseVentilation, RaiseVentilation, Atomic!MinInt, MinInt,
     Atomic!ActionsForLevel, ActionsForLevel
<1>3. \A m, at : Atomic!EvaluateValidity(m, at) = EvaluateValidity(m, at)
  BY DEF Atomic!EvaluateValidity, EvaluateValidity, Atomic!IsCalibrationExpired,
     IsCalibrationExpired, Atomic!NoDue, NoDue
<1>4. \A r : Atomic!InterlockLevelForRatio(r) = InterlockLevelForRatio(r)
  BY DEF Atomic!InterlockLevelForRatio, InterlockLevelForRatio, Atomic!One, One
<1>5. \A s, t : Atomic!CanTransition(s, t) = CanTransition(s, t)
  BY DEF Atomic!CanTransition, CanTransition, Atomic!NextStatuses, NextStatuses
<1>6. \A s, r : Atomic!IngestedStatus(s, r) = IngestedStatus(s, r)
  BY <1>5 DEF Atomic!IngestedStatus, IngestedStatus, Atomic!TargetStatusFromRatio,
     TargetStatusFromRatio, Atomic!StatusForRatio, StatusForRatio, Atomic!One, One
<1>7. /\ \A due : Atomic!NewMonitorZone(due) = NewMonitorZone(due)
      /\ Atomic!NewCleanZone = NewCleanZone
  BY DEF Atomic!NewMonitorZone, NewMonitorZone, Atomic!NewCleanZone, NewCleanZone,
     Atomic!CleanZone, CleanZone
<1>8. /\ Atomic!ZoneStatuses = ZoneStatuses /\ Atomic!RestoreStatus = RestoreStatus
      /\ Atomic!One = One
  BY DEF Atomic!ZoneStatuses, ZoneStatuses, Atomic!RestoreStatus, RestoreStatus,
     Atomic!One, One
<1>9. /\ Atomic!CleanZoneRecord = CleanZoneRecord /\ Atomic!MonitorRecord = MonitorRecord
      /\ Atomic!InterlockRecord = InterlockRecord /\ Atomic!SweepCandidate = SweepCandidate
  BY <1>8 DEF Atomic!CleanZoneRecord, CleanZoneRecord, Atomic!MonitorRecord, MonitorRecord,
     Atomic!InterlockRecord, InterlockRecord, Atomic!SweepCandidate, SweepCandidate
<1>10. /\ \A z, affected, r :
            Atomic!NewInterlockLog(z, affected, r) = NewInterlockLog(z, affected, r)
       /\ \A log, operator : Atomic!Closed(log, operator) = Closed(log, operator)
  BY <1>4 DEF Atomic!NewInterlockLog, NewInterlockLog, Atomic!Closed, Closed
<1>11. QED
  BY <1>1, <1>2, <1>3, <1>4, <1>5, <1>6, <1>7, <1>8, <1>9, <1>10

\* The committed store has tables of records.
LEMMA CommittedFacts ==
  ASSUME CommitInv
  PROVE  /\ IsTable(committed.zones) /\ IsTable(committed.monitors)
         /\ IsTable(committed.interlocks)
         /\ \A z \in DOMAIN committed.zones :
              /\ committed.zones[z] \in CleanZoneRecord
              /\ committed.zones[z].status \in ZoneStatuses
         /\ \A m \in DOMAIN committed.monitors :
              /\ committed.monitors[m] \in MonitorRecord
              /\ ZoneOf[m] \in DOMAIN committed.zones
         /\ committed.interlocks \in Seq(InterlockRecord)
         /\ \A i \in DOMAIN committed.interlocks :
              committed.interlocks[i] \in InterlockRecord
<1>1. /\ committed.zones \in [DOMAIN committed.zones -> CleanZoneRecord]
      /\ committed.monitors \in [DOMAIN committed.monitors -> MonitorRecord]
      /\ committed.interlocks \in Seq(InterlockRecord)
      /\ \A m \in DOMAIN committed.monitors : ZoneOf[m] \in DOMAIN committed.zones
  BY SameRules DEF CommitInv, Atomic!TypeOK
<1>2. /\ IsTable(committed.interlocks)
      /\ \A i \in DOMAIN committed.interlocks :
           committed.interlocks[i] \in InterlockRecord
  BY <1>1, ElementOfSeq, SeqDef DEF IsTable
<1>3. \A z \in DOMAIN committed.zones : committed.zones[z] \in CleanZoneRecord
  BY <1>1
<1>4. QED
  BY <1>1, <1>2, <1>3 DEF IsTable, CleanZoneRecord

\* What the requests make of the committed store, record by record.
LEMMA TargetFacts ==
  ASSUME CommitInv, NEW z, NEW r
  PROVE  /\ IsTable(ZonesInterlocked(z))
         /\ DOMAIN ZonesInterlocked(z) = DOMAIN committed.zones
         /\ \A x \in DOMAIN committed.zones :
              ZonesInterlocked(z)[x] =
                IF AreaOf[x] = AreaOf[z] THEN SetStatus(committed.zones[x], "interlocked")
                ELSE committed.zones[x]
         /\ IsTable(MonitorsCommanded(z, r))
         /\ DOMAIN MonitorsCommanded(z, r) = DOMAIN committed.monitors
         /\ \A m \in DOMAIN committed.monitors :
              MonitorsCommanded(z, r)[m] =
                IF ZoneOf[m] \in Atomic!ZonesOfArea(AreaOf[z])
                THEN RaiseVentilation(committed.monitors[m], InterlockLevelForRatio(r))
                ELSE committed.monitors[m]
         /\ IsTable(ZonesRestored(z))
         /\ DOMAIN ZonesRestored(z) = DOMAIN committed.zones
         /\ \A x \in DOMAIN committed.zones :
              ZonesRestored(z)[x] =
                IF AreaOf[x] = AreaOf[z] /\ CanTransition(committed.zones[x].status, RestoreStatus)
                THEN SetStatus(committed.zones[x], RestoreStatus)
                ELSE committed.zones[x]
         /\ \A operator :
              /\ IsTable(LogsClosed(z, operator))
              /\ DOMAIN LogsClosed(z, operator) = DOMAIN committed.interlocks
              /\ \A i \in DOMAIN committed.interlocks :
                   LogsClosed(z, operator)[i] =
                     IF i \in LogsToClose(z) THEN Closed(committed.interlocks[i], operator)
                     ELSE committed.interlocks[i]
<1>1. \A x \in DOMAIN committed.zones : committed.zones[x].status \in ZoneStatuses
  BY CommittedFacts
<1>2. ZonesInterlocked(z) =
        [x \in DOMAIN committed.zones |->
           IF AreaOf[x] = AreaOf[z] THEN SetStatus(committed.zones[x], "interlocked")
           ELSE committed.zones[x]]
  BY <1>1, SameRules DEF ZonesInterlocked, Atomic!ZonesInterlocked, Atomic!ZonesWithArea
<1>3. MonitorsCommanded(z, r) =
        [m \in DOMAIN committed.monitors |->
           IF ZoneOf[m] \in Atomic!ZonesOfArea(AreaOf[z])
           THEN RaiseVentilation(committed.monitors[m], InterlockLevelForRatio(r))
           ELSE committed.monitors[m]]
  BY SameRules DEF MonitorsCommanded, Atomic!MonitorsWithCommands
<1>4. ZonesRestored(z) =
        [x \in DOMAIN committed.zones |->
           IF AreaOf[x] = AreaOf[z] /\ CanTransition(committed.zones[x].status, RestoreStatus)
           THEN SetStatus(committed.zones[x], RestoreStatus)
           ELSE committed.zones[x]]
  BY <1>1, SameRules DEF ZonesRestored, Atomic!ZonesWithArea
<1>5. \A operator :
        LogsClosed(z, operator) =
          [i \in DOMAIN committed.interlocks |->
             IF i \in LogsToClose(z) THEN Closed(committed.interlocks[i], operator)
             ELSE committed.interlocks[i]]
  BY DEF LogsClosed
<1>6. QED
  BY <1>2, <1>3, <1>4, <1>5 DEF IsTable

\* As long as nothing is committed, the request means the same.
LEMMA Kept ==
  ASSUME committed' = committed, NEW w \in Workers,
         local'[w].op = local[w].op, local'[w].zone = local[w].zone,
         local'[w].ratio = local[w].ratio
  PROVE  /\ \A z : ZonesInterlocked(z)' = ZonesInterlocked(z)
         /\ \A z, r : ZonesClassified(z, r)' = ZonesClassified(z, r)
         /\ \A z, r : MonitorsCommanded(z, r)' = MonitorsCommanded(z, r)
         /\ \A z, r : LogsWith(z, r)' = LogsWith(z, r)
         /\ \A z : ZonesRestored(z)' = ZonesRestored(z)
         /\ \A z, operator : LogsClosed(z, operator)' = LogsClosed(z, operator)
         /\ \A z : LogsToClose(z)' = LogsToClose(z)
         /\ \A a : Atomic!ZonesOfArea(a)' = Atomic!ZonesOfArea(a)
         /\ SampleAsked(local[w]) => SampleAsked(local[w])'
         /\ OverLimit(local[w])' <=> OverLimit(local[w])
         /\ IssueAsked(local[w]) => IssueAsked(local[w])'
         /\ AreaListed(local[w]) => AreaListed(local[w])'
         /\ RestoreAsked(local[w]) /\ local'[w].operator = local[w].operator
              => RestoreAsked(local[w])'
<1>1. /\ \A z : ZonesInterlocked(z)' = ZonesInterlocked(z)
      /\ \A z, r : ZonesClassified(z, r)' = ZonesClassified(z, r)
      /\ \A z, r : MonitorsCommanded(z, r)' = MonitorsCommanded(z, r)
      /\ \A z, r : LogsWith(z, r)' = LogsWith(z, r)
      /\ \A z : ZonesRestored(z)' = ZonesRestored(z)
      /\ \A z, operator : LogsClosed(z, operator)' = LogsClosed(z, operator)
      /\ \A z : LogsToClose(z)' = LogsToClose(z)
      /\ \A a : Atomic!ZonesOfArea(a)' = Atomic!ZonesOfArea(a)
  BY DEF ZonesInterlocked, ZonesClassified, MonitorsCommanded, LogsWith, ZonesRestored,
     LogsClosed, LogsToClose, Atomic!ZonesInterlocked, Atomic!ZonesWithArea, Atomic!ZonesOfArea,
     Atomic!MonitorsWithCommands, Atomic!InterlockLog
<1>2. SampleAsked(local[w]) => SampleAsked(local[w])'
  BY DEF SampleAsked, Atomic!ValidSample
<1>3. OverLimit(local[w])' <=> OverLimit(local[w])
  BY DEF OverLimit, Atomic!IsInterlocked
<1>4. IssueAsked(local[w]) => IssueAsked(local[w])'
  BY <1>2, <1>3 DEF IssueAsked, Candidate
<1>5. AreaListed(local[w]) => AreaListed(local[w])'
  BY DEF AreaListed, Atomic!ZonesOfArea
<1>6. RestoreAsked(local[w]) /\ local'[w].operator = local[w].operator
        => RestoreAsked(local[w])'
  BY DEF RestoreAsked
<1>7. QED
  BY <1>1, <1>2, <1>3, <1>4, <1>5, <1>6

-----------------------------------------------------------------------------
(* What a step commits. *)

CommitNow == committed' = IF Resting' THEN Store' ELSE committed

\* The step is one of AreaInterlock, or none, and keeps the invariant.
Simulated == CommitInv' /\ (Atomic!Next \/ committed' = committed)

\* A worker at rest has made no progress.
LEMMA NoProgress ==
  /\ \A known : /\ Progress("idle", known)
                /\ Progress("next_candidate", known)
  /\ \A w \in Workers : AtRest(w)' => Progress(pc[w], local[w])'
<1>1. \A known : Progress("idle", known) /\ Progress("next_candidate", known)
  BY DEF Progress, Ingesting, Interlocking, Restoring
<1>2. ASSUME NEW w \in Workers, AtRest(w)' PROVE Progress(pc[w], local[w])'
  <2>1. pc'[w] \in {"idle", "next_candidate"}
    BY <1>2 DEF AtRest
  <2>2. QED
    BY <2>1 DEF Progress, Ingesting, Interlocking, Restoring
<1>3. QED
  BY <1>1, <1>2

\* The progress of a worker stays what it is while only others move, and
\* leave the store alone.
LEMMA ProgressKept ==
  ASSUME NEW w \in Workers, Progress(pc[w], local[w]), pc'[w] = pc[w], local'[w] = local[w],
         UNCHANGED <<zones, monitors, interlocks, committed>>
  PROVE  Progress(pc[w], local[w])'
<1>1. PICK step, known : step = pc[w] /\ known = local[w]
  OBVIOUS
<1>2. /\ \A z : ZonesInterlocked(z)' = ZonesInterlocked(z)
      /\ \A z, r : ZonesClassified(z, r)' = ZonesClassified(z, r)
      /\ \A z, r : MonitorsCommanded(z, r)' = MonitorsCommanded(z, r)
      /\ \A z, r : LogsWith(z, r)' = LogsWith(z, r)
      /\ \A z : ZonesRestored(z)' = ZonesRestored(z)
      /\ \A z, operator : LogsClosed(z, operator)' = LogsClosed(z, operator)
      /\ \A z : LogsToClose(z)' = LogsToClose(z)
      /\ \A a : Atomic!ZonesOfArea(a)' = Atomic!ZonesOfArea(a)
  BY Kept
<1>3. /\ SampleAsked(known) => SampleAsked(known)'
      /\ OverLimit(known)' <=> OverLimit(known)
      /\ AreaListed(known) => AreaListed(known)'
  BY DEF SampleAsked, Atomic!ValidSample, OverLimit, Atomic!IsInterlocked, AreaListed,
     Atomic!ZonesOfArea
<1>4. /\ IssueAsked(known) => IssueAsked(known)'
      /\ RestoreAsked(known) => RestoreAsked(known)'
      /\ EditAsked(known) => EditAsked(known)'
  BY <1>3 DEF IssueAsked, RestoreAsked, EditAsked, Candidate
<1>5. Ingesting(step, known) => Ingesting(step, known)'
  BY <1>2, <1>3 DEF Ingesting, NothingWritten, Stored
<1>6. Interlocking(step, known) => Interlocking(step, known)'
  BY <1>2, <1>3, <1>4 DEF Interlocking, NothingWritten, Stored
<1>7. Restoring(step, known) => Restoring(step, known)'
  BY <1>2, <1>4 DEF Restoring, NothingWritten, Stored
<1>8. Progress(step, known) => Progress(step, known)'
  BY <1>4, <1>5, <1>6, <1>7 DEF Progress, NothingWritten, Stored
<1>9. QED
  BY <1>1, <1>8

\* While worker w is in the middle of a request, nothing is committed.
LEMMA NothingCommitted ==
  ASSUME NEW w \in Workers, CommitNow, ~AtRest(w)'
  PROVE  committed' = committed /\ ~Resting'
  BY DEF CommitNow, Resting

\* Worker w is in the middle of a request, old or new.
LEMMA GoesOn ==
  ASSUME IInv, CommitInv, NEW w \in Workers, Alone(w), OthersWait(w), CommitNow,
         ~AtRest(w)', Progress(pc[w], local[w])',
         local'[w].op = "sweep" => w = Sweeper,
         local'[w].op # "sweep" => local'[w].queue = {},
         w = Sweeper =>
           local'[w].queue = IF local'[w].op = "sweep"
                             THEN committed.sweep \ {Candidate(local[w])'} ELSE committed.sweep
  PROVE  Simulated
<1>1. committed' = committed /\ ~Resting'
  BY NothingCommitted
<1>2. \A v \in Workers \ {w} : AtRest(v)' /\ pc'[v] = pc[v] /\ local'[v] = local[v]
  BY DEF Alone, OthersWait, AtRest
<1>3. Atomic!TypeOK' /\ (\A m \in DOMAIN committed.monitors : ZoneOf[m] \in DOMAIN committed.zones)'
  BY <1>1 DEF CommitInv, Atomic!TypeOK
<1>4. \A v \in Workers : Progress(pc[v], local[v])'
  BY <1>2, NoProgress
<1>5. ASSUME NEW v \in Workers PROVE Sweeping(v)'
  <2>1. CASE v = w
    BY <2>1 DEF Sweeping, AtRest
  <2>2. CASE v # w
    BY <1>2, <2>2 DEF Sweeping, CommitInv
  <2>3. QED
    BY <2>1, <2>2
<1>6. QueueInv'
  <2>1. CASE w = Sweeper
    BY <1>1, <2>1 DEF QueueInv
  <2>2. CASE w # Sweeper
    <3>1. Sweeper \in Workers \ {w}
      BY <2>2 DEF Workers
    <3>2. AtRest(Sweeper) /\ AtRest(Sweeper)' /\ local'[Sweeper] = local[Sweeper]
      BY <1>2, <3>1 DEF Alone
    <3>3. QED
      BY <1>1, <3>2 DEF QueueInv, CommitInv
  <2>3. QED
    BY <2>1, <2>2
<1>7. QED
  BY <1>1, <1>3, <1>4, <1>5, <1>6 DEF CommitInv, Simulated

\* A request under way goes on.
LEMMA Continues ==
  ASSUME IInv, CommitInv, NEW w \in Workers, ~AtRest(w), Alone(w), OthersWait(w), CommitNow,
         ~AtRest(w)', Progress(pc[w], local[w])',
         local'[w].op = local[w].op, local'[w].zone = local[w].zone,
         local'[w].ratio = local[w].ratio, local'[w].queue = local[w].queue
  PROVE  Simulated
<1>1. Sweeping(w) /\ QueueInv
  BY DEF CommitInv
<1>2. Candidate(local[w])' = Candidate(local[w])
  BY DEF Candidate
<1>3. QED
  BY <1>1, <1>2, GoesOn DEF Sweeping, QueueInv

\* All workers are at rest again: the store is committed.
LEMMA Commits ==
  ASSUME IInv', Resting', CommitNow, \A v \in Workers : Sweeping(v)'
  PROVE  CommitInv' /\ committed' = Store'
<1>1. committed' = Store'
  BY DEF CommitNow
<1>2. /\ committed'.zones = zones' /\ committed'.monitors = monitors'
      /\ committed'.interlocks = interlocks'
      /\ committed'.sweep = local'[Sweeper].queue
  BY <1>1 DEF Store
<1>3. Sweeper \in Workers
  BY DEF Workers
<1>4. local'[Sweeper].queue \subseteq SweepCandidate
  BY <1>3 DEF IInv, TypeOK, LocalOK
<1>5. Atomic!TypeOK'
  BY <1>2, <1>4, SameRules DEF Atomic!TypeOK, IInv, TypeOK
<1>6. (\A m \in DOMAIN committed.monitors : ZoneOf[m] \in DOMAIN committed.zones)'
  BY <1>2 DEF IInv
<1>7. \A v \in Workers : Progress(pc[v], local[v])'
  BY NoProgress DEF Resting
<1>8. QueueInv'
  BY <1>2, <1>3 DEF QueueInv, Resting
<1>9. QED
  BY <1>1, <1>5, <1>6, <1>7, <1>8 DEF CommitInv

\* Worker w answers: what it has made of the store is committed.
LEMMA Answers ==
  ASSUME IInv, IInv', CommitInv, NEW w \in Workers, ~AtRest(w), Alone(w), OthersWait(w),
         CommitNow, Finish(w)
  PROVE  /\ CommitInv'
         /\ committed'.zones = zones' /\ committed'.monitors = monitors'
         /\ committed'.interlocks = interlocks'
         /\ committed'.sweep = IF local[w].op = "sweep"
                               THEN committed.sweep \ {Candidate(local[w])} ELSE committed.sweep
<1> DEFINE known == local[w]
<1>1. PICK next : /\ next = IF known.op = "sweep"
                             THEN [Fresh EXCEPT !.op = "sweep", !.queue = known.queue] ELSE Fresh
                  /\ pc'[w] = (IF known.op = "sweep" THEN "next_candidate" ELSE "idle")
                  /\ local'[w] = next
  BY KnownFacts DEF Finish, Go, TypeOK
<1>2. known.op = "sweep" => next.op = "sweep" /\ next.queue = known.queue
  BY <1>1, FreshFields DEF Fields
<1>3. known.op # "sweep" => next = Fresh
  BY <1>1
<1>4. \A v \in Workers \ {w} : AtRest(v)' /\ pc'[v] = pc[v] /\ local'[v] = local[v]
  BY DEF Alone, OthersWait, AtRest
<1>5. Resting'
  BY <1>1, <1>4 DEF Resting, AtRest
<1>6. Sweeping(w) /\ QueueInv /\ \A v \in Workers : Sweeping(v)
  BY DEF CommitInv
<1>7. Sweeping(w)'
  BY <1>1, <1>2, <1>3, <1>6, FreshValues DEF Sweeping
<1>8. \A v \in Workers : Sweeping(v)'
  BY <1>4, <1>6, <1>7 DEF Sweeping
<1>9. CommitInv' /\ committed' = Store'
  BY <1>5, <1>8, Commits
<1>10. local'[Sweeper].queue = IF known.op = "sweep"
                               THEN committed.sweep \ {Candidate(known)} ELSE committed.sweep
  <2>1. CASE w = Sweeper
    BY <1>1, <1>2, <1>3, <1>6, <2>1, FreshValues DEF Sweeping, QueueInv
  <2>2. CASE w # Sweeper
    <3>1. Sweeper \in Workers \ {w}
      BY <2>2 DEF Workers
    <3>2. AtRest(Sweeper) /\ local'[Sweeper] = local[Sweeper]
      BY <1>4, <3>1 DEF Alone
    <3>3. known.op # "sweep"
      BY <1>6, <2>2 DEF Sweeping
    <3>4. QED
      BY <1>6, <3>2, <3>3 DEF QueueInv
  <2>3. QED
    BY <2>1, <2>2
<1>11. QED
  BY <1>9, <1>10 DEF Store

-----------------------------------------------------------------------------
(* Each step of a request is a step of AreaInterlock, or none. *)

\* What the lemma of every action of a request under way may use.
Busy(w) ==
  /\ SaveMayFail = FALSE
  /\ IInv /\ IInv' /\ SerialInv /\ CommitInv /\ CommitNow
  /\ ~AtRest(w) /\ Alone(w) /\ OthersWait(w)

\* A sample is about a stored monitor zone in a stored clean zone.
LEMMA SampleFacts ==
  ASSUME CommitInv, NEW known, SampleAsked(known)
  PROVE  /\ known.op = "ingest" /\ known.ratio \in Ratios /\ known.ratio \in Nat
         /\ known.zone \in DOMAIN committed.zones
         /\ committed.zones[known.zone] \in CleanZoneRecord
         /\ \E m \in Monitors, at \in Times :
              Atomic!ValidSample(m, at) /\ known.zone = ZoneOf[m]
<1>1. PICK m \in Monitors, at \in Times : Atomic!ValidSample(m, at) /\ known.zone = ZoneOf[m]
  BY DEF SampleAsked
<1>2. m \in DOMAIN committed.monitors
  BY <1>1 DEF Atomic!ValidSample
<1>3. QED
  BY <1>1, <1>2, CommittedFacts, ConfigAssumption DEF SampleAsked

\* Process reads the clean zone and decides.
LEMMA IngestGetZoneSimulated ==
  ASSUME NEW w \in Workers, Busy(w), IngestGetZone(w)
  PROVE  Simulated
<1> DEFINE known == local[w]
           z     == known.zone
           zone  == committed.zones[z]
<1>0. IInv /\ CommitInv /\ CommitNow
  BY DEF Busy
<1>1. NothingWritten /\ SampleAsked(known) /\ pc[w] = "get_zone"
  BY DEF Busy, CommitInv, Progress, Ingesting, IngestGetZone
<1>2. /\ z \in DOMAIN committed.zones /\ zone \in CleanZoneRecord
      /\ UNCHANGED <<zones, monitors, interlocks>>
  BY <1>0, <1>1, SampleFacts DEF IngestGetZone
<1>3. ZonesClassified(z, known.ratio) =
        [committed.zones EXCEPT ![z] = SetStatus(zone, IngestedStatus(zone.status, known.ratio))]
  BY DEF ZonesClassified
<1>4. zones[z] = zone
  BY <1>1 DEF NothingWritten, Stored
<1>5. CASE /\ known.ratio >= OverLimitRatio /\ zone.status # "interlocked"
           /\ Go(w, "list_area", known)
  <2>1. pc'[w] = "list_area" /\ local'[w] = known
    BY <1>0, <1>5, KnownFacts DEF Go, TypeOK
  <2>2. ~AtRest(w)'
    BY <2>1 DEF AtRest
  <2>3. committed' = committed
    BY <1>0, <2>2, NothingCommitted
  <2>4. NothingWritten'
    BY <1>1, <1>2, <2>3 DEF NothingWritten, Stored
  <2>5. IssueAsked(known)
    BY <1>1, <1>2, <1>5 DEF IssueAsked, OverLimit, Atomic!IsInterlocked
  <2>6. IssueAsked(local[w])'
    BY <2>1, <2>3, <2>5, Kept
  <2>7. Progress(pc[w], local[w])'
    BY <2>1, <2>4, <2>6 DEF Progress, Ingesting, Interlocking, Restoring
  <2>8. QED
    BY <2>1, <2>2, <2>7, Continues DEF Busy
<1>6. CASE /\ ~(known.ratio >= OverLimitRatio /\ zone.status # "interlocked")
           /\ IngestedStatus(zone.status, known.ratio) = zone.status
           /\ Go(w, "reload_zone", known)
  <2>1. pc'[w] = "reload_zone" /\ local'[w] = known
    BY <1>0, <1>6, KnownFacts DEF Go, TypeOK
  <2>2. ~AtRest(w)'
    BY <2>1 DEF AtRest
  <2>3. committed' = committed
    BY <1>0, <2>2, NothingCommitted
  <2>4. ZonesClassified(z, known.ratio) = committed.zones
    <3>1. SetStatus(zone, IngestedStatus(zone.status, known.ratio)) = zone
      BY <1>6 DEF SetStatus
    <3>2. IsTable(committed.zones)
      BY <1>0, CommittedFacts
    <3>3. [committed.zones EXCEPT ![z] = committed.zones[z]] = committed.zones
      BY <3>2 DEF IsTable
    <3>4. QED
      BY <1>3, <3>1, <3>3
  <2>5. Stored(ZonesClassified(z, known.ratio), committed.monitors, committed.interlocks)'
    <3>1. ZonesClassified(local[w].zone, local[w].ratio)' = committed.zones
      BY <2>1, <2>3, <2>4, Kept
    <3>2. QED
      BY <1>1, <1>2, <2>1, <2>3, <3>1 DEF NothingWritten, Stored
  <2>6. ~OverLimit(known)
    BY <1>6 DEF OverLimit, Atomic!IsInterlocked
  <2>7. SampleAsked(local[w])' /\ ~OverLimit(local[w])'
    BY <1>1, <2>1, <2>3, <2>6, Kept
  <2>8. Progress(pc[w], local[w])'
    BY <2>1, <2>5, <2>7 DEF Progress, Ingesting, Interlocking, Restoring
  <2>9. QED
    BY <2>1, <2>2, <2>8, Continues DEF Busy
<1>7. CASE /\ ~(known.ratio >= OverLimitRatio /\ zone.status # "interlocked")
           /\ Go(w, "update_state",
                 [known EXCEPT
                    !.cleanZone = SetStatus(zone, IngestedStatus(zone.status, known.ratio))])
  <2>1. PICK y : y = SetStatus(zone, IngestedStatus(zone.status, known.ratio))
    OBVIOUS
  <2>2. /\ pc'[w] = "update_state" /\ local'[w].cleanZone = y
        /\ local'[w].op = known.op /\ local'[w].zone = z /\ local'[w].ratio = known.ratio
        /\ local'[w].queue = known.queue
    BY <1>0, <1>7, <2>1, KnownFacts DEF Go, TypeOK, Fields
  <2>3. ~AtRest(w)'
    BY <2>2 DEF AtRest
  <2>4. committed' = committed
    BY <1>0, <2>3, NothingCommitted
  <2>5. ~OverLimit(known)
    BY <1>7 DEF OverLimit, Atomic!IsInterlocked
  <2>6. SampleAsked(local[w])' /\ ~OverLimit(local[w])'
    BY <1>1, <2>2, <2>4, <2>5, Kept
  <2>7. NothingWritten'
    BY <1>1, <1>2, <2>4 DEF NothingWritten, Stored
  <2>8. ZonesClassified(z, known.ratio)[z] = y
    BY <1>2, <1>3, <2>1
  <2>9. (local[w].cleanZone = ZonesClassified(local[w].zone, local[w].ratio)[local[w].zone])'
    BY <2>2, <2>4, <2>8, Kept
  <2>10. Progress(pc[w], local[w])'
    BY <2>2, <2>6, <2>7, <2>9 DEF Progress, Ingesting, Interlocking, Restoring
  <2>11. QED
    BY <2>2, <2>3, <2>10, Continues DEF Busy
<1>8. QED
  BY <1>4, <1>5, <1>6, <1>7 DEF IngestGetZone

\* Process writes the new state.
LEMMA IngestUpdateStateSimulated ==
  ASSUME NEW w \in Workers, Busy(w), IngestUpdateState(w)
  PROVE  Simulated
<1> DEFINE known == local[w]
           z     == known.zone
<1>0. IInv /\ CommitInv /\ CommitNow
  BY DEF Busy
<1>1. /\ NothingWritten /\ SampleAsked(known) /\ ~OverLimit(known)
      /\ known.cleanZone = ZonesClassified(z, known.ratio)[z]
  BY DEF Busy, CommitInv, Progress, Ingesting, IngestUpdateState
<1>2. z \in DOMAIN committed.zones
  BY <1>0, <1>1, SampleFacts
<1>3. zones' = ZonesClassified(z, known.ratio) /\ UNCHANGED <<monitors, interlocks>>
  BY <1>1, <1>2 DEF IngestUpdateState, NothingWritten, Stored, ZonesClassified
<1>4. /\ pc'[w] = "reload_zone"
      /\ local'[w].op = known.op /\ local'[w].zone = z /\ local'[w].ratio = known.ratio
      /\ local'[w].queue = known.queue
  BY <1>0, KnownFacts DEF Busy, IngestUpdateState, GoAfterWrite, Go, TypeOK, Fields
<1>5. ~AtRest(w)'
  BY <1>4 DEF AtRest
<1>6. committed' = committed
  BY <1>0, <1>5, NothingCommitted
<1>7. SampleAsked(local[w])' /\ ~OverLimit(local[w])'
  BY <1>1, <1>4, <1>6, Kept
<1>8. ZonesClassified(local[w].zone, local[w].ratio)' = ZonesClassified(z, known.ratio)
  BY <1>4, <1>6, Kept
<1>9. (Stored(ZonesClassified(local[w].zone, local[w].ratio), committed.monitors,
              committed.interlocks))'
  BY <1>1, <1>3, <1>6, <1>8 DEF NothingWritten, Stored
<1>10. Progress(pc[w], local[w])'
  BY <1>4, <1>7, <1>9 DEF Progress, Ingesting, Interlocking, Restoring
<1>11. QED
  BY <1>4, <1>5, <1>10, Continues DEF Busy

\* What an ingest has made of the store before it writes the ratio.
Ingested(known) ==
  \/ /\ ~OverLimit(known)
     /\ Stored(ZonesClassified(known.zone, known.ratio), committed.monitors,
               committed.interlocks)
  \/ /\ OverLimit(known) /\ AreaListed(known)
     /\ Stored(ZonesInterlocked(known.zone), MonitorsCommanded(known.zone, known.ratio),
               LogsWith(known.zone, known.ratio))

\* An ingest ends as IngestWithoutInterlock or as IngestOverLimit.
LEMMA IngestEnds ==
  ASSUME NEW w \in Workers, Busy(w), SampleAsked(local[w]), Ingested(local[w]),
         zones' = [zones EXCEPT ![local[w].zone] =
                     [zones[local[w].zone] EXCEPT !.lastParticleRatio = local[w].ratio]],
         UNCHANGED <<monitors, interlocks>>, Finish(w)
  PROVE  Simulated
<1> DEFINE known == local[w]
           zone  == committed.zones[known.zone]
<1>1. PICK z, r : z = known.zone /\ r = known.ratio
  OBVIOUS
<1>0. IInv /\ CommitInv
  BY DEF Busy
<1>2. /\ known.op = "ingest" /\ r \in Ratios /\ r \in Nat
      /\ z \in DOMAIN committed.zones
  BY <1>0, <1>1, SampleFacts
<1>3. PICK m \in Monitors, at \in Times : Atomic!ValidSample(m, at) /\ z = ZoneOf[m]
  BY <1>1 DEF SampleAsked
<1>4. /\ CommitInv'
      /\ committed'.zones = zones' /\ committed'.monitors = monitors
      /\ committed'.interlocks = interlocks
      /\ committed'.sweep = committed.sweep
  BY <1>2, Answers DEF Busy
<1>5. zones' = [zones EXCEPT ![z] = [zones[z] EXCEPT !.lastParticleRatio = r]]
  BY <1>1
<1>6. CASE /\ ~OverLimit(known)
           /\ Stored(ZonesClassified(z, r), committed.monitors, committed.interlocks)
  <2>1. r < OverLimitRatio \/ committed.zones[z].status = "interlocked"
    BY <1>1, <1>2, <1>6, ConfigAssumption DEF OverLimit, Atomic!IsInterlocked
  <2>2. zones = [committed.zones EXCEPT ![z] =
                   SetStatus(committed.zones[z], IngestedStatus(committed.zones[z].status, r))]
    BY <1>6 DEF Stored, ZonesClassified
  <2>3. zones' = [committed.zones EXCEPT ![z] =
                    [SetStatus(committed.zones[z],
                               IngestedStatus(committed.zones[z].status, r))
                       EXCEPT !.lastParticleRatio = r]]
    BY <1>2, <1>5, <2>2
  <2>4. Atomic!IngestWithoutInterlock(m, r, at)
    BY <1>3, <1>4, <1>6, <2>1, <2>3, SameRules DEF Atomic!IngestWithoutInterlock, Stored
  <2>5. QED
    BY <1>2, <1>4, <2>4 DEF Simulated, Atomic!Next
<1>7. CASE /\ OverLimit(known) /\ AreaListed(known)
           /\ Stored(ZonesInterlocked(z), MonitorsCommanded(z, r), LogsWith(z, r))
  <2>1. r >= OverLimitRatio /\ ~Atomic!IsInterlocked(z)
    BY <1>1, <1>7 DEF OverLimit
  <2>2. /\ Len(committed.interlocks) < MaxLogs
        /\ \A x \in Atomic!ZonesOfArea(AreaOf[z]) :
             Atomic!CanTransition(committed.zones[x].status, "interlocked")
    BY <1>1, <1>7, SameRules DEF AreaListed
  <2>3. Atomic!CommandAndLog(z, r)
    BY <1>2, <1>4, <1>7, <2>2, SameRules
    DEF Atomic!CommandAndLog, Stored, MonitorsCommanded, LogsWith
  <2>4. committed'.zones = [Atomic!ZonesInterlocked(z) EXCEPT ![z].lastParticleRatio = r]
    BY <1>4, <1>5, <1>7 DEF Stored, ZonesInterlocked
  <2>5. Atomic!IngestOverLimit(m, r, at)
    BY <1>3, <1>4, <2>1, <2>3, <2>4 DEF Atomic!IngestOverLimit
  <2>6. QED
    BY <1>2, <1>4, <2>5 DEF Simulated, Atomic!Next
<1>8. QED
  BY <1>1, <1>6, <1>7 DEF Ingested

\* Process reads the clean zone again, and writes its ratio.
LEMMA IngestRatioSimulated ==
  ASSUME NEW w \in Workers, Busy(w), IngestReloadZone(w) \/ IngestUpdateRatio(w)
  PROVE  Simulated
<1> DEFINE known == local[w]
           z     == known.zone
<1>0. IInv /\ CommitInv /\ CommitNow
  BY DEF Busy
<1>1. /\ SampleAsked(known) /\ Ingested(known)
      /\ UNCHANGED <<monitors, interlocks>>
  BY DEF Busy, CommitInv, Progress, Ingesting, Ingested, IngestReloadZone, IngestUpdateRatio
<1>2. z \in DOMAIN zones /\ zones[z] \in CleanZoneRecord /\ StoreOK
  BY <1>0, KnownFacts, StoredFacts DEF Held, Steps, IngestReloadZone, IngestUpdateRatio
<1>3. CASE IngestReloadZone(w) /\ zones[z].lastParticleRatio = known.ratio /\ Finish(w)
  <2>1. [zones[z] EXCEPT !.lastParticleRatio = known.ratio] = zones[z]
    BY <1>2, <1>3 DEF CleanZoneRecord
  <2>2. [zones EXCEPT ![z] = zones[z]] = zones
    BY <1>2 DEF StoreOK
  <2>3. zones' = [zones EXCEPT ![z] = [zones[z] EXCEPT !.lastParticleRatio = known.ratio]]
    BY <1>3, <2>1, <2>2 DEF IngestReloadZone
  <2>4. QED
    BY <1>1, <1>3, <2>3, IngestEnds
<1>4. CASE /\ IngestReloadZone(w)
           /\ Go(w, "update_ratio",
                 [known EXCEPT !.cleanZone =
                    [zones[z] EXCEPT !.lastParticleRatio = known.ratio]])
  <2>1. PICK y : y = [zones[z] EXCEPT !.lastParticleRatio = known.ratio]
    OBVIOUS
  <2>2. /\ pc'[w] = "update_ratio" /\ local'[w].cleanZone = y
        /\ local'[w].op = known.op /\ local'[w].zone = z /\ local'[w].ratio = known.ratio
        /\ local'[w].queue = known.queue
    BY <1>0, <1>4, <2>1, KnownFacts DEF Go, TypeOK, Fields
  <2>3. ~AtRest(w)'
    BY <2>2 DEF AtRest
  <2>4. committed' = committed
    BY <1>0, <2>3, NothingCommitted
  <2>5. SampleAsked(local[w])'
    BY <1>1, <2>2, <2>4, Kept
  <2>6. UNCHANGED <<zones, monitors, interlocks>>
    BY <1>4 DEF IngestReloadZone
  <2>7. Ingested(local[w])'
    <3>1. /\ OverLimit(local[w])' <=> OverLimit(known)
          /\ AreaListed(known) => AreaListed(local[w])'
          /\ ZonesClassified(local[w].zone, local[w].ratio)' = ZonesClassified(z, known.ratio)
          /\ ZonesInterlocked(local[w].zone)' = ZonesInterlocked(z)
          /\ MonitorsCommanded(local[w].zone, local[w].ratio)' = MonitorsCommanded(z, known.ratio)
          /\ LogsWith(local[w].zone, local[w].ratio)' = LogsWith(z, known.ratio)
      BY <2>2, <2>4, Kept
    <3>2. QED
      BY <1>1, <2>4, <2>6, <3>1 DEF Ingested, Stored
  <2>8. (local[w].cleanZone = [zones[local[w].zone] EXCEPT !.lastParticleRatio = local[w].ratio])'
    BY <2>1, <2>2, <2>6
  <2>9. Progress(pc[w], local[w])'
    BY <2>2, <2>5, <2>7, <2>8 DEF Progress, Ingesting, Ingested, Interlocking, Restoring
  <2>10. QED
    BY <2>2, <2>3, <2>9, Continues DEF Busy
<1>5. CASE IngestUpdateRatio(w)
  <2>1. known.cleanZone = [zones[z] EXCEPT !.lastParticleRatio = known.ratio]
    BY <1>5 DEF Busy, CommitInv, Progress, Ingesting, IngestUpdateRatio
  <2>2. Finish(w)
    BY <1>5 DEF Busy, IngestUpdateRatio, FinishAfterWrite
  <2>3. QED
    BY <1>1, <1>5, <2>1, <2>2, IngestEnds DEF IngestUpdateRatio
<1>6. QED
  BY <1>3, <1>4, <1>5 DEF IngestReloadZone

\* IssueForArea has some zones of the area left to write, or none.
LEMMA AreaProgress ==
  ASSUME NEW w \in Workers, Busy(w), IssueAsked(local[w]), AreaListed(local[w]),
         NEW z, z = local[w].zone, NEW left,
         zones' = PartWritten(committed.zones, ZonesInterlocked(z), left),
         monitors' = committed.monitors, interlocks' = committed.interlocks,
         NEW copies, DOMAIN copies = left, ToBeWritten(copies, ZonesInterlocked(z)),
         pc'[w] = (IF left = {} THEN "list_command_zones" ELSE "update_area"),
         local'[w].affected = Atomic!ZonesOfArea(AreaOf[z]), local'[w].areaZones = copies,
         local'[w].op = local[w].op, local'[w].zone = z, local'[w].ratio = local[w].ratio,
         local'[w].queue = local[w].queue
  PROVE  Simulated
<1>0. CommitInv /\ CommitNow
  BY DEF Busy
<1>1. ~AtRest(w)'
  BY DEF AtRest
<1>2. committed' = committed
  BY <1>0, <1>1, NothingCommitted
<1>3. IssueAsked(local[w])' /\ AreaListed(local[w])'
  BY <1>2, Kept
<1>4. /\ ZonesInterlocked(local[w].zone)' = ZonesInterlocked(z)
      /\ Atomic!ZonesOfArea(AreaOf[local[w].zone])' = Atomic!ZonesOfArea(AreaOf[z])
  BY <1>2, Kept
<1>5. CASE left = {}
  <2>1. zones' = ZonesInterlocked(z)
    <3>1. /\ IsTable(ZonesInterlocked(z))
          /\ DOMAIN ZonesInterlocked(z) = DOMAIN committed.zones
      BY <1>0, TargetFacts
    <3>2. QED
      BY <1>5, <3>1, AllPartWritten
  <2>2. Stored(ZonesInterlocked(local[w].zone), committed.monitors, committed.interlocks)'
    BY <1>2, <1>4, <2>1 DEF Stored
  <2>3. Progress(pc[w], local[w])'
    BY <1>3, <1>4, <1>5, <2>2 DEF Progress, Ingesting, Interlocking, Restoring
  <2>4. QED
    BY <1>1, <2>3, Continues DEF Busy
<1>6. CASE left # {}
  <2>1. Stored(PartWritten(committed.zones, ZonesInterlocked(local[w].zone),
                           DOMAIN local[w].areaZones),
               committed.monitors, committed.interlocks)'
    BY <1>2, <1>4 DEF Stored
  <2>2. ToBeWritten(local[w].areaZones, ZonesInterlocked(local[w].zone))'
    BY <1>4 DEF ToBeWritten
  <2>3. Progress(pc[w], local[w])'
    BY <1>3, <1>4, <1>6, <2>1, <2>2 DEF Progress, Ingesting, Interlocking, Restoring
  <2>4. QED
    BY <1>1, <2>3, Continues DEF Busy
<1>7. QED
  BY <1>5, <1>6

\* IssueForArea lists the area.
LEMMA IssueListAreaSimulated ==
  ASSUME NEW w \in Workers, Busy(w), IssueListArea(w)
  PROVE  Simulated
<1> DEFINE known == local[w]
           z     == known.zone
<1>0. IInv /\ CommitInv /\ CommitNow
  BY DEF Busy
<1>1. NothingWritten /\ IssueAsked(known) /\ UNCHANGED <<zones, monitors, interlocks>>
  BY DEF Busy, CommitInv, Progress, Interlocking, IssueListArea
<1>2. PICK area : area = A!ZonesOfArea(AreaOf[z])
  OBVIOUS
<1>3. /\ area = Atomic!ZonesOfArea(AreaOf[z]) /\ area \subseteq DOMAIN committed.zones
      /\ area = {x \in DOMAIN committed.zones : AreaOf[x] = AreaOf[z]}
  BY <1>1, <1>2 DEF NothingWritten, Stored, A!ZonesOfArea, Atomic!ZonesOfArea
<1>4. PICK pending : pending = {x \in area : zones[x].status # "interlocked"}
  OBVIOUS
<1>5. PICK copies : copies = [x \in pending |-> SetStatus(zones[x], "interlocked")]
  OBVIOUS
<1>6. /\ Len(interlocks) + Cardinality({v \in Workers : Issuing(v)}) < MaxLogs
      /\ \A x \in pending : CanTransition(zones[x].status, "interlocked")
      /\ Go(w, IF pending = {} THEN "list_command_zones" ELSE "update_area",
            [known EXCEPT !.affected = area, !.areaZones = copies])
  BY <1>2, <1>4, <1>5 DEF IssueListArea
<1>7. Len(interlocks) < MaxLogs
  <2>1. \A v \in Workers : ~Issuing(v)
    BY DEF Busy, Alone, AtRest, Issuing, IssueListArea
  <2>2. {v \in Workers : Issuing(v)} = {}
    BY <2>1
  <2>3. Len(interlocks) \in Nat
    BY <1>0, KnownFacts, StoredFacts
  <2>4. QED
    BY <1>6, <2>2, <2>3, FS_EmptySet
<1>8. AreaListed(known)
  <2>1. \A x \in area : CanTransition(committed.zones[x].status, "interlocked")
    BY <1>1, <1>4, <1>6 DEF NothingWritten, Stored, CanTransition
  <2>2. QED
    BY <1>1, <1>3, <1>7, <2>1 DEF AreaListed, NothingWritten, Stored
<1>9. /\ \A x \in DOMAIN committed.zones : x \notin pending =>
           ZonesInterlocked(z)[x] = committed.zones[x]
      /\ ToBeWritten(copies, ZonesInterlocked(z))
      /\ DOMAIN copies = pending
  <2>1. \A x \in DOMAIN committed.zones :
          ZonesInterlocked(z)[x] = IF AreaOf[x] = AreaOf[z]
                                   THEN SetStatus(committed.zones[x], "interlocked")
                                   ELSE committed.zones[x]
    BY <1>0, TargetFacts
  <2>2. \A x \in area : x \notin pending =>
          SetStatus(committed.zones[x], "interlocked") = committed.zones[x]
    BY <1>1, <1>4 DEF NothingWritten, Stored, SetStatus
  <2>3. \A x \in pending : copies[x] = SetStatus(committed.zones[x], "interlocked")
    BY <1>1, <1>5 DEF NothingWritten, Stored
  <2>4. pending \subseteq area /\ DOMAIN copies = pending
    BY <1>4, <1>5
  <2>5. DOMAIN ZonesInterlocked(z) = DOMAIN committed.zones
    BY <1>0, TargetFacts
  <2>6. QED
    BY <1>3, <2>1, <2>2, <2>3, <2>4, <2>5 DEF ToBeWritten
<1>10. PartWritten(committed.zones, ZonesInterlocked(z), pending) = zones
  <2>1. /\ IsTable(committed.zones) /\ IsTable(ZonesInterlocked(z))
        /\ DOMAIN ZonesInterlocked(z) = DOMAIN committed.zones
    BY <1>0, CommittedFacts, TargetFacts
  <2>2. PartWritten(committed.zones, ZonesInterlocked(z), pending) = committed.zones
    BY <1>9, <2>1, NothingPartWritten
  <2>3. QED
    BY <1>1, <2>2 DEF NothingWritten, Stored
<1>11. /\ pc'[w] = IF pending = {} THEN "list_command_zones" ELSE "update_area"
       /\ local'[w].affected = area /\ local'[w].areaZones = copies
       /\ local'[w].op = known.op /\ local'[w].zone = z /\ local'[w].ratio = known.ratio
       /\ local'[w].queue = known.queue
  BY <1>0, <1>6, KnownFacts DEF Go, TypeOK, Fields
<1>12. QED
  BY <1>1, <1>3, <1>8, <1>9, <1>10, <1>11, AreaProgress DEF NothingWritten, Stored

\* IssueForArea writes a zone of the area.
LEMMA IssueUpdateZoneSimulated ==
  ASSUME NEW w \in Workers, Busy(w), NEW x \in DOMAIN local[w].areaZones, IssueUpdateZone(w, x)
  PROVE  Simulated
<1> DEFINE known == local[w]
           z     == known.zone
           mine  == DOMAIN known.areaZones
<1>0. IInv /\ CommitInv
  BY DEF Busy
<1>1. /\ IssueAsked(known) /\ AreaListed(known)
      /\ known.affected = Atomic!ZonesOfArea(AreaOf[z])
      /\ Stored(PartWritten(committed.zones, ZonesInterlocked(z), mine), committed.monitors,
                committed.interlocks)
      /\ ToBeWritten(known.areaZones, ZonesInterlocked(z))
  BY DEF Busy, CommitInv, Progress, Interlocking, IssueUpdateZone
<1>2. PICK copies : copies = Drop(known.areaZones, x)
  OBVIOUS
<1>3. DOMAIN copies = mine \ {x} /\ ToBeWritten(copies, ZonesInterlocked(z))
  <2>1. /\ DOMAIN copies = mine \ {x}
        /\ \A y \in mine : y # x => copies[y] = known.areaZones[y]
    BY <1>2, DropFacts
  <2>2. QED
    BY <1>1, <2>1 DEF ToBeWritten
<1>4. x \in DOMAIN committed.zones /\ known.areaZones[x] = ZonesInterlocked(z)[x]
  BY <1>0, <1>1, TargetFacts DEF ToBeWritten
<1>5. zones' = PartWritten(committed.zones, ZonesInterlocked(z), mine \ {x})
  <2>1. zones' = [zones EXCEPT ![x] = ZonesInterlocked(z)[x]]
    BY <1>4 DEF IssueUpdateZone
  <2>2. zones = PartWritten(committed.zones, ZonesInterlocked(z), mine)
    BY <1>1 DEF Stored
  <2>3. QED
    BY <1>4, <2>1, <2>2, PartWrittenNext
<1>6. /\ pc'[w] = IF mine \ {x} = {} THEN "list_command_zones" ELSE "update_area"
      /\ local'[w].affected = known.affected /\ local'[w].areaZones = copies
      /\ local'[w].op = known.op /\ local'[w].zone = z /\ local'[w].ratio = known.ratio
      /\ local'[w].queue = known.queue
  <2>1. Go(w, IF mine \ {x} = {} THEN "list_command_zones" ELSE "update_area",
           [known EXCEPT !.areaZones = copies])
    BY <1>2, <1>3 DEF Busy, IssueUpdateZone, GoAfterWrite
  <2>2. QED
    BY <1>0, <2>1, KnownFacts DEF Go, TypeOK, Fields
<1>7. UNCHANGED <<monitors, interlocks>>
  BY DEF IssueUpdateZone
<1>8. QED
  BY <1>1, <1>3, <1>5, <1>6, <1>7, AreaProgress DEF Stored

\* applyInterlockCommands lists the zones of the area.
LEMMA IssueListCommandZonesSimulated ==
  ASSUME NEW w \in Workers, Busy(w), IssueListCommandZones(w)
  PROVE  Simulated
<1> DEFINE known == local[w]
           z     == known.zone
<1>0. IInv /\ CommitInv /\ CommitNow
  BY DEF Busy
<1>1. /\ IssueAsked(known) /\ AreaListed(known)
      /\ known.affected = Atomic!ZonesOfArea(AreaOf[z])
      /\ Stored(ZonesInterlocked(z), committed.monitors, committed.interlocks)
      /\ UNCHANGED <<zones, monitors, interlocks>>
  BY DEF Busy, CommitInv, Progress, Interlocking, IssueListCommandZones
<1>2. A!ZonesOfArea(AreaOf[z]) = Atomic!ZonesOfArea(AreaOf[z])
  <2>1. DOMAIN zones = DOMAIN committed.zones
    BY <1>0, <1>1, TargetFacts DEF Stored
  <2>2. QED
    BY <2>1 DEF A!ZonesOfArea, Atomic!ZonesOfArea
<1>3. PICK area : area = Atomic!ZonesOfArea(AreaOf[z])
  OBVIOUS
<1>4. /\ pc'[w] = "list_monitors" /\ local'[w].inArea = area
      /\ local'[w].affected = known.affected
      /\ local'[w].op = known.op /\ local'[w].zone = z /\ local'[w].ratio = known.ratio
      /\ local'[w].queue = known.queue
  <2>1. Go(w, "list_monitors", [known EXCEPT !.inArea = area])
    BY <1>2, <1>3 DEF IssueListCommandZones
  <2>2. QED
    BY <1>0, <2>1, KnownFacts DEF Go, TypeOK, Fields
<1>5. ~AtRest(w)'
  BY <1>4 DEF AtRest
<1>6. committed' = committed
  BY <1>0, <1>5, NothingCommitted
<1>7. /\ IssueAsked(local[w])' /\ AreaListed(local[w])'
      /\ ZonesInterlocked(local[w].zone)' = ZonesInterlocked(z)
      /\ Atomic!ZonesOfArea(AreaOf[local[w].zone])' = area
  BY <1>1, <1>3, <1>4, <1>6, Kept
<1>8. Stored(ZonesInterlocked(local[w].zone), committed.monitors, committed.interlocks)'
  BY <1>1, <1>6, <1>7 DEF Stored
<1>9. Progress(pc[w], local[w])'
  BY <1>1, <1>3, <1>4, <1>7, <1>8 DEF Progress, Ingesting, Interlocking, Restoring
<1>10. QED
  BY <1>4, <1>5, <1>9, Continues DEF Busy

\* Some monitor zones of the area are left to command, or none.
LEMMA CommandProgress ==
  ASSUME NEW w \in Workers, Busy(w), IssueAsked(local[w]), AreaListed(local[w]),
         local[w].op # "edit", NEW z, z = local[w].zone, NEW r, r = local[w].ratio,
         local[w].affected = Atomic!ZonesOfArea(AreaOf[z]), NEW left,
         zones' = ZonesInterlocked(z),
         monitors' = PartWritten(committed.monitors, MonitorsCommanded(z, r), left),
         interlocks' = committed.interlocks,
         NEW copies, DOMAIN copies = left, ToBeWritten(copies, MonitorsCommanded(z, r)),
         pc'[w] = (IF left = {} THEN "create_log" ELSE "update_monitors"),
         local'[w].affected = local[w].affected, local'[w].equipment = copies,
         local'[w].op = local[w].op, local'[w].zone = z, local'[w].ratio = r,
         local'[w].queue = local[w].queue
  PROVE  Simulated
<1>0. CommitInv /\ CommitNow
  BY DEF Busy
<1>1. ~AtRest(w)'
  BY DEF AtRest
<1>2. committed' = committed
  BY <1>0, <1>1, NothingCommitted
<1>3. IssueAsked(local[w])' /\ AreaListed(local[w])'
  BY <1>2, Kept
<1>4. /\ ZonesInterlocked(local[w].zone)' = ZonesInterlocked(z)
      /\ MonitorsCommanded(local[w].zone, local[w].ratio)' = MonitorsCommanded(z, r)
      /\ Atomic!ZonesOfArea(AreaOf[local[w].zone])' = Atomic!ZonesOfArea(AreaOf[z])
  BY <1>2, Kept
<1>5. CASE left = {}
  <2>1. monitors' = MonitorsCommanded(z, r)
    <3>1. /\ IsTable(MonitorsCommanded(z, r))
          /\ DOMAIN MonitorsCommanded(z, r) = DOMAIN committed.monitors
      BY <1>0, TargetFacts
    <3>2. QED
      BY <1>5, <3>1, AllPartWritten
  <2>2. Stored(ZonesInterlocked(local[w].zone),
               MonitorsCommanded(local[w].zone, local[w].ratio), committed.interlocks)'
    BY <1>2, <1>4, <2>1 DEF Stored
  <2>3. Progress(pc[w], local[w])'
    BY <1>3, <1>4, <1>5, <2>2 DEF Progress, Ingesting, Interlocking, Restoring
  <2>4. QED
    BY <1>1, <2>3, Continues DEF Busy
<1>6. CASE left # {}
  <2>1. Stored(ZonesInterlocked(local[w].zone),
               PartWritten(committed.monitors,
                           MonitorsCommanded(local[w].zone, local[w].ratio),
                           DOMAIN local[w].equipment),
               committed.interlocks)'
    BY <1>2, <1>4 DEF Stored
  <2>2. ToBeWritten(local[w].equipment, MonitorsCommanded(local[w].zone, local[w].ratio))'
    BY <1>4 DEF ToBeWritten
  <2>3. Progress(pc[w], local[w])'
    BY <1>3, <1>4, <1>6, <2>1, <2>2 DEF Progress, Ingesting, Interlocking, Restoring
  <2>4. QED
    BY <1>1, <2>3, Continues DEF Busy
<1>7. QED
  BY <1>5, <1>6

\* applyInterlockCommands lists the monitor zones.
LEMMA IssueListMonitorsSimulated ==
  ASSUME NEW w \in Workers, Busy(w), IssueListMonitors(w)
  PROVE  Simulated
<1> DEFINE known == local[w]
<1>1. PICK z, r : z = known.zone /\ r = known.ratio
  OBVIOUS
<1>0. IInv /\ CommitInv
  BY DEF Busy
<1>2. /\ IssueAsked(known) /\ AreaListed(known)
      /\ known.affected = Atomic!ZonesOfArea(AreaOf[z])
      /\ known.inArea = Atomic!ZonesOfArea(AreaOf[z])
      /\ zones = ZonesInterlocked(z) /\ monitors = committed.monitors
      /\ interlocks = committed.interlocks
      /\ UNCHANGED <<zones, monitors, interlocks>>
  BY <1>1 DEF Busy, CommitInv, Progress, Interlocking, Stored, IssueListMonitors
<1>3. PICK mine : mine = {m \in DOMAIN monitors : ZoneOf[m] \in known.inArea}
  OBVIOUS
<1>4. PICK copies : copies = [m \in mine |-> RaiseVentilation(monitors[m],
                                                              InterlockLevelForRatio(r))]
  OBVIOUS
<1>5. /\ pc'[w] = IF mine = {} THEN "create_log" ELSE "update_monitors"
      /\ local'[w].equipment = copies /\ local'[w].affected = known.affected
      /\ local'[w].op = known.op /\ local'[w].zone = z /\ local'[w].ratio = r
      /\ local'[w].queue = known.queue
  <2>1. Go(w, IF mine = {} THEN "create_log" ELSE "update_monitors",
           [known EXCEPT !.inArea = {}, !.equipment = copies])
    BY <1>1, <1>3, <1>4 DEF IssueListMonitors
  <2>2. QED
    BY <1>0, <1>1, <2>1, KnownFacts DEF Go, TypeOK, Fields
<1>6. /\ DOMAIN copies = mine
      /\ ToBeWritten(copies, MonitorsCommanded(z, r))
      /\ \A m \in DOMAIN committed.monitors : m \notin mine =>
           MonitorsCommanded(z, r)[m] = committed.monitors[m]
  <2>1. /\ DOMAIN MonitorsCommanded(z, r) = DOMAIN committed.monitors
        /\ \A m \in DOMAIN committed.monitors :
             MonitorsCommanded(z, r)[m] =
               IF ZoneOf[m] \in Atomic!ZonesOfArea(AreaOf[z])
               THEN RaiseVentilation(committed.monitors[m], InterlockLevelForRatio(r))
               ELSE committed.monitors[m]
    BY <1>0, TargetFacts
  <2>2. \A m \in mine : copies[m] = RaiseVentilation(monitors[m], InterlockLevelForRatio(r))
    BY <1>4
  <2>3. DOMAIN copies = mine
    BY <1>4
  <2>4. QED
    BY <1>2, <1>3, <2>1, <2>2, <2>3 DEF ToBeWritten
<1>7. PartWritten(committed.monitors, MonitorsCommanded(z, r), mine) = monitors
  <2>1. IsTable(committed.monitors)
    BY <1>0, CommittedFacts
  <2>2. QED
    BY <1>2, <1>6, <2>1, NothingPartWritten
<1>8. known.op # "edit"
  BY <1>0, KnownFacts DEF Held, IssueListMonitors
<1>9. QED
  BY <1>1, <1>2, <1>5, <1>6, <1>7, <1>8, CommandProgress

\* applyInterlockCommands writes a monitor zone.
LEMMA CommandMonitorSimulated ==
  ASSUME NEW w \in Workers, Busy(w), NEW m \in DOMAIN local[w].equipment,
         UpdateMonitor(w, m), local[w].op # "edit"
  PROVE  Simulated
<1> DEFINE known == local[w]
           mine  == DOMAIN known.equipment
<1>1. PICK z, r : z = known.zone /\ r = known.ratio
  OBVIOUS
<1>0. IInv /\ CommitInv
  BY DEF Busy
<1>2. /\ IssueAsked(known) /\ AreaListed(known)
      /\ known.affected = Atomic!ZonesOfArea(AreaOf[z])
      /\ zones = ZonesInterlocked(z) /\ interlocks = committed.interlocks
      /\ monitors = PartWritten(committed.monitors, MonitorsCommanded(z, r), mine)
      /\ ToBeWritten(known.equipment, MonitorsCommanded(z, r))
      /\ UNCHANGED <<zones, interlocks>>
  BY <1>1 DEF Busy, CommitInv, Progress, Interlocking, Stored, UpdateMonitor
<1>3. PICK copies : copies = Drop(known.equipment, m)
  OBVIOUS
<1>4. DOMAIN copies = mine \ {m} /\ ToBeWritten(copies, MonitorsCommanded(z, r))
  <2>1. /\ DOMAIN copies = mine \ {m}
        /\ \A y \in mine : y # m => copies[y] = known.equipment[y]
    BY <1>3, DropFacts
  <2>2. QED
    BY <1>2, <2>1 DEF ToBeWritten
<1>5. monitors' = PartWritten(committed.monitors, MonitorsCommanded(z, r), mine \ {m})
  <2>1. m \in DOMAIN committed.monitors /\ known.equipment[m] = MonitorsCommanded(z, r)[m]
    BY <1>0, <1>2, TargetFacts DEF ToBeWritten
  <2>2. monitors' = [monitors EXCEPT ![m] = MonitorsCommanded(z, r)[m]]
    BY <2>1 DEF UpdateMonitor
  <2>3. QED
    BY <1>2, <2>1, <2>2, PartWrittenNext
<1>6. /\ pc'[w] = IF mine \ {m} = {} THEN "create_log" ELSE "update_monitors"
      /\ local'[w].equipment = copies /\ local'[w].affected = known.affected
      /\ local'[w].op = known.op /\ local'[w].zone = z /\ local'[w].ratio = r
      /\ local'[w].queue = known.queue
  <2>1. Go(w, IF mine \ {m} = {} THEN "create_log" ELSE "update_monitors",
           [known EXCEPT !.equipment = copies])
    BY <1>3, <1>4 DEF Busy, UpdateMonitor, GoAfterWrite
  <2>2. QED
    BY <1>0, <1>1, <2>1, KnownFacts DEF Go, TypeOK, Fields
<1>7. QED
  BY <1>1, <1>2, <1>4, <1>5, <1>6, CommandProgress

\* An edited monitor zone is written.
LEMMA EditSimulated ==
  ASSUME NEW w \in Workers, Busy(w), NEW m \in DOMAIN local[w].equipment,
         UpdateMonitor(w, m), local[w].op = "edit"
  PROVE  Simulated
<1> DEFINE known == local[w]
<1>0. IInv /\ CommitInv
  BY DEF Busy
<1>1. NothingWritten /\ EditAsked(known)
  BY DEF Busy, CommitInv, Progress, UpdateMonitor
<1>2. /\ m \in DOMAIN committed.monitors
      /\ \/ \E b \in BOOLEAN :
              known.equipment[m] = [committed.monitors[m] EXCEPT !.inMaintenance = b]
         \/ \E due \in Times :
              known.equipment[m] = [committed.monitors[m] EXCEPT !.calibrationDue = due]
  <2>1. PICK n \in DOMAIN committed.monitors :
          /\ DOMAIN known.equipment = {n}
          /\ \/ \E b \in BOOLEAN :
                  known.equipment[n] = [committed.monitors[n] EXCEPT !.inMaintenance = b]
             \/ \E due \in Times :
                  known.equipment[n] = [committed.monitors[n] EXCEPT !.calibrationDue = due]
    BY <1>1 DEF EditAsked
  <2>2. m = n
    BY <2>1
  <2>3. QED
    BY <2>1, <2>2
<1>3. Finish(w) /\ UNCHANGED <<zones, interlocks>>
  BY DEF Busy, UpdateMonitor, FinishAfterWrite
<1>4. /\ CommitInv'
      /\ committed'.zones = zones' /\ committed'.monitors = monitors'
      /\ committed'.interlocks = interlocks'
      /\ committed'.sweep = committed.sweep
  BY <1>3, Answers DEF Busy
<1>5. /\ committed'.zones = committed.zones /\ committed'.interlocks = committed.interlocks
      /\ committed'.monitors = [committed.monitors EXCEPT ![m] = known.equipment[m]]
  BY <1>1, <1>3, <1>4 DEF NothingWritten, Stored, UpdateMonitor
<1>6. m \in Monitors
  BY <1>0, <1>2 DEF CommitInv, Atomic!TypeOK
<1>7. ASSUME NEW b \in BOOLEAN,
             known.equipment[m] = [committed.monitors[m] EXCEPT !.inMaintenance = b]
      PROVE  Atomic!SetMaintenance(m, b)
  BY <1>2, <1>4, <1>5, <1>7 DEF Atomic!SetMaintenance
<1>8. ASSUME NEW due \in Times,
             known.equipment[m] = [committed.monitors[m] EXCEPT !.calibrationDue = due]
      PROVE  Atomic!SetCalibration(m, due)
  BY <1>2, <1>4, <1>5, <1>8 DEF Atomic!SetCalibration
<1>9. Atomic!Next
  BY <1>2, <1>6, <1>7, <1>8 DEF Atomic!Next
<1>10. QED
  BY <1>4, <1>9 DEF Simulated

\* IssueForArea creates the log.
LEMMA IssueCreateLogSimulated ==
  ASSUME NEW w \in Workers, Busy(w), IssueCreateLog(w)
  PROVE  Simulated
<1> DEFINE known == local[w]
<1>1. PICK z, r : z = known.zone /\ r = known.ratio
  OBVIOUS
<1>0. IInv /\ CommitInv /\ CommitNow
  BY DEF Busy
<1>2. /\ IssueAsked(known) /\ AreaListed(known)
      /\ known.affected = Atomic!ZonesOfArea(AreaOf[z])
      /\ zones = ZonesInterlocked(z) /\ monitors = MonitorsCommanded(z, r)
      /\ interlocks = committed.interlocks
      /\ UNCHANGED <<zones, monitors>>
  BY <1>1 DEF Busy, CommitInv, Progress, Interlocking, Stored, IssueCreateLog
<1>3. interlocks' = LogsWith(z, r)
  BY <1>1, <1>2, SameRules
  DEF IssueCreateLog, LogsWith, Atomic!InterlockLog
<1>4. CASE known.op = "ingest"
  <2>1. SampleAsked(known) /\ OverLimit(known)
    BY <1>2, <1>4 DEF IssueAsked
  <2>2. /\ pc'[w] = "reload_zone"
        /\ local'[w].op = known.op /\ local'[w].zone = z /\ local'[w].ratio = r
        /\ local'[w].queue = known.queue
    BY <1>0, <1>1, <1>4, KnownFacts DEF Busy, IssueCreateLog, GoAfterWrite, Go, TypeOK, Fields
  <2>3. ~AtRest(w)'
    BY <2>2 DEF AtRest
  <2>4. committed' = committed
    BY <1>0, <2>3, NothingCommitted
  <2>5. /\ SampleAsked(local[w])' /\ OverLimit(local[w])' /\ AreaListed(local[w])'
        /\ ZonesInterlocked(local[w].zone)' = ZonesInterlocked(z)
        /\ MonitorsCommanded(local[w].zone, local[w].ratio)' = MonitorsCommanded(z, r)
        /\ LogsWith(local[w].zone, local[w].ratio)' = LogsWith(z, r)
    BY <1>1, <1>2, <2>1, <2>2, <2>4, Kept
  <2>6. Stored(ZonesInterlocked(local[w].zone),
               MonitorsCommanded(local[w].zone, local[w].ratio),
               LogsWith(local[w].zone, local[w].ratio))'
    BY <1>2, <1>3, <2>5 DEF Stored
  <2>7. Progress(pc[w], local[w])'
    BY <2>2, <2>5, <2>6 DEF Progress, Ingesting, Interlocking, Restoring
  <2>8. QED
    BY <1>1, <2>2, <2>3, <2>7, Continues DEF Busy
<1>5. CASE known.op # "ingest"
  <2>1. Finish(w)
    BY <1>5 DEF Busy, IssueCreateLog, FinishAfterWrite
  <2>2. /\ CommitInv'
        /\ committed'.zones = zones /\ committed'.monitors = monitors
        /\ committed'.interlocks = interlocks'
        /\ committed'.sweep = IF known.op = "sweep"
                              THEN committed.sweep \ {Candidate(known)} ELSE committed.sweep
    BY <1>2, <2>1, Answers DEF Busy
  <2>3. z \in DOMAIN committed.zones
    BY <1>1, <1>2 DEF IssueAsked
  <2>4. /\ Len(committed.interlocks) < MaxLogs
        /\ \A x \in Atomic!ZonesOfArea(AreaOf[z]) :
             Atomic!CanTransition(committed.zones[x].status, "interlocked")
    BY <1>1, <1>2, SameRules DEF AreaListed
  <2>5. Atomic!IssueForArea(z, r)
    BY <1>2, <1>3, <2>2, <2>3, <2>4, SameRules
    DEF Atomic!IssueForArea, Atomic!CommandAndLog, MonitorsCommanded, LogsWith, ZonesInterlocked
  <2>6. z \in Zones
    BY <1>0, <2>3 DEF CommitInv, Atomic!TypeOK
  <2>7. CASE known.op = "issue"
    <3>1. PICK asked \in Ratios : r = IF asked < One THEN 150 ELSE asked
      BY <1>1, <1>2, <2>7 DEF IssueAsked, SampleAsked
    <3>2. Atomic!IssueManually(z, asked)
      BY <2>2, <2>5, <2>7, <3>1, SameRules DEF Atomic!IssueManually
    <3>3. QED
      BY <2>2, <2>6, <3>2 DEF Simulated, Atomic!Next
  <2>8. CASE known.op = "sweep"
    <3>1. PICK c : c = Candidate(known)
      OBVIOUS
    <3>2. c \in committed.sweep /\ c.zone = z /\ c.ratio = r
      BY <1>1, <1>2, <2>8, <3>1 DEF IssueAsked, SampleAsked, Candidate
    <3>3. Atomic!SweepIssue(c)
      BY <2>2, <2>5, <2>8, <3>1, <3>2 DEF Atomic!SweepIssue
    <3>4. QED
      BY <2>2, <3>2, <3>3 DEF Simulated, Atomic!Next
  <2>9. QED
    BY <1>2, <1>5, <2>7, <2>8 DEF IssueAsked, SampleAsked
<1>6. QED
  BY <1>4, <1>5

\* Restore has some zones of the area left to write, or none.
LEMMA RestoreProgress ==
  ASSUME NEW w \in Workers, Busy(w), RestoreAsked(local[w]),
         NEW z, z = local[w].zone, NEW left,
         zones' = PartWritten(committed.zones, ZonesRestored(z), left),
         monitors' = committed.monitors, interlocks' = committed.interlocks,
         NEW copies, DOMAIN copies = left, ToBeWritten(copies, ZonesRestored(z)),
         pc'[w] = (IF left = {} THEN "list_logs" ELSE "update_restored"),
         local'[w].areaZones = copies, local'[w].operator = local[w].operator,
         local'[w].op = local[w].op, local'[w].zone = z, local'[w].ratio = local[w].ratio,
         local'[w].queue = local[w].queue
  PROVE  Simulated
<1>0. CommitInv /\ CommitNow
  BY DEF Busy
<1>1. ~AtRest(w)'
  BY DEF AtRest
<1>2. committed' = committed
  BY <1>0, <1>1, NothingCommitted
<1>3. RestoreAsked(local[w])' /\ ZonesRestored(local[w].zone)' = ZonesRestored(z)
  BY <1>2, Kept
<1>4. CASE left = {}
  <2>1. zones' = ZonesRestored(z)
    <3>1. IsTable(ZonesRestored(z)) /\ DOMAIN ZonesRestored(z) = DOMAIN committed.zones
      BY <1>0, TargetFacts
    <3>2. QED
      BY <1>4, <3>1, AllPartWritten
  <2>2. Stored(ZonesRestored(local[w].zone), committed.monitors, committed.interlocks)'
    BY <1>2, <1>3, <2>1 DEF Stored
  <2>3. Progress(pc[w], local[w])'
    BY <1>3, <1>4, <2>2 DEF Progress, Ingesting, Interlocking, Restoring
  <2>4. QED
    BY <1>1, <2>3, Continues DEF Busy
<1>5. CASE left # {}
  <2>1. Stored(PartWritten(committed.zones, ZonesRestored(local[w].zone),
                           DOMAIN local[w].areaZones),
               committed.monitors, committed.interlocks)'
    BY <1>2, <1>3 DEF Stored
  <2>2. ToBeWritten(local[w].areaZones, ZonesRestored(local[w].zone))'
    BY <1>3 DEF ToBeWritten
  <2>3. Progress(pc[w], local[w])'
    BY <1>3, <1>5, <2>1, <2>2 DEF Progress, Ingesting, Interlocking, Restoring
  <2>4. QED
    BY <1>1, <2>3, Continues DEF Busy
<1>6. QED
  BY <1>4, <1>5

\* Restore lists the area.
LEMMA RestoreListAreaSimulated ==
  ASSUME NEW w \in Workers, Busy(w), RestoreListArea(w)
  PROVE  Simulated
<1> DEFINE known == local[w]
<1>1. PICK z : z = known.zone
  OBVIOUS
<1>0. IInv /\ CommitInv
  BY DEF Busy
<1>2. /\ NothingWritten /\ RestoreAsked(known) /\ UNCHANGED <<zones, monitors, interlocks>>
  BY DEF Busy, CommitInv, Progress, Restoring, RestoreListArea
<1>3. PICK pending : pending = {x \in A!ZonesOfArea(AreaOf[z]) :
                                  /\ zones[x].status # RestoreStatus
                                  /\ CanTransition(zones[x].status, RestoreStatus)}
  OBVIOUS
<1>4. PICK copies : copies = [x \in pending |-> SetStatus(zones[x], RestoreStatus)]
  OBVIOUS
<1>5. /\ pc'[w] = IF pending = {} THEN "list_logs" ELSE "update_restored"
      /\ local'[w].areaZones = copies
      /\ local'[w].op = known.op /\ local'[w].zone = z /\ local'[w].ratio = known.ratio
      /\ local'[w].queue = known.queue /\ local'[w].operator = known.operator
  <2>1. Go(w, IF pending = {} THEN "list_logs" ELSE "update_restored",
           [known EXCEPT !.areaZones = copies])
    BY <1>1, <1>3, <1>4 DEF RestoreListArea
  <2>2. QED
    BY <1>0, <1>1, <2>1, KnownFacts DEF Go, TypeOK, Fields
<1>6. /\ DOMAIN copies = pending
      /\ ToBeWritten(copies, ZonesRestored(z))
      /\ \A x \in DOMAIN committed.zones : x \notin pending =>
           ZonesRestored(z)[x] = committed.zones[x]
  <2>1. /\ DOMAIN ZonesRestored(z) = DOMAIN committed.zones
        /\ \A x \in DOMAIN committed.zones :
             ZonesRestored(z)[x] =
               IF AreaOf[x] = AreaOf[z] /\ CanTransition(committed.zones[x].status, RestoreStatus)
               THEN SetStatus(committed.zones[x], RestoreStatus)
               ELSE committed.zones[x]
    BY <1>0, TargetFacts
  <2>2. pending = {x \in DOMAIN committed.zones :
                     /\ AreaOf[x] = AreaOf[z]
                     /\ committed.zones[x].status # RestoreStatus
                     /\ CanTransition(committed.zones[x].status, RestoreStatus)}
    BY <1>2, <1>3 DEF NothingWritten, Stored, A!ZonesOfArea
  <2>3. /\ DOMAIN copies = pending
        /\ \A x \in pending : copies[x] = SetStatus(committed.zones[x], RestoreStatus)
    BY <1>2, <1>4 DEF NothingWritten, Stored
  <2>4. \A x \in DOMAIN committed.zones : committed.zones[x].status = RestoreStatus =>
          SetStatus(committed.zones[x], RestoreStatus) = committed.zones[x]
    BY DEF SetStatus
  <2>5. QED
    BY <2>1, <2>2, <2>3, <2>4 DEF ToBeWritten
<1>7. PartWritten(committed.zones, ZonesRestored(z), pending) = zones
  <2>1. IsTable(committed.zones)
    BY <1>0, CommittedFacts
  <2>2. PartWritten(committed.zones, ZonesRestored(z), pending) = committed.zones
    BY <1>6, <2>1, NothingPartWritten
  <2>3. QED
    BY <1>2, <2>2 DEF NothingWritten, Stored
<1>8. QED
  BY <1>1, <1>2, <1>5, <1>6, <1>7, RestoreProgress DEF NothingWritten, Stored

\* Restore writes a zone of the area.
LEMMA RestoreUpdateZoneSimulated ==
  ASSUME NEW w \in Workers, Busy(w), NEW x \in DOMAIN local[w].areaZones,
         RestoreUpdateZone(w, x)
  PROVE  Simulated
<1> DEFINE known == local[w]
           mine  == DOMAIN known.areaZones
<1>1. PICK z : z = known.zone
  OBVIOUS
<1>0. IInv /\ CommitInv
  BY DEF Busy
<1>2. /\ RestoreAsked(known)
      /\ zones = PartWritten(committed.zones, ZonesRestored(z), mine)
      /\ monitors = committed.monitors /\ interlocks = committed.interlocks
      /\ ToBeWritten(known.areaZones, ZonesRestored(z))
      /\ UNCHANGED <<monitors, interlocks>>
  BY <1>1 DEF Busy, CommitInv, Progress, Restoring, Stored, RestoreUpdateZone
<1>3. PICK copies : copies = Drop(known.areaZones, x)
  OBVIOUS
<1>4. DOMAIN copies = mine \ {x} /\ ToBeWritten(copies, ZonesRestored(z))
  <2>1. /\ DOMAIN copies = mine \ {x}
        /\ \A y \in mine : y # x => copies[y] = known.areaZones[y]
    BY <1>3, DropFacts
  <2>2. QED
    BY <1>2, <2>1 DEF ToBeWritten
<1>5. zones' = PartWritten(committed.zones, ZonesRestored(z), mine \ {x})
  <2>1. x \in DOMAIN committed.zones /\ known.areaZones[x] = ZonesRestored(z)[x]
    BY <1>0, <1>2, TargetFacts DEF ToBeWritten
  <2>2. zones' = [zones EXCEPT ![x] = ZonesRestored(z)[x]]
    BY <2>1 DEF RestoreUpdateZone
  <2>3. QED
    BY <1>2, <2>1, <2>2, PartWrittenNext
<1>6. /\ pc'[w] = IF mine \ {x} = {} THEN "list_logs" ELSE "update_restored"
      /\ local'[w].areaZones = copies
      /\ local'[w].op = known.op /\ local'[w].zone = z /\ local'[w].ratio = known.ratio
      /\ local'[w].queue = known.queue /\ local'[w].operator = known.operator
  <2>1. Go(w, IF mine \ {x} = {} THEN "list_logs" ELSE "update_restored",
           [known EXCEPT !.areaZones = copies])
    BY <1>3, <1>4 DEF Busy, RestoreUpdateZone, GoAfterWrite
  <2>2. QED
    BY <1>0, <1>1, <2>1, KnownFacts DEF Go, TypeOK, Fields
<1>7. QED
  BY <1>1, <1>2, <1>4, <1>5, <1>6, RestoreProgress

\* The last log is closed, or there was none to close.
LEMMA RestoreEnds ==
  ASSUME NEW w \in Workers, Busy(w), RestoreAsked(local[w]), NEW z, z = local[w].zone,
         NEW operator, operator = local[w].operator,
         zones' = ZonesRestored(z), monitors' = committed.monitors,
         interlocks' = LogsClosed(z, operator), Finish(w)
  PROVE  Simulated
<1>0. CommitInv
  BY DEF Busy
<1>1. /\ local[w].op = "restore" /\ operator \in Operators /\ z \in DOMAIN committed.zones
      /\ CanTransition(committed.zones[z].status, RestoreStatus)
  BY DEF RestoreAsked
<1>2. /\ CommitInv'
      /\ committed'.zones = ZonesRestored(z) /\ committed'.monitors = committed.monitors
      /\ committed'.interlocks = LogsClosed(z, operator)
      /\ committed'.sweep = committed.sweep
  BY <1>1, Answers DEF Busy
<1>3. ZonesRestored(z) =
        Atomic!ZonesWithArea(AreaOf[z],
          {s \in Atomic!ZoneStatuses : Atomic!CanTransition(s, Atomic!RestoreStatus)},
          Atomic!RestoreStatus)
  <2>1. {s \in Atomic!ZoneStatuses : Atomic!CanTransition(s, Atomic!RestoreStatus)}
          = {s \in ZoneStatuses : CanTransition(s, RestoreStatus)}
    BY SameRules
  <2>2. QED
    BY <2>1, SameRules DEF ZonesRestored
<1>4. Atomic!Restore(z, operator)
  BY <1>1, <1>2, <1>3, SameRules DEF Atomic!Restore, LogsClosed, LogsToClose
<1>5. z \in Zones
  BY <1>0, <1>1 DEF CommitInv, Atomic!TypeOK
<1>6. QED
  BY <1>1, <1>2, <1>4, <1>5 DEF Simulated, Atomic!Next

\* Some logs of the area are left to close.
LEMMA CloseProgress ==
  ASSUME NEW w \in Workers, Busy(w), RestoreAsked(local[w]), NEW z, z = local[w].zone,
         NEW operator, operator = local[w].operator, local'[w].operator = operator,
         NEW left, left \subseteq LogsToClose(z),
         zones' = ZonesRestored(z), monitors' = committed.monitors,
         interlocks' = PartWritten(committed.interlocks, LogsClosed(z, operator), left),
         pc'[w] = "close_logs", local'[w].logs = left,
         local'[w].op = local[w].op, local'[w].zone = z, local'[w].ratio = local[w].ratio,
         local'[w].queue = local[w].queue
  PROVE  Simulated
<1>1. ~AtRest(w)'
  BY DEF AtRest
<1>2. committed' = committed
  BY <1>1, NothingCommitted DEF Busy
<1>3. /\ RestoreAsked(local[w])' /\ ZonesRestored(local[w].zone)' = ZonesRestored(z)
      /\ LogsClosed(local[w].zone, local[w].operator)' = LogsClosed(z, operator)
      /\ LogsToClose(local[w].zone)' = LogsToClose(z)
  BY <1>2, Kept
<1>4. /\ Stored(ZonesRestored(local[w].zone), committed.monitors,
                PartWritten(committed.interlocks, LogsClosed(local[w].zone, local[w].operator),
                            local[w].logs))'
      /\ (local[w].logs \subseteq LogsToClose(local[w].zone))'
  BY <1>2, <1>3 DEF Stored
<1>5. Progress(pc[w], local[w])'
  BY <1>3, <1>4 DEF Progress, Ingesting, Interlocking, Restoring
<1>6. QED
  BY <1>1, <1>5, Continues DEF Busy

\* Restore lists the open logs of the area.
LEMMA RestoreListLogsSimulated ==
  ASSUME NEW w \in Workers, Busy(w), RestoreListLogs(w)
  PROVE  Simulated
<1> DEFINE known == local[w]
<1>1. PICK z, operator : z = known.zone /\ operator = known.operator
  OBVIOUS
<1>0. IInv /\ CommitInv
  BY DEF Busy
<1>2. /\ RestoreAsked(known)
      /\ zones = ZonesRestored(z) /\ monitors = committed.monitors
      /\ interlocks = committed.interlocks
      /\ UNCHANGED <<zones, monitors, interlocks>>
  BY <1>1 DEF Busy, CommitInv, Progress, Restoring, Stored, RestoreListLogs
<1>3. PICK mine : mine = {i \in DOMAIN interlocks :
                            interlocks[i].open /\ interlocks[i].area = AreaOf[z]}
  OBVIOUS
<1>4. /\ mine = LogsToClose(z)
      /\ \A i \in DOMAIN committed.interlocks : i \notin mine =>
           LogsClosed(z, operator)[i] = committed.interlocks[i]
  <2>1. mine = LogsToClose(z)
    BY <1>2, <1>3 DEF LogsToClose
  <2>2. \A i \in DOMAIN committed.interlocks :
          LogsClosed(z, operator)[i] =
            IF i \in LogsToClose(z) THEN Closed(committed.interlocks[i], operator)
            ELSE committed.interlocks[i]
    BY DEF LogsClosed
  <2>3. QED
    BY <2>1, <2>2
<1>5. PartWritten(committed.interlocks, LogsClosed(z, operator), mine) = interlocks
  <2>1. IsTable(committed.interlocks)
    BY <1>0, CommittedFacts
  <2>2. PartWritten(committed.interlocks, LogsClosed(z, operator), mine) = committed.interlocks
    BY <1>4, <2>1, NothingPartWritten
  <2>3. QED
    BY <1>2, <2>2
<1>6. CASE mine = {} /\ Finish(w)
  <2>1. /\ IsTable(LogsClosed(z, operator))
        /\ DOMAIN LogsClosed(z, operator) = DOMAIN committed.interlocks
    BY <1>0, TargetFacts
  <2>2. PartWritten(committed.interlocks, LogsClosed(z, operator), mine) = LogsClosed(z, operator)
    BY <1>6, <2>1, AllPartWritten
  <2>3. QED
    BY <1>1, <1>2, <1>5, <1>6, <2>2, RestoreEnds
<1>7. CASE Go(w, "close_logs", [known EXCEPT !.logs = mine])
  <2>1. /\ pc'[w] = "close_logs" /\ local'[w].logs = mine
        /\ local'[w].op = known.op /\ local'[w].zone = z /\ local'[w].ratio = known.ratio
        /\ local'[w].queue = known.queue /\ local'[w].operator = operator
    BY <1>0, <1>1, <1>7, KnownFacts DEF Go, TypeOK, Fields
  <2>2. QED
    BY <1>1, <1>2, <1>4, <1>5, <2>1, CloseProgress
<1>8. QED
  BY <1>1, <1>3, <1>6, <1>7 DEF RestoreListLogs

\* Restore closes a log.
LEMMA RestoreCloseLogSimulated ==
  ASSUME NEW w \in Workers, Busy(w), NEW i \in local[w].logs, RestoreCloseLog(w, i)
  PROVE  Simulated
<1> DEFINE known == local[w]
           mine  == known.logs
<1>1. PICK z, operator : z = known.zone /\ operator = known.operator
  OBVIOUS
<1>0. IInv /\ CommitInv
  BY DEF Busy
<1>2. /\ RestoreAsked(known)
      /\ zones = ZonesRestored(z) /\ monitors = committed.monitors
      /\ mine \subseteq LogsToClose(z)
      /\ interlocks = PartWritten(committed.interlocks, LogsClosed(z, operator), mine)
      /\ UNCHANGED <<zones, monitors>>
  BY <1>1 DEF Busy, CommitInv, Progress, Restoring, Stored, RestoreCloseLog
<1>3. /\ i \in DOMAIN committed.interlocks /\ interlocks[i] = committed.interlocks[i]
      /\ i \in LogsToClose(z)
  <2>1. i \in LogsToClose(z) /\ i \in DOMAIN committed.interlocks
    BY <1>2 DEF LogsToClose
  <2>2. QED
    BY <1>2, <2>1, StillToBeWritten
<1>4. interlocks' = PartWritten(committed.interlocks, LogsClosed(z, operator), mine \ {i})
  <2>1. LogsClosed(z, operator)[i] = Closed(committed.interlocks[i], operator)
    BY <1>0, <1>3, TargetFacts
  <2>2. interlocks' = [interlocks EXCEPT ![i] = Closed(interlocks[i], operator)]
    BY <1>1 DEF RestoreCloseLog
  <2>3. interlocks' = [interlocks EXCEPT ![i] = LogsClosed(z, operator)[i]]
    BY <1>3, <2>1, <2>2
  <2>4. QED
    BY <1>2, <1>3, <2>3, PartWrittenNext
<1>5. CASE mine \ {i} = {} /\ Finish(w)
  <2>1. /\ IsTable(LogsClosed(z, operator))
        /\ DOMAIN LogsClosed(z, operator) = DOMAIN committed.interlocks
    BY <1>0, TargetFacts
  <2>2. PartWritten(committed.interlocks, LogsClosed(z, operator), mine \ {i}) = LogsClosed(z, operator)
    BY <1>5, <2>1, AllPartWritten
  <2>3. QED
    BY <1>1, <1>2, <1>4, <1>5, <2>2, RestoreEnds
<1>6. CASE Go(w, "close_logs", [known EXCEPT !.logs = mine \ {i}])
  <2>1. /\ pc'[w] = "close_logs" /\ local'[w].logs = mine \ {i}
        /\ local'[w].op = known.op /\ local'[w].zone = z /\ local'[w].ratio = known.ratio
        /\ local'[w].queue = known.queue /\ local'[w].operator = operator
    BY <1>0, <1>1, <1>6, KnownFacts DEF Go, TypeOK, Fields
  <2>2. QED
    BY <1>1, <1>2, <1>4, <2>1, CloseProgress
<1>7. QED
  BY <1>5, <1>6 DEF Busy, RestoreCloseLog, FinishAfterWrite, GoAfterWrite

\* A sweep that is done, whether or not a request is under way.
LEMMA SweepEndSimulated ==
  ASSUME IInv, IInv', CommitInv, CommitNow, NEW w \in Workers, OthersWait(w), SweepEnd(w)
  PROVE  Simulated
<1>1. /\ pc[w] = "next_candidate" /\ local[w].queue = {}
      /\ pc'[w] = "idle" /\ local'[w] = Fresh
      /\ UNCHANGED <<zones, monitors, interlocks>>
  BY KnownFacts DEF SweepEnd, GiveUp, Go, TypeOK
<1>2. w = Sweeper
  BY <1>1 DEF CommitInv, Sweeping
<1>3. \A v \in Workers : v # w => pc'[v] = pc[v] /\ local'[v] = local[v]
  BY DEF OthersWait
<1>4. \A v \in Workers : AtRest(v)' <=> AtRest(v)
  BY <1>1, <1>3 DEF AtRest
<1>5. committed.sweep = {} /\ local'[Sweeper].queue = {}
  BY <1>1, <1>2, FreshValues DEF CommitInv, QueueInv, AtRest
<1>6. ASSUME NEW v \in Workers PROVE Sweeping(v)'
  <2>1. CASE v = w
    BY <1>1, <2>1, FreshValues DEF Sweeping
  <2>2. CASE v # w
    BY <1>3, <2>2 DEF Sweeping, CommitInv
  <2>3. QED
    BY <2>1, <2>2
<1>7. CASE Resting'
  <2>1. CommitInv' /\ committed' = Store'
    BY <1>6, <1>7, Commits
  <2>2. committed = Store
    BY <1>4, <1>7 DEF CommitInv, Resting
  <2>3. Store' = Store
    BY <1>1, <1>2, <1>5 DEF Store
  <2>4. QED
    BY <2>1, <2>2, <2>3 DEF Simulated
<1>8. CASE ~Resting'
  <2>1. committed' = committed
    BY <1>8 DEF CommitNow
  <2>2. Atomic!TypeOK' /\ (\A m \in DOMAIN committed.monitors : ZoneOf[m] \in DOMAIN committed.zones)'
    BY <2>1 DEF CommitInv, Atomic!TypeOK
  <2>3. ASSUME NEW v \in Workers PROVE Progress(pc[v], local[v])'
    <3>1. CASE AtRest(v)'
      BY <3>1, NoProgress
    <3>2. CASE ~AtRest(v)'
      <4>1. v # w
        BY <1>1, <3>2 DEF AtRest
      <4>2. pc'[v] = pc[v] /\ local'[v] = local[v] /\ Progress(pc[v], local[v])
        BY <1>3, <4>1 DEF CommitInv
      <4>3. QED
        BY <1>1, <2>1, <4>2, ProgressKept
    <3>3. QED
      BY <3>1, <3>2
  <2>4. QueueInv'
    BY <1>1, <1>2, <1>5, <2>1 DEF QueueInv, AtRest
  <2>5. QED
    BY <1>6, <1>8, <2>1, <2>2, <2>3, <2>4 DEF Simulated, CommitInv
<1>9. QED
  BY <1>7, <1>8

-----------------------------------------------------------------------------
(* A request starts when all workers are at rest. *)

\* What the lemma of every request that starts may use.
Called(w) ==
  /\ OneAtATime = TRUE
  /\ IInv /\ IInv' /\ CommitInv /\ CommitNow
  /\ AtRest(w) /\ MayStart(w)

\* The store that requests start on is the committed one.
LEMMA CalledFacts ==
  ASSUME NEW w \in Workers, Called(w)
  PROVE  /\ Alone(w) /\ Resting /\ NothingWritten
         /\ committed.sweep = local[Sweeper].queue
         /\ Sweeping(w)
<1>1. Alone(w) /\ Resting
  BY DEF Called, MayStart, Alone, Resting
<1>2. committed = Store
  BY <1>1 DEF Called, CommitInv
<1>3. QED
  BY <1>1, <1>2 DEF Store, NothingWritten, Stored, Called, CommitInv

\* A request with a first step to make.
LEMMA Begins ==
  ASSUME NEW w \in Workers, Called(w), OthersWait(w), pc[w] = "idle", ~AtRest(w)',
         local'[w].op # "sweep", local'[w].queue = {}, Progress(pc[w], local[w])'
  PROVE  Simulated
<1>1. w = Sweeper => committed.sweep = {}
  BY CalledFacts, FreshValues DEF Sweeping
<1>2. QED
  BY <1>1, CalledFacts, GoesOn DEF Called

\* SetMaintenance and SetCalibration have read a monitor zone.
LEMMA EditBegins ==
  ASSUME NEW w \in Workers, Called(w), pc[w] = "idle", NEW m \in DOMAIN monitors, NEW edited,
         EditMonitor(w, m, edited), OthersWait(w),
         \/ \E b \in BOOLEAN : edited = [monitors[m] EXCEPT !.inMaintenance = b]
         \/ \E due \in Times : edited = [monitors[m] EXCEPT !.calibrationDue = due]
  PROVE  Simulated
<1>1. PICK equipment : equipment = [x \in {m} |-> edited]
  OBVIOUS
<1>2. /\ pc'[w] = "update_monitors" /\ local'[w].op = "edit" /\ local'[w].queue = {}
      /\ local'[w].equipment = equipment /\ UNCHANGED <<zones, monitors, interlocks>>
  BY <1>1, KnownFacts, FreshFields, FreshValues DEF Called, EditMonitor, Go, TypeOK, Fields
<1>3. ~AtRest(w)'
  BY <1>2 DEF AtRest
<1>4. committed' = committed
  BY <1>3, NothingCommitted DEF Called
<1>5. NothingWritten /\ NothingWritten'
  BY <1>2, <1>4, CalledFacts DEF NothingWritten, Stored
<1>6. EditAsked(local[w])'
  <2>1. DOMAIN equipment = {m} /\ equipment[m] = edited /\ monitors = committed.monitors
    BY <1>1, <1>5 DEF NothingWritten, Stored
  <2>2. QED
    BY <1>2, <1>4, <2>1 DEF EditAsked
<1>7. Progress(pc[w], local[w])'
  BY <1>2, <1>5, <1>6 DEF Progress, Ingesting, Interlocking, Restoring
<1>8. QED
  BY <1>2, <1>3, <1>7, Begins

\* Process has read a monitor zone, the manual request a clean zone.
LEMMA RequestBegins ==
  ASSUME NEW w \in Workers, Called(w), OthersWait(w), pc[w] = "idle",
         NEW op \in {"ingest", "issue"}, NEW z, NEW r,
         NEW to \in {"get_zone", "list_area"},
         Go(w, to, [Fresh EXCEPT !.op = op, !.zone = z, !.ratio = r]),
         UNCHANGED <<zones, monitors, interlocks>>,
         \/ /\ to = "get_zone" /\ op = "ingest" /\ r \in Ratios
            /\ \E m \in Monitors, at \in Times :
                 Atomic!ValidSample(m, at) /\ z = ZoneOf[m]
         \/ /\ to = "list_area" /\ op = "issue" /\ z \in DOMAIN zones
            /\ \E asked \in Ratios : r = IF asked < One THEN 150 ELSE asked
  PROVE  Simulated
<1>1. PICK next : next = [Fresh EXCEPT !.op = op, !.zone = z, !.ratio = r]
  OBVIOUS
<1>2. /\ pc'[w] = to /\ local'[w].op = op /\ local'[w].zone = z /\ local'[w].ratio = r
      /\ local'[w].queue = {}
  BY <1>1, KnownFacts, FreshFields, FreshValues DEF Called, Go, TypeOK, Fields
<1>3. ~AtRest(w)'
  BY <1>2 DEF AtRest
<1>4. committed' = committed
  BY <1>3, NothingCommitted DEF Called
<1>5. NothingWritten /\ NothingWritten'
  BY <1>4, CalledFacts DEF NothingWritten, Stored
<1>6. CASE /\ to = "get_zone" /\ op = "ingest" /\ r \in Ratios
           /\ \E m \in Monitors, at \in Times :
                Atomic!ValidSample(m, at) /\ z = ZoneOf[m]
  <2>1. PICK m \in Monitors, at \in Times : Atomic!ValidSample(m, at) /\ z = ZoneOf[m]
    BY <1>6
  <2>2. Atomic!ValidSample(m, at)'
    BY <1>4, <2>1 DEF Atomic!ValidSample
  <2>3. SampleAsked(local[w])'
    BY <1>2, <1>6, <2>1, <2>2 DEF SampleAsked
  <2>4. Progress(pc[w], local[w])'
    BY <1>2, <1>5, <1>6, <2>3 DEF Progress, Ingesting, Interlocking, Restoring
  <2>5. QED
    BY <1>2, <1>3, <2>4, Begins
<1>7. CASE /\ to = "list_area" /\ op = "issue" /\ z \in DOMAIN zones
           /\ \E asked \in Ratios : r = IF asked < One THEN 150 ELSE asked
  <2>1. IssueAsked(local[w])'
    BY <1>2, <1>4, <1>5, <1>7 DEF IssueAsked, NothingWritten, Stored
  <2>2. Progress(pc[w], local[w])'
    BY <1>2, <1>5, <1>7, <2>1 DEF Progress, Ingesting, Interlocking, Restoring
  <2>3. QED
    BY <1>2, <1>3, <2>2, Begins
<1>8. QED
  BY <1>6, <1>7

\* Restore has read a clean zone.
LEMMA RestoreBegins ==
  ASSUME NEW w \in Workers, Called(w), OthersWait(w),
         NEW z \in Zones, NEW operator \in Operators, RestoreGetZone(w, z, operator)
  PROVE  Simulated
<1>1. PICK next : next = [Fresh EXCEPT !.op = "restore", !.zone = z, !.operator = operator,
                                       !.before = interlocks]
  OBVIOUS
<1>2. /\ pc[w] = "idle" /\ z \in DOMAIN zones /\ CanTransition(zones[z].status, RestoreStatus)
      /\ Go(w, "list_restore", next) /\ UNCHANGED <<zones, monitors, interlocks>>
  BY <1>1 DEF RestoreGetZone, Starts
<1>3. /\ pc'[w] = "list_restore" /\ local'[w].op = "restore" /\ local'[w].zone = z
      /\ local'[w].operator = operator /\ local'[w].queue = {}
  BY <1>1, <1>2, KnownFacts, FreshFields, FreshValues DEF Called, Go, TypeOK, Fields
<1>4. ~AtRest(w)'
  BY <1>3 DEF AtRest
<1>5. committed' = committed
  BY <1>4, NothingCommitted DEF Called
<1>6. NothingWritten /\ NothingWritten'
  BY <1>2, <1>5, CalledFacts DEF NothingWritten, Stored
<1>7. RestoreAsked(local[w])'
  BY <1>2, <1>3, <1>5, <1>6 DEF RestoreAsked, NothingWritten, Stored
<1>8. Progress(pc[w], local[w])'
  BY <1>3, <1>6, <1>7 DEF Progress, Ingesting, Interlocking, Restoring
<1>9. QED
  BY <1>2, <1>3, <1>4, <1>8, Begins

\* The sweeper takes its next candidate.
LEMMA SweepNextSimulated ==
  ASSUME NEW w \in Workers, Called(w), OthersWait(w), NEW c \in local[w].queue, SweepNext(w, c)
  PROVE  Simulated
<1>0. IInv /\ CommitInv /\ CommitNow
  BY DEF Called
<1>1. /\ pc[w] = "next_candidate" /\ local[w].op = "sweep" /\ w = Sweeper
      /\ UNCHANGED <<zones, monitors, interlocks>>
  BY CalledFacts DEF Sweeping, SweepNext
<1>2. /\ c \in SweepCandidate /\ c.zone \in DOMAIN zones
      /\ c = [zone |-> c.zone, ratio |-> c.ratio]
  BY <1>0, KnownFacts DEF LocalOK, Held, SweepCandidate
<1>3. PICK left : left = local[w].queue \ {c}
  OBVIOUS
<1>4. /\ pc'[w] = "list_area" /\ local'[w].op = "sweep" /\ local'[w].zone = c.zone
      /\ local'[w].ratio = c.ratio /\ local'[w].queue = left
  BY <1>0, <1>1, <1>3, KnownFacts DEF SweepNext, Go, TypeOK, Fields
<1>5. ~AtRest(w)'
  BY <1>4 DEF AtRest
<1>6. committed' = committed
  BY <1>0, <1>5, NothingCommitted
<1>7. NothingWritten /\ NothingWritten'
  BY <1>1, <1>6, CalledFacts DEF NothingWritten, Stored
<1>8. Candidate(local[w])' = c
  BY <1>2, <1>4 DEF Candidate
<1>9. committed.sweep = local[w].queue
  BY <1>1, CalledFacts
<1>10. IssueAsked(local[w])'
  BY <1>2, <1>4, <1>6, <1>7, <1>8, <1>9 DEF IssueAsked, NothingWritten, Stored
<1>11. Progress(pc[w], local[w])'
  BY <1>4, <1>7, <1>10 DEF Progress, Ingesting, Interlocking, Restoring
<1>12. QED
  BY <1>0, <1>1, <1>3, <1>4, <1>5, <1>8, <1>9, <1>11, CalledFacts, GoesOn

\* The sweeper lists its candidates, and is at rest again.
LEMMA SweepListSimulated ==
  ASSUME NEW w \in Workers, Called(w), OthersWait(w), SweepList(w)
  PROVE  Simulated
<1>0. IInv /\ IInv' /\ CommitInv /\ CommitNow /\ Alone(w) /\ Resting
  BY CalledFacts DEF Called
<1>1. /\ pc[w] = "idle" /\ w = Sweeper /\ UNCHANGED <<zones, monitors, interlocks>>
      /\ committed.sweep = {} /\ committed = Store
  BY <1>0, CalledFacts, FreshValues DEF SweepList, Starts, Sweeping, CommitInv
<1>2. PICK found : found = A!AutoInterlockCandidates
  OBVIOUS
<1>3. /\ pc'[w] = "next_candidate" /\ local'[w].op = "sweep" /\ local'[w].queue = found
  BY <1>0, <1>2, KnownFacts, FreshFields DEF SweepList, Go, TypeOK, Fields
<1>4. \A v \in Workers : v # w => AtRest(v)' /\ pc'[v] = pc[v] /\ local'[v] = local[v]
  BY <1>0 DEF OthersWait, Alone, AtRest
<1>5. Resting'
  BY <1>3, <1>4 DEF Resting, AtRest
<1>6. \A v \in Workers : Sweeping(v)'
  BY <1>0, <1>1, <1>3, <1>4 DEF Sweeping, CommitInv
<1>7. CommitInv' /\ committed' = Store'
  BY <1>0, <1>5, <1>6, Commits
<1>8. /\ committed'.zones = committed.zones /\ committed'.monitors = committed.monitors
      /\ committed'.interlocks = committed.interlocks /\ committed'.sweep = found
  BY <1>1, <1>3, <1>7 DEF Store
<1>9. found = Atomic!AutoInterlockCandidates
  <2>1. zones = committed.zones
    BY <1>1 DEF Store
  <2>2. QED
    BY <1>2, <2>1 DEF A!AutoInterlockCandidates, Atomic!AutoInterlockCandidates, A!One, Atomic!One
<1>10. Atomic!SweepList
  BY <1>1, <1>8, <1>9 DEF Atomic!SweepList
<1>11. QED
  BY <1>7, <1>10 DEF Simulated, Atomic!Next

\* Zones and monitor zones are created in one call.
LEMMA CreateSimulated ==
  ASSUME NEW w \in Workers, Called(w),
         \/ \E z \in Zones : CreateCleanZone(w, z)
         \/ \E m \in Monitors, due \in Times : CreateMonitorZone(w, m, due)
  PROVE  Simulated
<1>1. /\ IInv' /\ CommitInv /\ CommitNow /\ Resting
      /\ UNCHANGED <<pc, local>>
  BY CalledFacts DEF Called, CreateCleanZone, CreateMonitorZone
<1>2. Resting' /\ \A v \in Workers : Sweeping(v)'
  BY <1>1 DEF Resting, AtRest, Sweeping, CommitInv
<1>3. CommitInv' /\ committed' = Store'
  BY <1>1, <1>2, Commits
<1>4. /\ committed.zones = zones /\ committed.monitors = monitors
      /\ committed.interlocks = interlocks
      /\ committed'.zones = zones' /\ committed'.monitors = monitors'
      /\ committed'.interlocks = interlocks' /\ committed'.sweep = committed.sweep
  BY <1>1, <1>3 DEF Store, CommitInv
<1>5. ASSUME NEW z \in Zones, CreateCleanZone(w, z) PROVE Atomic!CreateCleanZone(z)
  <2>1. A!CreateCleanZone(z)
    BY <1>5 DEF CreateCleanZone
  <2>2. QED
    BY <1>4, <2>1 DEF A!CreateCleanZone, Atomic!CreateCleanZone, A!NewCleanZone,
       Atomic!NewCleanZone, A!CleanZone, Atomic!CleanZone
<1>6. ASSUME NEW m \in Monitors, NEW due \in Times, CreateMonitorZone(w, m, due)
      PROVE  Atomic!CreateMonitorZone(m, due)
  <2>1. A!CreateMonitorZone(m, due)
    BY <1>6 DEF CreateMonitorZone
  <2>2. QED
    BY <1>4, <2>1 DEF A!CreateMonitorZone, Atomic!CreateMonitorZone, A!NewMonitorZone,
       Atomic!NewMonitorZone, A!NoDue, Atomic!NoDue
<1>7. Atomic!Next
  BY <1>5, <1>6 DEF Atomic!Next
<1>8. QED
  BY <1>3, <1>7 DEF Simulated

\* The clock ticks while all workers are at rest.
LEMMA TickSimulated ==
  ASSUME OneAtATime = TRUE, IInv, IInv', CommitInv, CommitNow, Tick
  PROVE  Simulated
<1>1. Resting /\ pc' = pc /\ UNCHANGED <<monitors, interlocks>>
  BY DEF Tick, Resting
<1>2. ASSUME NEW v \in Workers
      PROVE  /\ local'[v].op = local[v].op /\ local'[v].queue = local[v].queue
             /\ pc[v] = "idle" => local'[v] = Fresh
  <2>1. PICK aged :
          /\ aged = IF local[v].cleanZone = Nothing THEN local[v].cleanZone
                    ELSE Older(local[v].cleanZone)
          /\ local'[v] = [local[v] EXCEPT !.cleanZone = aged]
    BY DEF Tick
  <2>2. local'[v].op = local[v].op /\ local'[v].queue = local[v].queue
    BY <2>1, KnownFacts DEF Fields
  <2>3. ASSUME pc[v] = "idle" PROVE local'[v] = Fresh
    <3>1. local[v] = Fresh
      BY <2>3 DEF CommitInv, Sweeping
    <3>2. aged = Nothing
      BY <2>1, <3>1, FreshValues
    <3>3. [Fresh EXCEPT !.cleanZone = Nothing] = Fresh
      BY FreshValues DEF Fields
    <3>4. QED
      BY <2>1, <3>1, <3>2, <3>3
  <2>4. QED
    BY <2>2, <2>3
<1>3. Resting' /\ \A v \in Workers : Sweeping(v)'
  BY <1>1, <1>2 DEF Resting, AtRest, Sweeping, CommitInv
<1>4. CommitInv' /\ committed' = Store'
  BY <1>3, Commits
<1>5. Sweeper \in Workers
  BY DEF Workers
<1>6. /\ committed.zones = zones /\ committed'.zones = zones'
      /\ committed'.monitors = committed.monitors
      /\ committed'.interlocks = committed.interlocks /\ committed'.sweep = committed.sweep
  BY <1>1, <1>2, <1>4, <1>5 DEF Store, CommitInv
<1>7. Atomic!Tick
  BY <1>6 DEF Tick, Atomic!Tick, Older, Atomic!MinInt, MinInt
<1>8. QED
  BY <1>4, <1>7 DEF Simulated, Atomic!Next

-----------------------------------------------------------------------------
(* The refinement. *)

SerialAll == IInv /\ SerialInv /\ CommitInv

\* What runs before the first request.
LEMMA SerialAllInit == SerialInit => SerialAll /\ Atomic!Init
<1> SUFFICES ASSUME SerialInit PROVE SerialAll /\ Atomic!Init
  OBVIOUS
<1>1. Init /\ committed = Store
  BY DEF SerialInit
<1>2. IInv
  BY <1>1, InvariantInit
<1>3. \A w \in Workers : pc[w] = "idle" /\ local[w] = Fresh
  BY <1>1 DEF Init
<1>4. SerialInv
  BY <1>3 DEF SerialInv, AtRest, Follows
<1>5. Sweeper \in Workers
  BY DEF Workers
<1>6. /\ committed.zones = zones /\ committed.monitors = monitors
      /\ committed.interlocks = interlocks /\ committed.sweep = {}
      /\ local[Sweeper].queue = {}
  BY <1>1, <1>3, <1>5, FreshValues DEF Store
<1>7. CommitInv
  <2>1. Atomic!TypeOK
    BY <1>2, <1>6, SameRules DEF IInv, TypeOK, Atomic!TypeOK
  <2>2. \A m \in DOMAIN committed.monitors : ZoneOf[m] \in DOMAIN committed.zones
    BY <1>2, <1>6 DEF IInv
  <2>3. \A w \in Workers : Progress(pc[w], local[w])
    BY <1>3, NoProgress
  <2>4. \A w \in Workers : Sweeping(w)
    BY <1>3, FreshValues DEF Sweeping
  <2>5. QueueInv
    BY <1>3, <1>5, <1>6 DEF QueueInv, AtRest
  <2>6. QED
    BY <1>1, <2>1, <2>2, <2>3, <2>4, <2>5 DEF CommitInv
<1>8. Atomic!Init
  BY <1>1, <1>6, SameRules DEF Init, Atomic!Init, NoDue, Atomic!NoDue
<1>9. QED
  BY <1>2, <1>4, <1>7, <1>8 DEF SerialAll

\* A request starts.
LEMMA StartSimulated ==
  ASSUME OneAtATime = TRUE, IInv, IInv', CommitInv, CommitNow, NEW w \in Workers, Start(w)
  PROVE  Simulated
<1>1. Called(w) /\ (pc[w] = "idle" \/ \E c \in local[w].queue : SweepNext(w, c))
  BY DEF Start, Called, CreateCleanZone, CreateMonitorZone, SetMaintenance, SetCalibration,
     IngestGetMonitor, IssueStart, RestoreGetZone, SweepList, SweepNext, Starts, AtRest
<1>2. NothingWritten
  BY <1>1, CalledFacts
<1>3. ASSUME NEW m \in Monitors, NEW b \in BOOLEAN, SetMaintenance(w, m, b)
      PROVE  Simulated
  <2>1. pc[w] = "idle" /\ m \in DOMAIN monitors /\ OthersWait(w)
    BY <1>3, StartSteps DEF SetMaintenance, Starts, Stepped
  <2>2. QED
    BY <1>1, <1>3, <2>1, EditBegins DEF SetMaintenance
<1>4. ASSUME NEW m \in Monitors, NEW due \in Times, SetCalibration(w, m, due)
      PROVE  Simulated
  <2>1. pc[w] = "idle" /\ m \in DOMAIN monitors /\ OthersWait(w)
    BY <1>4, StartSteps DEF SetCalibration, Starts, Stepped
  <2>2. QED
    BY <1>1, <1>4, <2>1, EditBegins DEF SetCalibration
<1>5. ASSUME NEW m \in Monitors, NEW r \in Ratios, NEW at \in Times,
             IngestGetMonitor(w, m, r, at)
      PROVE  Simulated
  <2>1. pc[w] = "idle" /\ OthersWait(w)
    BY <1>5, StartSteps DEF IngestGetMonitor, Starts, Stepped
  <2>2. Atomic!ValidSample(m, at)
    BY <1>2, <1>5, SameRules
    DEF IngestGetMonitor, Atomic!ValidSample, NothingWritten, Stored
  <2>3. QED
    BY <1>1, <1>5, <2>1, <2>2, RequestBegins DEF IngestGetMonitor
<1>6. ASSUME NEW z \in Zones, NEW r \in Ratios, IssueStart(w, z, r) PROVE Simulated
  <2>1. pc[w] = "idle" /\ OthersWait(w)
    BY <1>6, StartSteps DEF IssueStart, Starts, Stepped
  <2>2. PICK given : given = IF r < One THEN 150 ELSE r
    OBVIOUS
  <2>3. QED
    BY <1>1, <1>6, <2>1, <2>2, RequestBegins DEF IssueStart
<1>7. ASSUME NEW z \in Zones, NEW operator \in Operators, RestoreGetZone(w, z, operator)
      PROVE  Simulated
  <2>1. OthersWait(w)
    BY <1>7, StartSteps DEF Stepped
  <2>2. QED
    BY <1>1, <1>7, <2>1, RestoreBegins
<1>8. ASSUME SweepList(w) PROVE Simulated
  BY <1>1, <1>8, SweepSteps, SweepListSimulated DEF Stepped
<1>9. ASSUME NEW c \in local[w].queue, SweepNext(w, c) PROVE Simulated
  BY <1>1, <1>9, SweepSteps, SweepNextSimulated DEF Stepped
<1>10. QED
  BY <1>1, <1>3, <1>4, <1>5, <1>6, <1>7, <1>8, <1>9, CreateSimulated DEF Start

\* A request goes on.
LEMMA ContinueSimulated ==
  ASSUME SaveMayFail = FALSE, IInv, IInv', SerialInv, CommitInv, CommitNow,
         NEW w \in Workers, Continue(w)
  PROVE  Simulated
<1>1. OthersWait(w)
  BY ContinueSteps DEF Stepped
<1>2. CASE SweepEnd(w)
  BY <1>1, <1>2, SweepEndSimulated
<1>3. CASE ~SweepEnd(w)
  <2>1. ~AtRest(w)
    BY <1>3 DEF Continue, AtRest, IngestGetZone, IngestUpdateState, IngestReloadZone,
       IngestUpdateRatio, IssueListArea, IssueUpdateZone, IssueListCommandZones,
       IssueListMonitors, UpdateMonitor, IssueCreateLog, RestoreListArea, RestoreUpdateZone,
       RestoreListLogs, RestoreCloseLog
  <2>2. Busy(w)
    BY <1>1, <2>1 DEF Busy, Alone, SerialInv
  <2>3. ASSUME NEW m \in DOMAIN local[w].equipment, UpdateMonitor(w, m) PROVE Simulated
    BY <2>2, <2>3, EditSimulated, CommandMonitorSimulated
  <2>4. QED
    BY <1>3, <2>2, <2>3, IngestGetZoneSimulated, IngestUpdateStateSimulated,
       IngestRatioSimulated, IssueListAreaSimulated, IssueUpdateZoneSimulated,
       IssueListCommandZonesSimulated, IssueListMonitorsSimulated, IssueCreateLogSimulated,
       RestoreListAreaSimulated, RestoreUpdateZoneSimulated, RestoreListLogsSimulated,
       RestoreCloseLogSimulated
    DEF Continue
<1>4. QED
  BY <1>2, <1>3

\* Every step is a step of AreaInterlock, or none, and keeps the invariant.
LEMMA SerialAllStep ==
  ASSUME OneAtATime = TRUE, SaveMayFail = FALSE
  PROVE  SerialAll /\ [SerialNext]_<<vars, committed>>
           => SerialAll' /\ [Atomic!Next]_(Atomic!vars)
<1> SUFFICES ASSUME SerialAll, [SerialNext]_<<vars, committed>>
             PROVE  SerialAll' /\ [Atomic!Next]_(Atomic!vars)
  OBVIOUS
<1>1. CASE SerialNext
  <2>1. Next /\ CommitNow
    BY <1>1 DEF SerialNext, CommitNow
  <2>2. IInv' /\ SerialInv'
    BY <2>1, InvariantStep, SerialSteps DEF SerialAll
  <2>3. Simulated
    BY <2>1, <2>2, TickSimulated, StartSimulated, ContinueSimulated DEF SerialAll, Next
  <2>4. QED
    BY <2>2, <2>3 DEF Simulated, SerialAll, Atomic!vars
<1>2. CASE UNCHANGED <<vars, committed>>
  <2>1. UNCHANGED <<zones, monitors, interlocks, pc, local, committed>>
    BY <1>2 DEF vars
  <2>2. IInv' /\ SerialInv'
    BY <1>2, InvariantStep, SerialSteps DEF SerialAll
  <2>3. CommitInv'
    <3>1. \A w \in Workers : Progress(pc[w], local[w])'
      BY <2>1, ProgressKept DEF SerialAll, CommitInv
    <3>2. QED
      BY <2>1, <3>1
      DEF SerialAll, CommitInv, Atomic!TypeOK, Resting, AtRest, Store, Sweeping, QueueInv, Candidate
  <2>4. QED
    BY <2>1, <2>2, <2>3 DEF SerialAll, Atomic!vars
<1>3. QED
  BY <1>1, <1>2

\* Requests that do not overlap, with saves that succeed, are atomic: whatever
\* store calls a request makes, and however many records it writes, the store
\* it leaves behind is the one AreaInterlock gives it in a single step.
THEOREM SerialRequestsAtomic ==
  ASSUME OneAtATime = TRUE, SaveMayFail = FALSE
  PROVE  SerialSpec => ImplementsAreaInterlock
<1>1. SerialInit => SerialAll /\ Atomic!Init
  BY SerialAllInit
<1>2. SerialAll /\ [SerialNext]_<<vars, committed>>
        => SerialAll' /\ [Atomic!Next]_(Atomic!vars)
  BY SerialAllStep
<1>3. QED
  BY <1>1, <1>2, PTL DEF SerialSpec, ImplementsAreaInterlock, Atomic!Spec
=============================================================================
