----------------------------- MODULE SampleWindow -----------------------------
(***************************************************************************)
(* The stored samples and the alerts of monitor zones: a reading is judged, *)
(* raises and resolves the alerts of its conditions, is weighed with the   *)
(* stored samples of its monitor zone, and is stored; the oldest samples   *)
(* make room.                                                              *)
(*                                                                         *)
(* The particle counter of a monitor zone reports one reading after the    *)
(* other and waits for the answer; the requests of different monitor zones *)
(* overlap.  Counters may report late, so timestamps come in any order.    *)
(* Clean zones and interlocks of the same request are in InterlockRaces,   *)
(* the single alert with its windows is in AlertLifecycle.                 *)
(***************************************************************************)
EXTENDS SampleJudgement, Sequences

CONSTANTS
  Monitors,              \* monitor zones
  CalibrationDue,        \* the calibration due date of each one's counter
  IsoClassOf,            \* the ISO class of each one's clean zone
  ProcessOf,             \* the process of each one's clean zone
  OverridesOf,           \* its own limits and ranges, 0 for none
  Serviced,              \* those whose counters are put into maintenance
  Readings,              \* what counters report
  Window,                \* config SampleWindow()
  InvalidRatioThreshold, \* config InvalidRatioThreshold, as a percentage
  MaxSamplesPerZone      \* config MaxSamplesPerZone, 0 for no limit

Counts == [c03 : Nat, c05 : Nat]

Envs == [temperature : Temperatures, humidity : Humidities, pressure : Pressures]

AlertTypes == SampleAlertTypes \cup {"data_quality"}

\* Stored overrides and reported readings have passed the HTTP handlers.

ASSUME SampleAssumption ==
  /\ CalibrationDue \in [Monitors -> Nat]
  /\ IsoClassOf \in [Monitors -> IsoClasses]
  /\ \A m \in Monitors :
       OverridesOf[m].limits \in Counts /\ ValidateThresholds(OverridesOf[m])
  /\ Serviced \subseteq Monitors
  /\ \A r \in Readings :
       /\ r.monitor \in Monitors /\ r.at \in Nat /\ r.count \in [c03 : Int, c05 : Int]
       /\ r.env \in [temperature : Int, humidity : Int, pressure : Int]
  /\ Window \in Nat \ {0}
  /\ InvalidRatioThreshold \in 1 .. 100
  /\ MaxSamplesPerZone \in Nat

VARIABLES
  samples,       \* stored samples of all monitor zones, in the order they came
  inMaintenance, \* the PM flag of each monitor zone's counter
  alerts,        \* statuses of each one's unclosed alerts, by type
  pc,            \* what the request of each monitor zone does next
  sample,        \* the sample of that request
  found,         \* conditions each one's last judged samples found
  arrived        \* history: validity of the last samples each one stored

vars == <<samples, inMaintenance, alerts, pc, sample, found, arrived>>

-----------------------------------------------------------------------------
SampleRecord == [monitor : Monitors, at : Nat, valid : BOOLEAN]

\* IsoClass 0 is the empty one of a sample that is not classified.
EnvSample ==
  [at : Nat, count : Counts, env : Envs, valid : BOOLEAN,
   iso : IsoClasses \cup {0}, overTable : BOOLEAN, ratio : Nat]

NewSample(at, count, env) ==
  [at |-> at, count |-> count, env |-> env, valid |-> TRUE,
   iso |-> 0, overTable |-> FALSE, ratio |-> 0]

NoSample == NewSample(0, Count(0, 0), [temperature |-> 0, humidity |-> 0, pressure |-> 0])

OfMonitor(s, m) == {i \in DOMAIN s : s[i].monitor = m}

\* ListByMonitorZone sorts by descending timestamp; samples of one timestamp
\* stay in the order they came.
ListedBefore(i, j) ==
  \/ samples[i].at > samples[j].at
  \/ samples[i].at = samples[j].at /\ i < j

\* The first n samples of that list.
RecentByMonitorZone(m, n) ==
  {i \in OfMonitor(samples, m) :
     Cardinality({j \in OfMonitor(samples, m) : ListedBefore(j, i)}) < n}

\* The k-th of a set of positions.
Nth(positions, k) == CHOOSE i \in positions : Cardinality({j \in positions : j <= i}) = k

\* What s has at these positions, in their order.
Subsequence(s, positions) ==
  [k \in 1 .. Cardinality(positions) |-> s[Nth(positions, k)]]

\* Mutant of Trimmed: the oldest samples go, whatever their monitor zone.
TrimmedAnyZone(s, m) ==
  LET excess == Cardinality(OfMonitor(s, m)) - MaxSamplesPerZone
  IN  IF MaxSamplesPerZone = 0 \/ excess <= 0 THEN s
      ELSE SubSeq(s, excess + 1, Len(s))

\* trimLocked: the samples of monitor zone m that came first are dropped.
Trimmed(s, m) ==
  LET mine    == OfMonitor(s, m)
      excess  == Cardinality(mine) - MaxSamplesPerZone
      dropped == {i \in mine : Cardinality({j \in mine : j < i}) < excess}
      kept    == IF MaxSamplesPerZone > 0 THEN DOMAIN s \ dropped ELSE DOMAIN s
  IN  Subsequence(s, kept)

-----------------------------------------------------------------------------
SetMaintenance(m, b) ==
  /\ m \in Serviced
  /\ inMaintenance' = [inMaintenance EXCEPT ![m] = b]
  /\ UNCHANGED <<samples, alerts, pc, sample, found, arrived>>

\* Process, up to the classification, from the monitor zone it reads.
IngestJudge(r) ==
  LET m      == r.monitor
      read   == NewSample(r.at, r.count, r.env)
      limits == EffectiveLimits(IsoClassOf[m], ProcessOf[m], OverridesOf[m])
      valid  == EvaluateValidity([inMaintenance |-> inMaintenance[m],
                                  calibrationDue |-> CalibrationDue[m]], r.at)
  IN  /\ pc[m] = "idle"
      /\ pc' = [pc EXCEPT ![m] = "judged"]
      /\ sample' = [sample EXCEPT ![m] =
           IF valid
           THEN [read EXCEPT !.iso = ClassifyISO(r.count),
                             !.overTable = OverTable(r.count),
                             !.ratio = RatioAgainst(limits, r.count)]
           ELSE [read EXCEPT !.valid = FALSE]]
      /\ UNCHANGED <<samples, inMaintenance, alerts, found, arrived>>

\* The handler: a payload it refuses changes nothing.
PostSample(r) == ValidateSamplePayload(r.count, r.env) /\ IngestJudge(r)

\* A write to the clean zone or to the interlocked area fails: the request
\* ends, the reading is lost.
IngestAbort(m) ==
  /\ pc[m] = "judged" /\ sample[m].valid
  /\ pc' = [pc EXCEPT ![m] = "idle"]
  /\ sample' = [sample EXCEPT ![m] = NoSample]
  /\ UNCHANGED <<samples, inMaintenance, alerts, found, arrived>>

\* CreateWithDedup: one more unclosed alert, unless it merges with one.
\* "open" stands for escalated alerts as well.
AfterRaise(statuses) ==
  {statuses \cup {"open"}} \cup IF statuses = {} THEN {} ELSE {statuses}

\* ResolveActive closes the acknowledged alerts.
AfterResolve(statuses) == {statuses \ {"acknowledged"}}

ConditionsOf(m) ==
  Conditions(sample[m].ratio,
             IsOutOfRange(sample[m].env, EffectiveEnvRange(ProcessOf[m], OverridesOf[m])))

AlertsAfter(m, bad) ==
  LET After(t) == IF t \in bad THEN AfterRaise(alerts[m][t]) ELSE AfterResolve(alerts[m][t])
  IN  \E p \in After("particle"), th \in After("temp_humidity"), pr \in After("pressure") :
        alerts' = [alerts EXCEPT ![m]["particle"] = p, ![m]["temp_humidity"] = th,
                                 ![m]["pressure"] = pr]

FoundAfter(m, bad) == found' = [found EXCEPT ![m] = (@ \ SampleAlertTypes) \cup bad]

\* Mutant of IngestAlerts: invalid samples raise and resolve as well.
IngestAlertsUnguarded(m) ==
  /\ pc[m] = "judged"
  /\ AlertsAfter(m, ConditionsOf(m))
  /\ IF sample[m].valid THEN FoundAfter(m, ConditionsOf(m)) ELSE UNCHANGED found
  /\ pc' = [pc EXCEPT ![m] = "alerted"]
  /\ UNCHANGED <<samples, inMaintenance, sample, arrived>>

\* Process, the particle and environment alerts of a valid sample.
IngestAlerts(m) ==
  /\ pc[m] = "judged"
  /\ \/ /\ sample[m].valid
        /\ AlertsAfter(m, ConditionsOf(m))
        /\ FoundAfter(m, ConditionsOf(m))
     \/ ~sample[m].valid /\ UNCHANGED <<alerts, found>>
  /\ pc' = [pc EXCEPT ![m] = "alerted"]
  /\ UNCHANGED <<samples, inMaintenance, sample, arrived>>

\* The window: the sample itself and those listed first.
InvalidInWindow(m) ==
  LET recent == RecentByMonitorZone(m, Window - 1)
  IN  Cardinality({i \in recent : ~samples[i].valid}) + IF sample[m].valid THEN 0 ELSE 1

WindowSize(m) == Cardinality(RecentByMonitorZone(m, Window - 1)) + 1

\* What a weighed window does to the data_quality alerts: nothing once no
\* sample of it is invalid.
WeighedAlerts(m, invalid, size) ==
  LET statuses == alerts[m]["data_quality"]
      exceeds  == ExceedsInvalidRatio(invalid, size, InvalidRatioThreshold)
  IN  /\ \E after \in IF exceeds THEN AfterRaise(statuses)
                      ELSE IF invalid > 0 THEN AfterResolve(statuses) ELSE {statuses} :
           alerts' = [alerts EXCEPT ![m]["data_quality"] = after]
      /\ found' = [found EXCEPT ![m] =
           IF exceeds THEN @ \cup {"data_quality"} ELSE @ \ {"data_quality"}]

\* Mutant of IngestWeigh: the sample of the request itself is not counted.
IngestWeighStoredOnly(m) ==
  /\ pc[m] = "alerted"
  /\ LET recent == RecentByMonitorZone(m, Window)
     IN  WeighedAlerts(m, Cardinality({i \in recent : ~samples[i].valid}),
                       Cardinality(recent))
  /\ pc' = [pc EXCEPT ![m] = "weighed"]
  /\ UNCHANGED <<samples, inMaintenance, sample, arrived>>

\* Process, the data-credibility rule.
IngestWeigh(m) ==
  /\ pc[m] = "alerted"
  /\ WeighedAlerts(m, InvalidInWindow(m), WindowSize(m))
  /\ pc' = [pc EXCEPT ![m] = "weighed"]
  /\ UNCHANGED <<samples, inMaintenance, sample, arrived>>

\* Samples().Append, with the trim; arrived remembers as many as a window has
\* besides the sample that is weighed.
IngestAppend(m) ==
  LET stored == [monitor |-> m, at |-> sample[m].at, valid |-> sample[m].valid]
      all    == Append(arrived[m], sample[m].valid)
  IN  /\ pc[m] = "weighed"
      /\ samples' = Trimmed(Append(samples, stored), m)
      /\ arrived' = [arrived EXCEPT ![m] =
           IF Len(all) < Window THEN all ELSE Tail(all)]
      /\ pc' = [pc EXCEPT ![m] = "idle"]
      /\ sample' = [sample EXCEPT ![m] = NoSample]
      /\ UNCHANGED <<inMaintenance, alerts, found>>

\* An engineer acknowledges an alert; others of its type may stay open.
Ack(m, t) ==
  /\ "open" \in alerts[m][t]
  /\ \E left \in {{}, {"open"}} :
       alerts' = [alerts EXCEPT ![m][t] =
                    (@ \ {"open"}) \cup left \cup {"acknowledged"}]
  /\ UNCHANGED <<samples, inMaintenance, pc, sample, found, arrived>>

-----------------------------------------------------------------------------
Init ==
  /\ samples = <<>>
  /\ inMaintenance = [m \in Monitors |-> FALSE]
  /\ alerts = [m \in Monitors |-> [t \in AlertTypes |-> {}]]
  /\ pc = [m \in Monitors |-> "idle"]
  /\ sample = [m \in Monitors |-> NoSample]
  /\ found = [m \in Monitors |-> {}]
  /\ arrived = [m \in Monitors |-> <<>>]

Next ==
  \/ \E r \in Readings : PostSample(r)
  \/ \E m \in Monitors :
       \/ IngestAbort(m)
       \/ IngestAlerts(m)
       \/ IngestWeigh(m)
       \/ IngestAppend(m)
       \/ \E t \in AlertTypes : Ack(m, t)
       \/ \E b \in BOOLEAN : SetMaintenance(m, b)

Spec == Init /\ [][Next]_vars

-----------------------------------------------------------------------------
TypeOK ==
  /\ samples \in Seq(SampleRecord)
  /\ inMaintenance \in [Monitors -> BOOLEAN]
  /\ alerts \in [Monitors -> [AlertTypes -> SUBSET {"open", "acknowledged"}]]
  /\ pc \in [Monitors -> {"idle", "judged", "alerted", "weighed"}]
  /\ sample \in [Monitors -> EnvSample]
  /\ found \in [Monitors -> SUBSET AlertTypes]
  /\ arrived \in [Monitors -> Seq(BOOLEAN)]

Stored(m) == Subsequence(samples, OfMonitor(samples, m))

StoredValidity(m) == [k \in DOMAIN Stored(m) |-> Stored(m)[k].valid]

RoomForWindow == MaxSamplesPerZone = 0 \/ MaxSamplesPerZone >= Window - 1

\* The history of a monitor zone is bounded and never has a gap: stored are
\* exactly its last arrivals, up to the limit, whatever other monitor zones
\* store and trim from the same list (Append and trimLocked).
LatestArrivalsStored ==
  \A m \in Monitors :
    LET stored == StoredValidity(m)
        n      == MinInt(Len(arrived[m]), Len(stored))
    IN  /\ SubSeq(stored, Len(stored) - n + 1, Len(stored))
             = SubSeq(arrived[m], Len(arrived[m]) - n + 1, Len(arrived[m]))
        /\ RoomForWindow => n = Len(arrived[m])
        /\ MaxSamplesPerZone > 0 => Len(stored) <= MaxSamplesPerZone

\* The stored samples of m came in the order of their timestamps.
InOrder(m) ==
  \A i, j \in OfMonitor(samples, m) : i < j => samples[i].at < samples[j].at

\* Credibility is judged on the last Window readings of the monitor zone,
\* this one included, as long as its counter reports in order: no sample is
\* left out, counted twice or taken from another zone (Process prepends the
\* sample to what it lists and cuts the window).
CredibilityOfLastReadings ==
  \A m \in Monitors :
    RoomForWindow /\ InOrder(m) /\ pc[m] = "weighed" =>
      LET readings == Append(arrived[m], sample[m].valid)
          invalid  == {i \in DOMAIN readings : ~readings[i]}
      IN  "data_quality" \in found[m] <=>
            100 * Cardinality(invalid) > InvalidRatioThreshold * Len(readings)

\* While the last reading that was judged on a condition found it bad, an
\* unclosed alert says so, acknowledged or not: readings that are invalid or
\* lost to a failed save close nothing, nor do those that clear another
\* condition, and a condition that comes back is raised again (the four alert
\* rules of Process).
ConditionsOnAlert ==
  \A m \in Monitors : \A t \in found[m] : alerts[m][t] # {}

\* The class of the worse particle size, each looked up for itself.
WorseClass(count) ==
  LET least(c, limitOf) ==
        {cls \in IsoClasses : \A better \in 5 .. cls - 1 : c > limitOf[better]}
      largest(classes) == CHOOSE cls \in classes : \A other \in classes : other <= cls
      limits03 == [cls \in IsoClasses |-> ISO14644Limits[cls].c03]
      limits05 == [cls \in IsoClasses |-> ISO14644Limits[cls].c05]
  IN  largest(least(count.c03, limits03) \cup least(count.c05, limits05))

\* Dual-size rule: classifying both sizes against one table row at a time
\* gives the worse of the classes the sizes have by themselves (ClassifyISO).
WorseSizeWins ==
  \A m \in Monitors :
    pc[m] # "idle" /\ sample[m].valid => sample[m].iso = WorseClass(sample[m].count)

\* The two judgements of a sample agree: where no override loosens the
\* limits, a sample classified as dirtier than its clean zone should be has a
\* ratio of at least 1.0, so the zone does not stay normal.
DirtierClassIsElevated ==
  \A m \in Monitors :
    /\ pc[m] # "idle" /\ sample[m].valid
    /\ ProcessDefaultsFor(ProcessOf[m]).multiplier <= 100
    /\ OverridesOf[m].limits = Count(0, 0)
    /\ sample[m].iso > IsoClassOf[m] \/ sample[m].overTable
    => sample[m].ratio >= One
=============================================================================
