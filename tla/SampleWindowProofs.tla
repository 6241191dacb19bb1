-------------------------- MODULE SampleWindowProofs --------------------------
(***************************************************************************)
(* The judgement of readings, their alerts and the stored samples of       *)
(* monitor zones, for any number of monitor zones, any readings, overrides,*)
(* window and limit of the store.                                          *)
(*                                                                         *)
(* Four arguments, one part each:                                          *)
(*  - a condition that was found keeps an unclosed alert (Inv);            *)
(*  - a sample says what its reading was judged to be, until it is stored  *)
(*    (JudgedInv), and the limit table then settles both of its judgements;*)
(*  - the stored samples of a monitor zone are a subsequence of those of   *)
(*    all zones: appending and trimming move positions about, and what is  *)
(*    picked at the positions of one zone only gains a last sample and     *)
(*    loses its first ones (StoredAppended).  Seen from their ends, they   *)
(*    are therefore the list of arrivals (Latest, WindowInv);              *)
(*  - where they came in order, the ones that Process lists are the last   *)
(*    ones by position, which are the last arrivals (CredibleInv).         *)
(***************************************************************************)
EXTENDS SampleWindow, SequenceTheorems, FiniteSetTheorems, TLAPS

Statuses == SUBSET {"open", "acknowledged"}

AlertsTyped ==
  /\ alerts \in [Monitors -> [AlertTypes -> Statuses]]
  /\ found \in [Monitors -> SUBSET AlertTypes]

Inv == AlertsTyped /\ ConditionsOnAlert

-----------------------------------------------------------------------------
\* CreateWithDedup leaves an unclosed alert, ResolveActive only closes.
LEMMA StatusFacts ==
  ASSUME NEW statuses \in Statuses
  PROVE  /\ \A after \in AfterRaise(statuses) : after \in Statuses /\ after # {}
         /\ \A after \in AfterResolve(statuses) : after \in Statuses
  BY DEF AfterRaise, AfterResolve, Statuses

\* The alerts of m move from one kind of status to another; those of the
\* conditions that are found afterwards are not all closed.
LEMMA MonitorStep ==
  ASSUME Inv, NEW m \in Monitors, NEW row \in [AlertTypes -> Statuses],
         NEW conditions \in SUBSET AlertTypes,
         alerts' = [alerts EXCEPT ![m] = row],
         found' = [found EXCEPT ![m] = conditions],
         \A t \in conditions : row[t] # {}
  PROVE  Inv'
  BY DEF Inv, AlertsTyped, ConditionsOnAlert

\* The particle and environment alerts of a valid sample.
LEMMA AlertsStep ==
  ASSUME Inv, NEW m \in Monitors, NEW bad \in SUBSET SampleAlertTypes,
         AlertsAfter(m, bad), FoundAfter(m, bad)
  PROVE  Inv'
<1> DEFINE After(t) == IF t \in bad THEN AfterRaise(alerts[m][t]) ELSE AfterResolve(alerts[m][t])
<1>1. /\ alerts[m] \in [AlertTypes -> Statuses] /\ found[m] \in SUBSET AlertTypes
      /\ \A t \in found[m] : alerts[m][t] # {}
  BY DEF Inv, AlertsTyped, ConditionsOnAlert
<1>2. \A t \in SampleAlertTypes : \A after \in After(t) :
        after \in Statuses /\ (t \in bad => after # {})
  <2> TAKE t \in SampleAlertTypes
  <2>1. alerts[m][t] \in Statuses
    BY <1>1 DEF AlertTypes
  <2>2. QED
    BY <2>1, StatusFacts
<1>3. PICK p \in After("particle"), th \in After("temp_humidity"), pr \in After("pressure") :
        alerts' = [alerts EXCEPT ![m]["particle"] = p, ![m]["temp_humidity"] = th,
                                 ![m]["pressure"] = pr]
  BY DEF AlertsAfter
<1>4. /\ p \in Statuses /\ ("particle" \in bad => p # {})
      /\ th \in Statuses /\ ("temp_humidity" \in bad => th # {})
      /\ pr \in Statuses /\ ("pressure" \in bad => pr # {})
  BY <1>2 DEF SampleAlertTypes
<1> DEFINE row == [alerts[m] EXCEPT !["particle"] = p, !["temp_humidity"] = th,
                                    !["pressure"] = pr]
           conditions == (found[m] \ SampleAlertTypes) \cup bad
<1>5. alerts' = [alerts EXCEPT ![m] = row]
  BY <1>3 DEF Inv, AlertsTyped
<1>6. found' = [found EXCEPT ![m] = conditions]
  BY DEF FoundAfter
<1>7. row \in [AlertTypes -> Statuses] /\ conditions \in SUBSET AlertTypes
  BY <1>1, <1>4 DEF AlertTypes, SampleAlertTypes
<1>8. \A t \in conditions : row[t] # {}
  BY <1>1, <1>4 DEF AlertTypes, SampleAlertTypes
<1> HIDE DEF row, conditions
<1>9. QED
  BY <1>5, <1>6, <1>7, <1>8, MonitorStep

\* The data-credibility rule.
LEMMA WeighStep ==
  ASSUME Inv, NEW m \in Monitors, IngestWeigh(m)
  PROVE  Inv'
<1> DEFINE q == "data_quality"
           exceeds == ExceedsInvalidRatio(InvalidInWindow(m), WindowSize(m),
                                          InvalidRatioThreshold)
<1>1. /\ alerts[m] \in [AlertTypes -> Statuses] /\ found[m] \in SUBSET AlertTypes
      /\ \A t \in found[m] : alerts[m][t] # {}
  BY DEF Inv, AlertsTyped, ConditionsOnAlert
<1>2. q \in AlertTypes /\ alerts[m][q] \in Statuses
  BY <1>1 DEF AlertTypes
<1>3. PICK after \in Statuses :
        /\ alerts' = [alerts EXCEPT ![m][q] = after]
        /\ exceeds => after # {}
  BY <1>2, StatusFacts DEF IngestWeigh, WeighedAlerts
<1> DEFINE row == [alerts[m] EXCEPT ![q] = after]
           conditions == IF exceeds THEN found[m] \cup {q} ELSE found[m] \ {q}
<1>4. alerts' = [alerts EXCEPT ![m] = row]
  BY <1>3 DEF Inv, AlertsTyped
<1>5. found' = [found EXCEPT ![m] = conditions]
  BY DEF IngestWeigh, WeighedAlerts, Inv, AlertsTyped
<1> HIDE DEF exceeds
<1>6. row \in [AlertTypes -> Statuses] /\ conditions \in SUBSET AlertTypes
  BY <1>1, <1>2
<1>7. \A t \in conditions : row[t] # {}
  BY <1>1, <1>2, <1>3
<1> HIDE DEF row, conditions
<1>8. QED
  BY <1>4, <1>5, <1>6, <1>7, MonitorStep

\* Every step of a request, an engineer or a counter.
LEMMA AlertInvStep ==
  ASSUME Inv, [Next]_vars
  PROVE  Inv'
<1>1. ASSUME NEW m \in Monitors, IngestAlerts(m) PROVE Inv'
  <2>1. CASE UNCHANGED <<alerts, found>>
    BY <2>1 DEF Inv, AlertsTyped, ConditionsOnAlert
  <2>2. CASE AlertsAfter(m, ConditionsOf(m)) /\ FoundAfter(m, ConditionsOf(m))
    <3>1. ConditionsOf(m) \in SUBSET SampleAlertTypes
      BY DEF ConditionsOf, Conditions
    <3>2. QED
      BY <2>2, <3>1, AlertsStep
  <2>3. QED
    BY <1>1, <2>1, <2>2 DEF IngestAlerts
<1>2. ASSUME NEW m \in Monitors, IngestWeigh(m) PROVE Inv'
  BY <1>2, WeighStep
<1>3. ASSUME NEW m \in Monitors, NEW t \in AlertTypes, Ack(m, t) PROVE Inv'
  <2>1. PICK after \in Statuses \ {{}} :
          alerts' = [alerts EXCEPT ![m][t] = after] /\ found' = found
    <3>1. alerts[m][t] \in Statuses
      BY DEF Inv, AlertsTyped
    <3>2. QED
      BY <1>3, <3>1 DEF Ack, Statuses
  <2>2. QED
    BY <2>1 DEF Inv, AlertsTyped, ConditionsOnAlert
<1>4. CASE UNCHANGED <<alerts, found>>
  BY <1>4 DEF Inv, AlertsTyped, ConditionsOnAlert
<1>5. \/ \E m \in Monitors :
           \/ IngestAlerts(m)
           \/ IngestWeigh(m)
           \/ \E t \in AlertTypes : Ack(m, t)
      \/ UNCHANGED <<alerts, found>>
  BY DEF Next, PostSample, IngestJudge, IngestAbort, IngestAppend, SetMaintenance, vars
<1>6. QED
  BY <1>1, <1>2, <1>3, <1>4, <1>5

LEMMA AlertInvInit == ASSUME Init PROVE Inv
  BY DEF Init, Inv, AlertsTyped, ConditionsOnAlert, Statuses

\* While the last judgement of a condition was bad an unclosed alert says so
\* (service/ingest_service.go): neither invalid or lost readings nor an
\* engineer's acknowledgement take it away.
THEOREM ConditionsStayOnAlert == Spec => []ConditionsOnAlert
<1>1. Inv => ConditionsOnAlert
  BY DEF Inv
<1>2. QED
  BY <1>1, AlertInvInit, AlertInvStep, PTL DEF Spec

-----------------------------------------------------------------------------
(* The judgement of a sample. *)

IntCounts == [c03 : Int, c05 : Int]

\* The limit table, row by row.
LEMMA LimitFacts ==
  /\ IsoClasses = {5, 6, 7, 8}
  /\ ISO14644Limits[5].c03 = 100    /\ ISO14644Limits[5].c05 = 35
  /\ ISO14644Limits[6].c03 = 1000   /\ ISO14644Limits[6].c05 = 350
  /\ ISO14644Limits[7].c03 = 10000  /\ ISO14644Limits[7].c05 = 3500
  /\ ISO14644Limits[8].c03 = 100000 /\ ISO14644Limits[8].c05 = 35000
<1>1. IsoClasses = {5, 6, 7, 8}
  BY DEF IsoClasses
<1>2. /\ ISO14644Limits[5] = Count(100, 35) /\ ISO14644Limits[6] = Count(1000, 350)
      /\ ISO14644Limits[7] = Count(10000, 3500) /\ ISO14644Limits[8] = Count(100000, 35000)
  BY <1>1 DEF ISO14644Limits
<1>3. QED
  BY <1>1, <1>2 DEF Count

\* ClassifyISO is the first class of the table that both sizes fit in.
LEMMA ClassFacts ==
  ASSUME NEW count \in IntCounts
  PROVE  /\ count.c03 <= 100 /\ count.c05 <= 35 => ClassifyISO(count) = 5
         /\ count.c03 > 100 \/ count.c05 > 35 =>
              /\ count.c03 <= 1000 /\ count.c05 <= 350 => ClassifyISO(count) = 6
              /\ count.c03 > 1000 \/ count.c05 > 350 =>
                   /\ count.c03 <= 10000 /\ count.c05 <= 3500 => ClassifyISO(count) = 7
                   /\ count.c03 > 10000 \/ count.c05 > 3500 => ClassifyISO(count) = 8
<1> DEFINE fits == {cls \in IsoClasses : Within(count, ISO14644Limits[cls])}
<1>1. /\ 5 \in fits <=> count.c03 <= 100 /\ count.c05 <= 35
      /\ 6 \in fits <=> count.c03 <= 1000 /\ count.c05 <= 350
      /\ 7 \in fits <=> count.c03 <= 10000 /\ count.c05 <= 3500
      /\ fits \subseteq {5, 6, 7, 8}
  BY LimitFacts DEF Within
<1>2. count.c03 \in Int /\ count.c05 \in Int
  BY DEF IntCounts
<1>3. ClassifyISO(count) =
        IF fits = {} THEN 8 ELSE CHOOSE cls \in fits : \A other \in fits : cls <= other
  BY DEF ClassifyISO
<1> HIDE DEF fits
<1>4. ASSUME NEW least \in fits, \A other \in fits : least <= other
      PROVE  ClassifyISO(count) = least
  <2>1. \A cls \in fits : (\A other \in fits : cls <= other) => cls = least
    BY <1>1, <1>4
  <2>2. QED
    BY <1>3, <1>4, <2>1
<1>5. CASE 5 \in fits
  BY <1>1, <1>2, <1>4, <1>5
<1>6. CASE 5 \notin fits /\ 6 \in fits
  BY <1>1, <1>2, <1>4, <1>6
<1>7. CASE 5 \notin fits /\ 6 \notin fits /\ 7 \in fits
  BY <1>1, <1>2, <1>4, <1>7
<1>8. CASE 5 \notin fits /\ 6 \notin fits /\ 7 \notin fits
  <2>1. ClassifyISO(count) = 8
    BY <1>1, <1>3, <1>4, <1>8
  <2>2. QED
    BY <1>1, <1>2, <1>8, <2>1
<1>9. QED
  BY <1>5, <1>6, <1>7, <1>8

\* Either size alone pushes a sample out of the classes below its own.
LEMMA WorseFacts ==
  ASSUME NEW count \in IntCounts
  PROVE  ClassifyISO(count) = WorseClass(count)
<1> DEFINE limits03 == [cls \in IsoClasses |-> ISO14644Limits[cls].c03]
           limits05 == [cls \in IsoClasses |-> ISO14644Limits[cls].c05]
           least(c, limitOf) ==
             {cls \in IsoClasses : \A better \in 5 .. cls - 1 : c > limitOf[better]}
           classes == least(count.c03, limits03) \cup least(count.c05, limits05)
<1>1. count.c03 \in Int /\ count.c05 \in Int
  BY DEF IntCounts
<1>2. /\ limits03[5] = 100 /\ limits03[6] = 1000 /\ limits03[7] = 10000
      /\ limits05[5] = 35 /\ limits05[6] = 350 /\ limits05[7] = 3500
  BY LimitFacts
<1>3. WorseClass(count) = CHOOSE cls \in classes : \A other \in classes : other <= cls
  BY DEF WorseClass
<1> HIDE DEF limits03, limits05
<1>4. ASSUME NEW c \in Int, NEW f, f[5] \in Int, f[6] \in Int, f[7] \in Int
      PROVE  /\ least(c, f) \subseteq {5, 6, 7, 8} /\ 5 \in least(c, f)
             /\ 6 \in least(c, f) <=> c > f[5]
             /\ 7 \in least(c, f) <=> c > f[5] /\ c > f[6]
             /\ 8 \in least(c, f) <=> c > f[5] /\ c > f[6] /\ c > f[7]
  <2>1. /\ 5 .. 5 - 1 = {} /\ 5 .. 6 - 1 = {5} /\ 5 .. 7 - 1 = {5, 6}
        /\ 5 .. 8 - 1 = {5, 6, 7}
    OBVIOUS
  <2>2. QED
    BY <2>1, LimitFacts
<1> HIDE DEF least
<1>5. /\ classes \subseteq {5, 6, 7, 8} /\ 5 \in classes
      /\ 6 \in classes <=> count.c03 > 100 \/ count.c05 > 35
      /\ 7 \in classes <=> count.c03 > 1000 \/ count.c05 > 350
      /\ 8 \in classes <=> count.c03 > 10000 \/ count.c05 > 3500
  <2>1. /\ least(count.c03, limits03) \subseteq {5, 6, 7, 8}
        /\ 5 \in least(count.c03, limits03)
        /\ 6 \in least(count.c03, limits03) <=> count.c03 > 100
        /\ 7 \in least(count.c03, limits03) <=> count.c03 > 1000
        /\ 8 \in least(count.c03, limits03) <=> count.c03 > 10000
    BY <1>1, <1>2, <1>4
  <2>2. /\ least(count.c05, limits05) \subseteq {5, 6, 7, 8}
        /\ 5 \in least(count.c05, limits05)
        /\ 6 \in least(count.c05, limits05) <=> count.c05 > 35
        /\ 7 \in least(count.c05, limits05) <=> count.c05 > 350
        /\ 8 \in least(count.c05, limits05) <=> count.c05 > 3500
    BY <1>1, <1>2, <1>4
  <2>3. QED
    BY <2>1, <2>2
<1> HIDE DEF classes
<1>6. ASSUME NEW largest \in classes, \A other \in classes : other <= largest
      PROVE  WorseClass(count) = largest
  <2>1. \A cls \in classes : (\A other \in classes : other <= cls) => cls = largest
    BY <1>5, <1>6
  <2>2. QED
    BY <1>3, <1>6, <2>1
<1>7. CASE 8 \in classes
  BY <1>1, <1>5, <1>6, <1>7, ClassFacts
<1>8. CASE 8 \notin classes /\ 7 \in classes
  <2>1. WorseClass(count) = 7
    BY <1>5, <1>6, <1>8
  <2>2. QED
    BY <1>1, <1>5, <1>8, <2>1, ClassFacts
<1>9. CASE 8 \notin classes /\ 7 \notin classes /\ 6 \in classes
  <2>1. WorseClass(count) = 6
    BY <1>5, <1>6, <1>9
  <2>2. QED
    BY <1>1, <1>5, <1>9, <2>1, ClassFacts
<1>10. CASE 8 \notin classes /\ 7 \notin classes /\ 6 \notin classes
  <2>1. WorseClass(count) = 5
    BY <1>5, <1>6, <1>10
  <2>2. QED
    BY <1>1, <1>5, <1>10, <2>1, ClassFacts
<1>11. QED
  BY <1>7, <1>8, <1>9, <1>10

\* A count at its limit, or above it, has a ratio of at least one.
LEMMA PartFacts ==
  ASSUME NEW count \in Int, NEW limit \in Int, limit > 0
  PROVE  /\ PartOf(count, limit) \in Int
         /\ count >= limit => PartOf(count, limit) >= One
<1> DEFINE q == (count * 100) \div limit
           rest == (count * 100) % limit
<1>1. PartOf(count, limit) = q /\ One = 100
  BY DEF PartOf, One
<1>2. q \in Int /\ rest \in 0 .. limit - 1 /\ count * 100 = limit * q + rest
  OBVIOUS
<1>3. ASSUME count >= limit, q <= 99 PROVE FALSE
  <2>1. limit * q <= limit * 99
    BY <1>2, <1>3
  <2>2. QED
    BY <1>2, <1>3, <2>1
<1>4. QED
  BY <1>1, <1>2, <1>3

\* Eighty per cent of a limit is something, and not more than the limit.
LEMMA ScaledLimit ==
  ASSUME NEW limit \in Int, limit >= 2, NEW m \in {80, 100}
  PROVE  (limit * m) \div 100 \in 1 .. limit
<1>1. (limit * 80) \div 100 \in 1 .. limit
  OBVIOUS
<1>2. (limit * 100) \div 100 \in 1 .. limit
  OBVIOUS
<1>3. QED
  BY <1>1, <1>2

\* No process that keeps or tightens the limits of a class makes them zero.
LEMMA ScaledFacts ==
  ASSUME NEW cls \in IsoClasses, NEW process, NEW overrides,
         ProcessDefaultsFor(process).multiplier <= 100,
         overrides.limits = Count(0, 0)
  PROVE  LET limits == EffectiveLimits(cls, process, overrides)
         IN  /\ limits.c03 \in 1 .. ISO14644Limits[cls].c03
             /\ limits.c05 \in 1 .. ISO14644Limits[cls].c05
<1> DEFINE base   == ISO14644Limits[cls]
           m      == ProcessDefaultsFor(process).multiplier
           limits == EffectiveLimits(cls, process, overrides)
<1>1. m \in {80, 100}
  <2>1. ProcessDefaultsFor(process) \in {ProcessThresholds[p] : p \in DOMAIN ProcessThresholds}
    BY DEF ProcessDefaultsFor, ProcessThresholds
  <2>2. /\ ProcessThresholds["lithography"].multiplier = 80
        /\ ProcessThresholds["etching"].multiplier = 100
        /\ ProcessThresholds["diffusion"].multiplier = 120
        /\ DOMAIN ProcessThresholds = {"lithography", "etching", "diffusion"}
    BY DEF ProcessThresholds, Profile
  <2>3. QED
    BY <2>1, <2>2
<1>2. overrides.limits.c03 = 0 /\ overrides.limits.c05 = 0
  BY DEF Count
<1>3. limits.c03 = (base.c03 * m) \div 100 /\ limits.c05 = (base.c05 * m) \div 100
  BY <1>2 DEF EffectiveLimits, Count
<1> HIDE DEF m, limits
<1>4. /\ base.c03 \in {100, 1000, 10000, 100000}
      /\ base.c05 \in {35, 350, 3500, 35000}
  BY LimitFacts
<1> HIDE DEF base
<1>5. base.c03 \in Int /\ base.c03 >= 2 /\ base.c05 \in Int /\ base.c05 >= 2
  BY <1>4
<1>6. limits.c03 \in 1 .. base.c03 /\ limits.c05 \in 1 .. base.c05
  BY <1>1, <1>3, <1>5, ScaledLimit
<1>7. QED
  BY <1>6 DEF limits, base

\* A count that does not fit its class has a ratio of at least one.
LEMMA DirtierFacts ==
  ASSUME NEW count \in IntCounts, NEW cls \in IsoClasses, NEW process, NEW overrides,
         ProcessDefaultsFor(process).multiplier <= 100,
         overrides.limits = Count(0, 0),
         ClassifyISO(count) > cls \/ OverTable(count)
  PROVE  RatioAgainst(EffectiveLimits(cls, process, overrides), count) >= One
<1> DEFINE limits == EffectiveLimits(cls, process, overrides)
<1>1. /\ limits.c03 \in 1 .. ISO14644Limits[cls].c03
      /\ limits.c05 \in 1 .. ISO14644Limits[cls].c05
  BY ScaledFacts
<1>2. count.c03 \in Int /\ count.c05 \in Int
  BY DEF IntCounts
<1>3. count.c03 > ISO14644Limits[cls].c03 \/ count.c05 > ISO14644Limits[cls].c05
  <2>1. OverTable(count) <=> count.c03 > 100000 \/ count.c05 > 35000
    BY <1>2, LimitFacts DEF OverTable, Within
  <2>2. CASE cls = 5
    BY <1>2, <2>1, <2>2, LimitFacts, ClassFacts
  <2>3. CASE cls = 6
    BY <1>2, <2>1, <2>3, LimitFacts, ClassFacts
  <2>4. CASE cls = 7
    BY <1>2, <2>1, <2>4, LimitFacts, ClassFacts
  <2>5. CASE cls = 8
    BY <1>2, <2>1, <2>5, LimitFacts, ClassFacts
  <2>6. QED
    BY <2>2, <2>3, <2>4, <2>5, LimitFacts
<1>4. ISO14644Limits[cls].c03 \in Int /\ ISO14644Limits[cls].c05 \in Int
  BY LimitFacts
<1> HIDE DEF limits
<1>5. /\ limits.c03 \in Int /\ limits.c03 > 0 /\ limits.c05 \in Int /\ limits.c05 > 0
      /\ count.c03 >= limits.c03 \/ count.c05 >= limits.c05
  <2>1. count.c03 >= limits.c03 \/ count.c05 >= limits.c05
    BY <1>1, <1>2, <1>3, <1>4
  <2>2. limits.c03 \in Int /\ limits.c03 > 0
    BY <1>1, <1>4
  <2>3. limits.c05 \in Int /\ limits.c05 > 0
    BY <1>1, <1>4
  <2>4. QED
    BY <2>1, <2>2, <2>3
<1> DEFINE r1 == PartOf(count.c03, limits.c03)
           r2 == PartOf(count.c05, limits.c05)
<1>6. r1 \in Int /\ r2 \in Int /\ (r1 >= One \/ r2 >= One)
  <2>1. r1 \in Int /\ (count.c03 >= limits.c03 => r1 >= One)
    BY <1>2, <1>5, PartFacts
  <2>2. r2 \in Int /\ (count.c05 >= limits.c05 => r2 >= One)
    BY <1>2, <1>5, PartFacts
  <2>3. QED
    BY <1>5, <2>1, <2>2
<1>7. RatioAgainst(limits, count) = IF r1 >= r2 THEN r1 ELSE r2
  BY DEF RatioAgainst
<1> HIDE DEF r1, r2
<1>8. RatioAgainst(limits, count) >= One
  BY <1>6, <1>7 DEF One
<1>9. QED
  BY <1>8 DEF limits

\* What the sample of a request says, until it is stored, is what the reading
\* was judged to be.
Judged(m) ==
  pc[m] # "idle" /\ sample[m].valid =>
    /\ sample[m].count \in IntCounts
    /\ sample[m].iso = ClassifyISO(sample[m].count)
    /\ sample[m].overTable = OverTable(sample[m].count)
    /\ sample[m].ratio =
         RatioAgainst(EffectiveLimits(IsoClassOf[m], ProcessOf[m], OverridesOf[m]),
                      sample[m].count)

JudgedInv ==
  /\ DOMAIN pc = Monitors /\ DOMAIN sample = Monitors
  /\ \A m \in Monitors : Judged(m)

\* The first step of Process, for a reading that the handler let through.
LEMMA JudgeStep ==
  ASSUME JudgedInv, NEW r \in Readings, IngestJudge(r)
  PROVE  JudgedInv'
<1> DEFINE m == r.monitor
           read == NewSample(r.at, r.count, r.env)
           limits == EffectiveLimits(IsoClassOf[m], ProcessOf[m], OverridesOf[m])
           good == [read EXCEPT !.iso = ClassifyISO(r.count),
                                !.overTable = OverTable(r.count),
                                !.ratio = RatioAgainst(limits, r.count)]
           bad  == [read EXCEPT !.valid = FALSE]
<1>1. m \in Monitors /\ r.count \in IntCounts
  BY SampleAssumption DEF IntCounts
<1>2. /\ good.count = r.count /\ good.iso = ClassifyISO(r.count)
      /\ good.overTable = OverTable(r.count) /\ good.ratio = RatioAgainst(limits, r.count)
      /\ bad.valid = FALSE
  BY DEF NewSample
<1>3. /\ DOMAIN pc' = Monitors /\ DOMAIN sample' = Monitors
      /\ sample'[m] \in {good, bad}
      /\ \A v \in Monitors \ {m} : pc'[v] = pc[v] /\ sample'[v] = sample[v]
  BY <1>1 DEF IngestJudge, JudgedInv
<1> HIDE DEF good, bad
<1>4. Judged(m)'
  BY <1>1, <1>2, <1>3 DEF Judged
<1>5. QED
  BY <1>3, <1>4 DEF JudgedInv, Judged

\* What is judged stays as it was judged.
LEMMA JudgedStep ==
  ASSUME JudgedInv, [Next]_vars
  PROVE  JudgedInv'
<1>1. ASSUME NEW r \in Readings, PostSample(r) PROVE JudgedInv'
  BY <1>1, JudgeStep DEF PostSample
<1>2. ASSUME NEW m \in Monitors, IngestAbort(m) \/ IngestAppend(m) PROVE JudgedInv'
  <2>1. /\ DOMAIN pc' = Monitors /\ DOMAIN sample' = Monitors /\ pc'[m] = "idle"
        /\ \A v \in Monitors \ {m} : pc'[v] = pc[v] /\ sample'[v] = sample[v]
    BY <1>2 DEF IngestAbort, IngestAppend, JudgedInv
  <2>2. QED
    BY <2>1 DEF JudgedInv, Judged
<1>3. ASSUME NEW m \in Monitors, IngestAlerts(m) \/ IngestWeigh(m) PROVE JudgedInv'
  <2>1. /\ DOMAIN pc' = Monitors /\ sample' = sample /\ pc[m] # "idle"
        /\ \A v \in Monitors \ {m} : pc'[v] = pc[v]
    BY <1>3 DEF IngestAlerts, IngestWeigh, JudgedInv
  <2>2. QED
    BY <2>1 DEF JudgedInv, Judged
<1>4. CASE UNCHANGED <<pc, sample>>
  BY <1>4 DEF JudgedInv, Judged
<1>5. QED
  BY <1>1, <1>2, <1>3, <1>4 DEF Next, Ack, SetMaintenance, vars

LEMMA JudgedInit == ASSUME Init PROVE JudgedInv
  BY DEF Init, JudgedInv, Judged

\* The dual-size rule of domain/iso.go, for every count: searching the table
\* for the first class that both sizes fit in gives the worse of the classes
\* the sizes have by themselves.
THEOREM WorseSizeAlwaysWins == Spec => []WorseSizeWins
<1>1. JudgedInv => WorseSizeWins
  BY WorseFacts DEF JudgedInv, Judged, WorseSizeWins
<1>2. QED
  BY <1>1, JudgedInit, JudgedStep, PTL DEF Spec

\* The two judgements of Process agree, for every count, class and process:
\* what is dirtier than its class, or beyond the table, elevates its zone.
THEOREM DirtierIsElevated == Spec => []DirtierClassIsElevated
<1>1. JudgedInv => DirtierClassIsElevated
  <2> SUFFICES ASSUME JudgedInv, NEW m \in Monitors, pc[m] # "idle", sample[m].valid,
                      ProcessDefaultsFor(ProcessOf[m]).multiplier <= 100,
                      OverridesOf[m].limits = Count(0, 0),
                      sample[m].iso > IsoClassOf[m] \/ sample[m].overTable
               PROVE  sample[m].ratio >= One
    BY DEF DirtierClassIsElevated
  <2>1. IsoClassOf[m] \in IsoClasses
    BY SampleAssumption
  <2>2. QED
    BY <2>1, DirtierFacts DEF JudgedInv, Judged
<1>2. QED
  BY <1>1, JudgedInit, JudgedStep, PTL DEF Spec

-----------------------------------------------------------------------------
(* Positions in a list and what is picked at them. *)

Rank(K, i) == Cardinality({j \in K : j <= i})

Ascending(c, e) == \A k, l \in 1 .. c : k < l => e[k] < e[l]

\* These are the c positions of K in 1 .. n, in ascending order.
Enumerates(n, K, c, e) ==
  /\ n \in Nat /\ K \in SUBSET (1 .. n) /\ c \in Nat /\ e \in [1 .. c -> K]
  /\ Ascending(c, e)
  /\ \A i \in K : \E k \in 1 .. c : e[k] = i

\* Positions are numbered one by one.
LEMMA RankFacts ==
  ASSUME NEW n \in Nat, NEW K \in SUBSET (1 .. n)
  PROVE  /\ IsFiniteSet(K) /\ Cardinality(K) \in Nat
         /\ \A i \in K : Rank(K, i) \in 1 .. Cardinality(K)
         /\ \A i, j \in K : i < j => Rank(K, i) < Rank(K, j)
<1>1. \A i \in K : i \in Nat
  OBVIOUS
<1>2. IsFiniteSet(K) /\ Cardinality(K) \in Nat
  <2>1. IsFiniteSet(1 .. n)
    BY FS_Interval
  <2>2. QED
    BY <2>1, FS_Subset, FS_CardinalityType
<1>3. \A i : /\ IsFiniteSet({j \in K : j <= i}) /\ Rank(K, i) \in Nat
             /\ Rank(K, i) <= Cardinality(K)
  <2>1. \A I \in SUBSET K : /\ IsFiniteSet(I) /\ Cardinality(I) \in Nat
                            /\ Cardinality(I) <= Cardinality(K)
    BY <1>2, FS_Subset, FS_CardinalityType
  <2>2. \A i : {j \in K : j <= i} \in SUBSET K
    OBVIOUS
  <2>3. QED
    BY <2>1, <2>2 DEF Rank
<1>4. ASSUME NEW i \in K PROVE Rank(K, i) # 0
  <2>1. {j \in K : j <= i} # {}
    BY <1>1
  <2>2. \A I : IsFiniteSet(I) /\ I # {} => Cardinality(I) # 0
    BY FS_EmptySet
  <2>3. QED
    BY <1>3, <2>1, <2>2 DEF Rank
<1>5. ASSUME NEW i \in K, NEW j \in K, i < j PROVE Rank(K, i) < Rank(K, j)
  <2> DEFINE I == {x \in K : x <= i}
             J == {x \in K : x <= j}
  <2>1. i \in Int /\ j \in Int /\ \A x \in K : x \in Int
    BY <1>1
  <2>2. I \in SUBSET J /\ j \in J /\ j \notin I
    <3>1. \A x \in K : x <= i => x <= j
      BY <1>5, <2>1
    <3>2. j <= j /\ ~(j <= i)
      BY <1>5, <2>1
    <3>3. QED
      BY <3>1, <3>2
  <2>3. IsFiniteSet(J) /\ Rank(K, j) = Cardinality(J) /\ Rank(K, i) = Cardinality(I)
    BY <1>3 DEF Rank
  <2> HIDE DEF I, J
  <2>4. Cardinality(I) <= Cardinality(J) /\ Cardinality(J) # Cardinality(I)
    BY <2>2, <2>3, FS_Subset
  <2>5. Rank(K, i) \in Nat /\ Rank(K, j) \in Nat
    BY <1>3
  <2>6. QED
    BY <2>3, <2>4, <2>5
<1>6. ASSUME NEW i \in K PROVE Rank(K, i) \in 1 .. Cardinality(K)
  <2>1. /\ Rank(K, i) \in Nat /\ Rank(K, i) # 0 /\ Rank(K, i) <= Cardinality(K)
        /\ Cardinality(K) \in Nat
    BY <1>2, <1>3, <1>4
  <2>2. QED
    BY <2>1
<1>7. QED
  BY <1>2, <1>5, <1>6

\* Every number up to the count is that of one position.
LEMMA NthFacts ==
  ASSUME NEW n \in Nat, NEW K \in SUBSET (1 .. n)
  PROVE  /\ \A k \in 1 .. Cardinality(K) : Nth(K, k) \in K /\ Rank(K, Nth(K, k)) = k
         /\ \A i \in K : Nth(K, Rank(K, i)) = i
         /\ \A k, l \in 1 .. Cardinality(K) : k < l => Nth(K, k) < Nth(K, l)
<1> DEFINE c == Cardinality(K)
           f == [i \in K |-> Rank(K, i)]
<1>1. /\ IsFiniteSet(K) /\ c \in Nat
      /\ \A i \in K : Rank(K, i) \in 1 .. c
      /\ \A i, j \in K : i < j => Rank(K, i) < Rank(K, j)
  BY RankFacts
<1> HIDE DEF c
<1>2. \A i, j \in K : Rank(K, i) = Rank(K, j) => i = j
  BY <1>1
<1>3. f \in Injection(K, 1 .. c)
  BY <1>1, <1>2 DEF Injection, IsInjective
<1>4. IsFiniteSet(1 .. c) /\ Cardinality(1 .. c) = c
  BY <1>1, FS_Interval
<1>5. f \in Surjection(K, 1 .. c)
  BY <1>3, <1>4, FS_Injection DEF c
<1>6. ASSUME NEW k \in 1 .. c PROVE Nth(K, k) \in K /\ Rank(K, Nth(K, k)) = k
  <2>1. \E i \in K : Rank(K, i) = k
    BY <1>5 DEF Surjection
  <2>2. QED
    BY <2>1 DEF Nth, Rank
<1>7. ASSUME NEW i \in K PROVE Nth(K, Rank(K, i)) = i
  BY <1>1, <1>2, <1>6
<1>8. ASSUME NEW k \in 1 .. c, NEW l \in 1 .. c, k < l PROVE Nth(K, k) < Nth(K, l)
  <2>1. \A i \in K : i \in Nat
    OBVIOUS
  <2>2. /\ Nth(K, k) \in K /\ Rank(K, Nth(K, k)) = k /\ Nth(K, k) \in Nat
        /\ Nth(K, l) \in K /\ Rank(K, Nth(K, l)) = l /\ Nth(K, l) \in Nat
    BY <1>6, <2>1
  <2>3. ~(Nth(K, l) < Nth(K, k)) /\ Nth(K, l) # Nth(K, k)
    <3>1. Rank(K, Nth(K, l)) \in Nat /\ Rank(K, Nth(K, k)) \in Nat
      BY <2>2
    <3>2. Nth(K, l) < Nth(K, k) => Rank(K, Nth(K, l)) < Rank(K, Nth(K, k))
      BY <1>1, <2>2
    <3>3. QED
      BY <1>8, <2>2, <3>1, <3>2
  <2>4. QED
    BY <2>2, <2>3
<1>9. QED
  BY <1>6, <1>7, <1>8 DEF c

\* There is one way only to enumerate positions in ascending order.
LEMMA EnumerationFacts ==
  ASSUME NEW n, NEW K, NEW c, NEW e, Enumerates(n, K, c, e)
  PROVE  /\ Cardinality(K) = c /\ c \in Nat
         /\ \A k \in 1 .. c : Nth(K, k) = e[k]
<1> n \in Nat /\ K \in SUBSET (1 .. n) /\ c \in Nat /\ e \in [1 .. c -> K]
  BY DEF Enumerates
<1> Ascending(c, e) /\ \A i \in K : \E k \in 1 .. c : e[k] = i
  BY DEF Enumerates
<1>1. \A i \in K : i \in Nat
  OBVIOUS
<1>2. \A k \in 1 .. c : e[k] \in K /\ e[k] \in Nat
  BY <1>1
<1>3. \A k, l \in 1 .. c : e[k] = e[l] => k = l
  BY <1>2 DEF Ascending
<1>4. e \in Bijection(1 .. c, K)
  BY <1>3 DEF Bijection, Injection, IsInjective, Surjection
<1>5. Cardinality(K) = c
  BY <1>4, FS_CountingElements DEF ExistsBijection
<1>6. ASSUME NEW k \in 1 .. c PROVE Rank(K, e[k]) = k
  <2> DEFINE below == {j \in K : j <= e[k]}
             d     == [l \in 1 .. k |-> e[l]]
  <2>1. \A l \in 1 .. c : e[l] <= e[k] <=> l <= k
    BY <1>2 DEF Ascending
  <2>2. \A l \in 1 .. k : l \in 1 .. c /\ d[l] = e[l]
    OBVIOUS
  <2>3. d \in [1 .. k -> below]
    BY <1>2, <2>1, <2>2
  <2>4. \A i \in below : \E l \in 1 .. k : d[l] = i
    BY <2>1, <2>2
  <2>5. \A x, y \in 1 .. k : d[x] = d[y] => x = y
    BY <1>3, <2>2
  <2> HIDE DEF d, below
  <2>6. d \in Bijection(1 .. k, below)
    BY <2>3, <2>4, <2>5 DEF Bijection, Injection, IsInjective, Surjection
  <2>7. Cardinality(below) = k
    BY <2>6, FS_CountingElements DEF ExistsBijection
  <2>8. QED
    BY <2>7 DEF Rank, below
<1>7. QED
  BY <1>2, <1>5, <1>6, NthFacts

\* What is picked is a list of as many elements.
LEMMA SubsequenceFacts ==
  ASSUME NEW S, NEW s \in Seq(S), NEW K \in SUBSET DOMAIN s
  PROVE  /\ Subsequence(s, K) \in Seq(S)
         /\ Len(Subsequence(s, K)) = Cardinality(K) /\ Cardinality(K) \in Nat
         /\ DOMAIN Subsequence(s, K) = 1 .. Cardinality(K)
         /\ \A k \in 1 .. Cardinality(K) :
              Nth(K, k) \in K /\ Subsequence(s, K)[k] = s[Nth(K, k)]
<1>1. DOMAIN s = 1 .. Len(s) /\ Len(s) \in Nat /\ \A i \in 1 .. Len(s) : s[i] \in S
  OBVIOUS
<1>2. Cardinality(K) \in Nat /\ \A k \in 1 .. Cardinality(K) : Nth(K, k) \in K
  BY <1>1, RankFacts, NthFacts
<1>3. Subsequence(s, K) \in [1 .. Cardinality(K) -> S]
  BY <1>1, <1>2 DEF Subsequence
<1>4. QED
  BY <1>2, <1>3 DEF Subsequence

\* What an ascending enumeration picks.
LEMMA PickedFacts ==
  ASSUME NEW S, NEW s \in Seq(S), NEW K, NEW c, NEW e, Enumerates(Len(s), K, c, e),
         NEW t \in Seq(S), Len(t) = c, \A k \in 1 .. c : t[k] = s[e[k]]
  PROVE  Subsequence(s, K) = t
<1>1. /\ Cardinality(K) = c /\ c \in Nat
      /\ \A k \in 1 .. c : Nth(K, k) = e[k]
  BY EnumerationFacts
<1>2. Subsequence(s, K) = [k \in 1 .. c |-> t[k]]
  BY <1>1 DEF Subsequence
<1>3. t = [k \in 1 .. c |-> t[k]]
  OBVIOUS
<1>4. QED
  BY <1>2, <1>3

\* Where the positions T are found again among those that are kept.
Among(kept, T) == {k \in 1 .. Cardinality(kept) : Nth(kept, k) \in T}

\* Picking twice picks at the common positions.
LEMMA PickedTwice ==
  ASSUME NEW S, NEW s \in Seq(S), NEW kept \in SUBSET DOMAIN s, NEW T \in SUBSET DOMAIN s
  PROVE  Subsequence(Subsequence(s, kept), Among(kept, T)) = Subsequence(s, kept \cap T)
<1> PICK t, Q : t = Subsequence(s, kept) /\ Q = Among(kept, T)
  OBVIOUS
<1>1. \A k : k \in Q <=> k \in 1 .. Cardinality(kept) /\ Nth(kept, k) \in T
  BY DEF Among
<1>2. /\ DOMAIN s = 1 .. Len(s) /\ Len(s) \in Nat
      /\ \A i \in kept \cup T : i \in Nat
  OBVIOUS
<1>3. /\ t \in Seq(S) /\ DOMAIN t = 1 .. Cardinality(kept) /\ Cardinality(kept) \in Nat
      /\ \A k \in 1 .. Cardinality(kept) : Nth(kept, k) \in kept /\ t[k] = s[Nth(kept, k)]
  BY SubsequenceFacts
<1>4. /\ \A k, l \in 1 .. Cardinality(kept) : k < l => Nth(kept, k) < Nth(kept, l)
      /\ \A i \in kept : /\ Rank(kept, i) \in 1 .. Cardinality(kept)
                         /\ Nth(kept, Rank(kept, i)) = i
  BY <1>2, RankFacts, NthFacts
<1>5. Q \in SUBSET (1 .. Cardinality(kept)) /\ Q \in SUBSET DOMAIN t
  BY <1>1, <1>3
<1>6. /\ Cardinality(Q) \in Nat
      /\ \A k \in 1 .. Cardinality(Q) : Nth(Q, k) \in Q /\ Subsequence(t, Q)[k] = t[Nth(Q, k)]
      /\ Subsequence(t, Q) = [k \in 1 .. Cardinality(Q) |-> t[Nth(Q, k)]]
  BY <1>3, <1>5, SubsequenceFacts DEF Subsequence
<1>7. /\ \A k, l \in 1 .. Cardinality(Q) : k < l => Nth(Q, k) < Nth(Q, l)
      /\ \A i \in Q : /\ Rank(Q, i) \in 1 .. Cardinality(Q)
                      /\ Nth(Q, Rank(Q, i)) = i
  <2>1. Cardinality(kept) \in Nat
    BY <1>3
  <2>2. \A i \in Q : Rank(Q, i) \in 1 .. Cardinality(Q)
    BY <1>5, <2>1, RankFacts
  <2>3. /\ \A k, l \in 1 .. Cardinality(Q) : k < l => Nth(Q, k) < Nth(Q, l)
        /\ \A i \in Q : Nth(Q, Rank(Q, i)) = i
    BY <1>5, <2>1, NthFacts
  <2>4. QED
    BY <2>2, <2>3
<1> DEFINE e == [k \in 1 .. Cardinality(Q) |-> Nth(kept, Nth(Q, k))]
<1>8. e \in [1 .. Cardinality(Q) -> kept \cap T]
  BY <1>1, <1>3, <1>6
<1>9. Ascending(Cardinality(Q), e)
  BY <1>1, <1>3, <1>4, <1>6, <1>7 DEF Ascending
<1>10. \A i \in kept \cap T : \E k \in 1 .. Cardinality(Q) : e[k] = i
  <2> TAKE i \in kept \cap T
  <2>1. Rank(kept, i) \in Q
    BY <1>1, <1>4
  <2>2. Rank(Q, Rank(kept, i)) \in 1 .. Cardinality(Q)
    BY <1>7, <2>1
  <2>3. e[Rank(Q, Rank(kept, i))] = i
    BY <1>1, <1>4, <1>7, <2>1, <2>2
  <2>4. QED
    BY <2>2, <2>3
<1>11. PICK u \in Seq(S) : /\ u = Subsequence(t, Q) /\ Len(u) = Cardinality(Q)
                           /\ \A k \in 1 .. Cardinality(Q) : u[k] = s[e[k]]
  <2>1. Subsequence(t, Q) \in Seq(S) /\ Len(Subsequence(t, Q)) = Cardinality(Q)
    BY <1>3, <1>5, SubsequenceFacts
  <2>2. \A k \in 1 .. Cardinality(Q) : Subsequence(t, Q)[k] = s[e[k]]
    BY <1>1, <1>3, <1>6
  <2>3. QED
    BY <2>1, <2>2
<1> HIDE DEF e
<1>12. Enumerates(Len(s), kept \cap T, Cardinality(Q), e)
  BY <1>2, <1>6, <1>8, <1>9, <1>10 DEF Enumerates
<1>13. Subsequence(s, kept \cap T) = u
  BY <1>11, <1>12, PickedFacts
<1>14. QED
  BY <1>11, <1>13

\* One element more at the end.
LEMMA PickedAppended ==
  ASSUME NEW S, NEW s \in Seq(S), NEW x \in S, NEW K \in SUBSET DOMAIN s
  PROVE  /\ Subsequence(Append(s, x), K) = Subsequence(s, K)
         /\ Subsequence(Append(s, x), K \cup {Len(s) + 1}) = Append(Subsequence(s, K), x)
<1>1. PICK all : all = Append(s, x)
  OBVIOUS
<1>2. /\ all \in Seq(S) /\ Len(all) = Len(s) + 1 /\ DOMAIN all = 1 .. Len(s) + 1
      /\ DOMAIN s = 1 .. Len(s) /\ Len(s) \in Nat
      /\ \A i \in DOMAIN s : all[i] = s[i]
      /\ all[Len(s) + 1] = x
  BY <1>1
<1>3. /\ Subsequence(s, K) \in Seq(S) /\ Len(Subsequence(s, K)) = Cardinality(K)
      /\ Cardinality(K) \in Nat
      /\ \A k \in 1 .. Cardinality(K) :
           Nth(K, k) \in K /\ Subsequence(s, K)[k] = s[Nth(K, k)]
  BY SubsequenceFacts
<1>4. Subsequence(all, K) = Subsequence(s, K)
  BY <1>2, <1>3 DEF Subsequence
<1>5. /\ \A k, l \in 1 .. Cardinality(K) : k < l => Nth(K, k) < Nth(K, l)
      /\ \A i \in K : Rank(K, i) \in 1 .. Cardinality(K) /\ Nth(K, Rank(K, i)) = i
  BY <1>2, RankFacts, NthFacts
<1> DEFINE c == Cardinality(K) + 1
           L == K \cup {Len(s) + 1}
           e == [k \in 1 .. c |-> IF k < c THEN Nth(K, k) ELSE Len(s) + 1]
           t == Append(Subsequence(s, K), x)
<1>6. \A k \in 1 .. c : k \in 1 .. Cardinality(K) \/ k = c
  <2>1. Cardinality(K) \in Nat
    BY <1>3
  <2>2. QED
    BY <2>1
<1>7. \A k \in 1 .. Cardinality(K) : /\ k \in 1 .. c /\ k < c /\ Nth(K, k) \in 1 .. Len(s)
                                     /\ e[k] = Nth(K, k)
  BY <1>2, <1>3
<1>8. c \in 1 .. c /\ e[c] = Len(s) + 1
  BY <1>3
<1>9. e \in [1 .. c -> L]
  BY <1>3, <1>6
<1>10. L \in SUBSET DOMAIN all
  BY <1>2
<1>11. t \in Seq(S) /\ Len(t) = c /\ \A k \in 1 .. c : t[k] = all[e[k]]
  <2>1. /\ t \in Seq(S) /\ Len(t) = c /\ DOMAIN t = 1 .. c
        /\ \A k \in 1 .. Cardinality(K) : t[k] = Subsequence(s, K)[k]
        /\ t[c] = x
    BY <1>3
  <2> HIDE DEF t, e, c
  <2>2. ASSUME NEW k \in 1 .. c PROVE t[k] = all[e[k]]
    <3>1. CASE k \in 1 .. Cardinality(K)
      BY <1>2, <1>3, <1>7, <2>1, <3>1
    <3>2. CASE k = c
      BY <1>2, <1>8, <2>1, <3>2
    <3>3. QED
      BY <1>6, <3>1, <3>2
  <2>3. QED
    BY <2>1, <2>2
<1>12. Ascending(c, e)
  <2> SUFFICES ASSUME NEW k \in 1 .. c, NEW l \in 1 .. c, k < l PROVE e[k] < e[l]
    BY DEF Ascending
  <2>1. k \in 1 .. Cardinality(K)
    BY <1>3, <1>6
  <2>2. CASE l \in 1 .. Cardinality(K)
    BY <1>5, <1>7, <2>1, <2>2
  <2>3. CASE l = c
    <3>1. e[k] \in 1 .. Len(s) /\ e[l] = Len(s) + 1 /\ Len(s) \in Nat
      BY <1>2, <1>7, <1>8, <2>1, <2>3
    <3>2. QED
      BY <3>1
  <2>4. QED
    BY <1>6, <2>2, <2>3
<1>13. \A i \in L : \E k \in 1 .. c : e[k] = i
  BY <1>5, <1>7, <1>8
<1>14. c \in Nat
  BY <1>3
<1> HIDE DEF c, L, e, t
<1>15. Subsequence(all, L) = t
  <2>1. Enumerates(Len(all), L, c, e)
    BY <1>2, <1>9, <1>10, <1>12, <1>13, <1>14 DEF Enumerates
  <2>2. QED
    BY <1>2, <1>11, <2>1, PickedFacts
<1>16. QED
  BY <1>1, <1>2, <1>4, <1>15 DEF L, t

\* The first ones are left out.
LEMMA PickedLater ==
  ASSUME NEW S, NEW s \in Seq(S), NEW K \in SUBSET DOMAIN s,
         NEW x \in 0 .. Cardinality(K), NEW kept,
         kept = {i \in K : Rank(K, i) > x}
  PROVE  Subsequence(s, kept) =
           SubSeq(Subsequence(s, K), x + 1, Len(Subsequence(s, K)))
<1> DEFINE c == Cardinality(K) - x
           e == [k \in 1 .. c |-> Nth(K, k + x)]
           t == [k \in 1 .. c |-> s[e[k]]]
<1>1. /\ DOMAIN s = 1 .. Len(s) /\ Len(s) \in Nat
      /\ \A i \in 1 .. Len(s) : s[i] \in S
  OBVIOUS
<1>2. /\ Subsequence(s, K) \in Seq(S) /\ Len(Subsequence(s, K)) = Cardinality(K)
      /\ Cardinality(K) \in Nat
      /\ \A k \in 1 .. Cardinality(K) :
           Nth(K, k) \in K /\ Subsequence(s, K)[k] = s[Nth(K, k)]
  BY SubsequenceFacts
<1>3. /\ \A k \in 1 .. Cardinality(K) : Nth(K, k) \in K /\ Rank(K, Nth(K, k)) = k
      /\ \A k, l \in 1 .. Cardinality(K) : k < l => Nth(K, k) < Nth(K, l)
      /\ \A i \in K : Rank(K, i) \in 1 .. Cardinality(K) /\ Nth(K, Rank(K, i)) = i
  BY <1>1, RankFacts, NthFacts
<1>4. c \in Nat /\ \A k \in 1 .. c : k + x \in 1 .. Cardinality(K) /\ k + x > x
  BY <1>2
<1>5. e \in [1 .. c -> kept]
  <2>1. \A k \in 1 .. c : Nth(K, k + x) \in kept
    BY <1>3, <1>4
  <2>2. QED
    BY <2>1
<1>6. Ascending(c, e)
  BY <1>3, <1>4 DEF Ascending
<1>7. \A i \in kept : \E k \in 1 .. c : e[k] = i
  <2> TAKE i \in kept
  <2>1. Rank(K, i) - x \in 1 .. c /\ Rank(K, i) - x + x = Rank(K, i)
    BY <1>2, <1>3
  <2>2. e[Rank(K, i) - x] = i
    BY <1>3, <2>1
  <2>3. QED
    BY <2>1, <2>2
<1>8. kept \in SUBSET DOMAIN s
  OBVIOUS
<1>9. Subsequence(s, kept) = t
  <2>1. t \in Seq(S) /\ Len(t) = c /\ \A k \in 1 .. c : t[k] = s[e[k]]
    <3>1. \A k \in 1 .. c : e[k] \in 1 .. Len(s)
      BY <1>1, <1>5
    <3> HIDE DEF e, c
    <3>2. t \in [1 .. c -> S]
      BY <1>1, <3>1
    <3>3. QED
      BY <1>4, <3>2
  <2> HIDE DEF c, e, t
  <2>2. Enumerates(Len(s), kept, c, e)
    BY <1>1, <1>4, <1>5, <1>6, <1>7, <1>8 DEF Enumerates
  <2>3. QED
    BY <2>1, <2>2, PickedFacts
<1>10. SubSeq(Subsequence(s, K), x + 1, Len(Subsequence(s, K))) = t
  <2> DEFINE u == Subsequence(s, K)
             v == SubSeq(u, x + 1, Cardinality(K))
  <2>1. /\ u \in Seq(S) /\ Len(u) = Cardinality(K)
        /\ \A k \in 1 .. Cardinality(K) : u[k] = s[Nth(K, k)]
    BY <1>2
  <2> HIDE DEF u
  <2>2. /\ v \in Seq(S) /\ Len(v) = c /\ \A k \in 1 .. c : v[k] = u[k + x]
    BY <1>2, <2>1
  <2>3. t \in Seq(S) /\ Len(t) = c /\ \A k \in 1 .. c : t[k] = s[Nth(K, k + x)]
    <3>1. \A k \in 1 .. c : e[k] \in 1 .. Len(s)
      BY <1>1, <1>5
    <3>2. t \in [1 .. c -> S]
      BY <1>1, <3>1
    <3>3. QED
      BY <1>4, <3>2
  <2>4. \A k \in 1 .. c : v[k] = t[k]
    BY <1>4, <2>1, <2>2, <2>3
  <2> HIDE DEF v, t, c
  <2>5. v = t
    BY <2>2, <2>3, <2>4, SeqEqual
  <2>6. QED
    BY <2>1, <2>5 DEF v, u
<1>11. QED
  BY <1>9, <1>10

-----------------------------------------------------------------------------
(* What Append and its trim do to the samples of each monitor zone. *)

\* How many samples of a monitor zone are too many, of c.
Excess(c) == IF MaxSamplesPerZone > 0 /\ c > MaxSamplesPerZone THEN c - MaxSamplesPerZone ELSE 0

LEMMA ExcessFacts ==
  ASSUME NEW c \in Nat
  PROVE  /\ Excess(c) \in 0 .. c
         /\ MaxSamplesPerZone > 0 => c - Excess(c) <= MaxSamplesPerZone
         /\ Excess(c) > 0 => MaxSamplesPerZone > 0 /\ c - Excess(c) = MaxSamplesPerZone
  BY SampleAssumption DEF Excess

KeptOf(s, m) ==
  LET K == OfMonitor(s, m)
  IN  {i \in DOMAIN s : i \notin K \/ Rank(K, i) > Excess(Cardinality(K))}

\* The trim drops what comes first of the monitor zone, and nothing else.
LEMMA TrimFacts ==
  ASSUME NEW s \in Seq(SampleRecord), NEW m
  PROVE  Trimmed(s, m) = Subsequence(s, KeptOf(s, m)) /\ KeptOf(s, m) \in SUBSET DOMAIN s
<1> PICK K : K = OfMonitor(s, m)
  OBVIOUS
<1> DEFINE excess  == Cardinality(K) - MaxSamplesPerZone
           dropped == {i \in K : Cardinality({j \in K : j < i}) < excess}
           kept    == IF MaxSamplesPerZone > 0 THEN DOMAIN s \ dropped ELSE DOMAIN s
<1>1. Trimmed(s, m) = Subsequence(s, kept) /\ kept \in SUBSET DOMAIN s
  BY DEF Trimmed
<1>2. /\ Len(s) \in Nat /\ K \in SUBSET (1 .. Len(s)) /\ K \subseteq DOMAIN s
      /\ \A i \in K : i \in Nat
  BY DEF OfMonitor
<1>3. /\ IsFiniteSet(K) /\ Cardinality(K) \in Nat
      /\ \A i \in K : Rank(K, i) \in 1 .. Cardinality(K)
  BY <1>2, RankFacts
<1>4. ASSUME NEW i \in K PROVE Cardinality({j \in K : j < i}) = Rank(K, i) - 1
  <2> DEFINE upTo == {j \in K : j <= i}
  <2>1. IsFiniteSet(upTo) /\ i \in upTo
    <3>1. upTo \in SUBSET K
      OBVIOUS
    <3>2. QED
      BY <1>2, <1>3, <3>1, FS_Subset
  <2>2. {j \in K : j < i} = upTo \ {i}
    BY <1>2
  <2>3. QED
    BY <2>1, <2>2, FS_RemoveElement DEF Rank
<1>5. ASSUME NEW i \in K
      PROVE  Cardinality({j \in K : j < i}) < excess <=> Rank(K, i) <= excess
  <2>1. Rank(K, i) \in Nat /\ excess \in Int
    BY <1>3, SampleAssumption
  <2>2. QED
    BY <1>4, <2>1
<1>6. ASSUME NEW i \in K
      PROVE  i \in kept <=> Rank(K, i) > Excess(Cardinality(K))
  <2>1. Rank(K, i) \in Nat /\ Rank(K, i) >= 1 /\ excess \in Int /\ MaxSamplesPerZone \in Nat
    BY <1>3, SampleAssumption
  <2>2. i \in kept <=> MaxSamplesPerZone = 0 \/ ~(Rank(K, i) <= excess)
    BY <1>2, <1>5, <2>1
  <2>3. QED
    BY <1>3, <2>1, <2>2 DEF Excess
<1>7. \A i \in DOMAIN s : i \notin K => i \in kept
  OBVIOUS
<1> HIDE DEF kept
<1>8. kept = KeptOf(s, m)
  BY <1>1, <1>6, <1>7 DEF KeptOf
<1>9. QED
  BY <1>1, <1>8

\* Each monitor zone keeps its samples, in their order, whatever is appended
\* and trimmed for another; for its own one more comes last and the first go.
LEMMA StoredAppended ==
  ASSUME samples \in Seq(SampleRecord), NEW m \in Monitors,
         NEW new \in SampleRecord, new.monitor = m,
         samples' = Trimmed(Append(samples, new), m)
  PROVE  /\ samples' \in Seq(SampleRecord)
         /\ \A u \in Monitors \ {m} : Stored(u)' = Stored(u)
         /\ Stored(m)' = SubSeq(Append(Stored(m), new),
                                Excess(Len(Stored(m)) + 1) + 1, Len(Stored(m)) + 1)
<1> DEFINE T(u) == OfMonitor(samples, u)
<1>1. PICK all : all = Append(samples, new)
  OBVIOUS
<1>2. /\ all \in Seq(SampleRecord) /\ Len(all) = Len(samples) + 1
      /\ DOMAIN all = 1 .. Len(samples) + 1
      /\ DOMAIN samples = 1 .. Len(samples) /\ Len(samples) \in Nat
      /\ \A i \in 1 .. Len(samples) : all[i] = samples[i]
      /\ all[Len(samples) + 1] = new
  BY <1>1
<1>3. \A u : T(u) \in SUBSET DOMAIN samples /\ T(u) \in SUBSET DOMAIN all
  BY <1>2 DEF OfMonitor
<1>4. \A i \in DOMAIN all : i \in DOMAIN samples \/ i = Len(samples) + 1
  BY <1>2
<1>5. ASSUME NEW u \in Monitors \ {m} PROVE OfMonitor(all, u) = T(u)
  BY <1>2, <1>4 DEF OfMonitor
<1>6. OfMonitor(all, m) = T(m) \cup {Len(samples) + 1}
  BY <1>2, <1>4 DEF OfMonitor
<1>7. ASSUME NEW u
      PROVE  /\ Subsequence(all, T(u)) = Stored(u)
             /\ Subsequence(all, T(u) \cup {Len(samples) + 1}) = Append(Stored(u), new)
  <2>1. PICK U \in SUBSET DOMAIN samples : U = T(u) /\ Stored(u) = Subsequence(samples, U)
    BY <1>3 DEF Stored
  <2>2. /\ Subsequence(all, U) = Subsequence(samples, U)
        /\ Subsequence(all, U \cup {Len(samples) + 1}) = Append(Subsequence(samples, U), new)
    BY <1>1, PickedAppended
  <2>3. QED
    BY <2>1, <2>2
<1>8. PICK K : K = OfMonitor(all, m)
  OBVIOUS
<1>9. PICK kept \in SUBSET DOMAIN all :
        /\ Trimmed(all, m) = Subsequence(all, kept)
        /\ \A i \in DOMAIN all :
             i \in kept <=> i \notin K \/ Rank(K, i) > Excess(Cardinality(K))
  <2>1. /\ Trimmed(all, m) = Subsequence(all, KeptOf(all, m))
        /\ KeptOf(all, m) \in SUBSET DOMAIN all
    BY <1>2, TrimFacts
  <2>2. \A i \in DOMAIN all :
          i \in KeptOf(all, m) <=> i \notin K \/ Rank(K, i) > Excess(Cardinality(K))
    BY <1>8 DEF KeptOf
  <2>3. QED
    BY <2>1, <2>2
<1>10. PICK t : t = samples' /\ t = Subsequence(all, kept)
  BY <1>1, <1>9
<1>11. /\ t \in Seq(SampleRecord) /\ DOMAIN t = 1 .. Cardinality(kept)
       /\ \A k \in 1 .. Cardinality(kept) : Nth(kept, k) \in kept /\ t[k] = all[Nth(kept, k)]
  BY <1>2, <1>10, SubsequenceFacts
<1>12. ASSUME NEW u
       PROVE  Subsequence(t, OfMonitor(t, u)) = Subsequence(all, kept \cap OfMonitor(all, u))
  <2>1. PICK Q, U : Q = OfMonitor(t, u) /\ U = OfMonitor(all, u)
    OBVIOUS
  <2>2. U \in SUBSET DOMAIN all /\ kept \in SUBSET DOMAIN all /\ all \in Seq(SampleRecord)
    BY <1>2, <1>9, <2>1 DEF OfMonitor
  <2>3. Q = Among(kept, U)
    BY <1>9, <1>11, <2>1 DEF OfMonitor, Among
  <2>4. Subsequence(Subsequence(all, kept), Among(kept, U)) = Subsequence(all, kept \cap U)
    BY <2>2, PickedTwice
  <2>5. QED
    BY <1>10, <2>1, <2>3, <2>4
<1>13. \A u : Stored(u)' = Subsequence(t, OfMonitor(t, u))
  BY <1>10 DEF Stored, OfMonitor
<1>14. ASSUME NEW u \in Monitors \ {m} PROVE Stored(u)' = Stored(u)
  <2>1. kept \cap OfMonitor(all, u) = OfMonitor(all, u)
    BY <1>9, <1>8 DEF OfMonitor
  <2>2. QED
    BY <1>5, <1>7, <1>12, <1>13, <2>1
<1>15. PICK V, x : V = Subsequence(all, K) /\ x = Excess(Cardinality(K))
  OBVIOUS
<1>16. V = Append(Stored(m), new)
  BY <1>6, <1>7, <1>8, <1>15
<1>17. /\ K \in SUBSET DOMAIN all
       /\ Len(V) = Cardinality(K) /\ Cardinality(K) \in Nat
  <2>1. K \in SUBSET DOMAIN all /\ all \in Seq(SampleRecord)
    BY <1>2, <1>8 DEF OfMonitor
  <2>2. QED
    BY <1>15, <2>1, SubsequenceFacts
<1>18. x \in 0 .. Cardinality(K)
  BY <1>17, <1>15, ExcessFacts
<1>19. Len(V) = Len(Stored(m)) + 1
  <2>1. Stored(m) \in Seq(SampleRecord)
    BY <1>3, SubsequenceFacts DEF Stored
  <2>2. QED
    BY <1>16, <2>1
<1>20. kept \cap K = {i \in K : Rank(K, i) > x}
  BY <1>9, <1>17, <1>15
<1>21. Stored(m)' = SubSeq(V, x + 1, Len(V))
  <2>1. Subsequence(all, kept \cap K) = SubSeq(V, x + 1, Len(V))
    <3>1. PICK both : both = kept \cap K
      OBVIOUS
    <3>2. both = {i \in K : Rank(K, i) > x}
      BY <1>20, <3>1
    <3>3. all \in Seq(SampleRecord)
      BY <1>2
    <3>4. x \in 0 .. Cardinality(K) /\ K \in SUBSET DOMAIN all
      BY <1>17, <1>18
    <3>5. Subsequence(all, both) =
            SubSeq(Subsequence(all, K), x + 1, Len(Subsequence(all, K)))
      BY <3>2, <3>3, <3>4, PickedLater, Zenon
    <3>6. QED
      BY <1>15, <3>1, <3>5
  <2>2. QED
    BY <1>12, <1>13, <1>8, <2>1
<1>22. QED
  <2>1. x = Excess(Len(Stored(m)) + 1)
    BY <1>17, <1>19, <1>15
  <2>2. QED
    BY <1>10, <1>11, <1>14, <1>19, <1>21, <1>16, <2>1

-----------------------------------------------------------------------------
(* The stored samples of one monitor zone and the list of its arrivals. *)

\* Seen from its end, the list of stored samples is the one of arrivals.
Latest(stored, arrivals) ==
  /\ \A k \in Nat : k < Len(stored) /\ k < Len(arrivals) =>
       stored[Len(stored) - k].valid = arrivals[Len(arrivals) - k]
  /\ Len(arrivals) < Window
  /\ Len(arrivals) < Window - 1 => Len(stored) <= Len(arrivals)
  /\ RoomForWindow => Len(arrivals) <= Len(stored)
  /\ MaxSamplesPerZone > 0 => Len(stored) <= MaxSamplesPerZone

\* The last n elements of a list.
Suffix(s, n) == SubSeq(s, Len(s) - n + 1, Len(s))

LEMMA SuffixFacts ==
  ASSUME NEW S, NEW s \in Seq(S), NEW n \in Nat, n <= Len(s)
  PROVE  /\ Suffix(s, n) \in Seq(S) /\ Len(Suffix(s, n)) = n
         /\ \A i \in 1 .. n : Suffix(s, n)[i] = s[Len(s) - n + i]
<1>1. PICK c : c = Len(s) /\ c \in Nat /\ n <= c
  OBVIOUS
<1>2. PICK f \in Int : f = c - n + 1
  <2>1. c - n + 1 \in Int
    BY <1>1
  <2>2. QED
    BY <2>1
<1>3. PICK last : last = SubSeq(s, f, c)
  OBVIOUS
<1>4. \A i \in f .. c : i \in 1 .. Len(s)
  BY <1>1, <1>2
<1>5. \A i \in f .. c : s[i] \in S
  BY <1>4, ElementOfSeq
<1>6. /\ last \in Seq(S) /\ Len(last) = IF f <= c THEN c - f + 1 ELSE 0
      /\ \A i \in 1 .. c - f + 1 : last[i] = s[f + i - 1]
  BY <1>1, <1>3, <1>5, SubSeqProperties
<1>7. c - f + 1 = n /\ (~(f <= c) => n = 0)
  BY <1>1, <1>2
<1>8. Len(last) = n
  BY <1>6, <1>7
<1>9. ASSUME NEW i \in 1 .. n PROVE last[i] = s[c - n + i]
  <2>1. f + i - 1 = c - n + i
    BY <1>1, <1>2
  <2>2. i \in 1 .. c - f + 1
    BY <1>7
  <2>3. QED
    BY <1>6, <2>1, <2>2
<1>10. QED
  BY <1>1, <1>3, <1>6, <1>8, <1>9, <1>2 DEF Suffix

\* What becomes of either list as one sample more is stored.
StoredNext(stored, new) ==
  SubSeq(Append(stored, new), Excess(Len(stored) + 1) + 1, Len(stored) + 1)

ArrivalsNext(arrivals, valid) ==
  LET all == Append(arrivals, valid)
  IN  IF Len(all) < Window THEN all ELSE Tail(all)

\* One sample more, the first ones trimmed.
LEMMA LatestKept ==
  ASSUME NEW stored \in Seq(SampleRecord), NEW arrivals \in Seq(BOOLEAN),
         Latest(stored, arrivals), NEW new \in SampleRecord
  PROVE  /\ ArrivalsNext(arrivals, new.valid) \in Seq(BOOLEAN)
         /\ Latest(StoredNext(stored, new), ArrivalsNext(arrivals, new.valid))
<1>1. PICK c, l, x, valid, after, all, remembered :
        /\ c = Len(stored) /\ l = Len(arrivals) /\ x = Excess(c + 1) /\ valid = new.valid
        /\ after = StoredNext(stored, new) /\ all = Append(arrivals, valid)
        /\ remembered = ArrivalsNext(arrivals, valid)
  OBVIOUS
<1>2. /\ c \in Nat /\ l \in Nat /\ valid \in BOOLEAN /\ Window \in Nat \ {0}
      /\ MaxSamplesPerZone \in Nat
  BY <1>1, SampleAssumption DEF SampleRecord
<1>3. /\ x \in 0 .. c + 1
      /\ MaxSamplesPerZone > 0 => c + 1 - x <= MaxSamplesPerZone
      /\ x > 0 => MaxSamplesPerZone > 0 /\ c + 1 - x = MaxSamplesPerZone
  <2>1. PICK e \in Nat : e = c + 1
    BY <1>2
  <2>2. /\ Excess(e) \in 0 .. e
        /\ MaxSamplesPerZone > 0 => e - Excess(e) <= MaxSamplesPerZone
        /\ Excess(e) > 0 => MaxSamplesPerZone > 0 /\ e - Excess(e) = MaxSamplesPerZone
    BY <2>1, ExcessFacts
  <2>3. QED
    BY <1>1, <2>1, <2>2
<1>4. PICK u : u = Append(stored, new)
  OBVIOUS
<1>5. /\ u \in Seq(SampleRecord) /\ Len(u) = c + 1
      /\ \A i \in 1 .. c : u[i] = stored[i]
      /\ u[c + 1] = new
  BY <1>1, <1>4
<1>6. /\ Len(after) = c + 1 - x
      /\ \A i \in 1 .. c + 1 - x : after[i] = u[i + x]
  <2>1. PICK n \in Nat : /\ n = c + 1 - x /\ n <= Len(u)
                         /\ Len(u) - n + 1 = x + 1 /\ Len(u) - n = x
    BY <1>2, <1>3, <1>5
  <2>2. after = Suffix(u, n)
    BY <1>1, <1>5, <1>4, <2>1 DEF StoredNext, Suffix
  <2>3. /\ Len(Suffix(u, n)) = n
        /\ \A i \in 1 .. n : Suffix(u, n)[i] = u[Len(u) - n + i]
    <3>1. u \in Seq(SampleRecord)
      BY <1>5
    <3>2. n \in Nat /\ n <= Len(u)
      BY <2>1
    <3>3. QED
      BY <3>1, <3>2, SuffixFacts
  <2>4. Len(after) = n /\ \A i \in 1 .. n : after[i] = u[Len(u) - n + i]
    BY <2>2, <2>3
  <2>5. \A i \in 1 .. n : Len(u) - n + i = i + x
    BY <1>2, <1>3, <2>1
  <2>6. QED
    BY <2>1, <2>4, <2>5
<1>7. /\ all \in Seq(BOOLEAN) /\ Len(all) = l + 1
      /\ \A i \in 1 .. l : all[i] = arrivals[i]
      /\ all[l + 1] = valid
  BY <1>1, <1>2
<1>8. PICK d \in {0, 1} :
        /\ d = IF l + 1 < Window THEN 0 ELSE 1
        /\ remembered \in Seq(BOOLEAN) /\ Len(remembered) = l + 1 - d
        /\ \A i \in 1 .. l + 1 - d : remembered[i] = all[i + d]
  <2>1. CASE l + 1 < Window
    <3>1. remembered = all
      BY <1>1, <1>7, <2>1 DEF ArrivalsNext
    <3>2. QED
      BY <1>2, <1>7, <2>1, <3>1
  <2>2. CASE ~(l + 1 < Window)
    <3>1. remembered = Tail(all) /\ all # <<>>
      BY <1>1, <1>2, <1>7, <2>2 DEF ArrivalsNext
    <3>2. /\ Tail(all) \in Seq(BOOLEAN) /\ Len(Tail(all)) = l
          /\ \A i \in 1 .. l : Tail(all)[i] = all[i + 1]
      BY <1>2, <1>7, <3>1
    <3>3. QED
      BY <1>2, <2>2, <3>1, <3>2
  <2>3. QED
    BY <2>1, <2>2
<1>9. /\ l < Window
      /\ l < Window - 1 => c <= l
      /\ RoomForWindow => l <= c
  BY <1>1 DEF Latest
<1>10. ASSUME NEW k \in Nat, k < c + 1 - x, k < l + 1 - d
       PROVE  after[c + 1 - x - k].valid = remembered[l + 1 - d - k]
  <2>1. after[c + 1 - x - k] = u[c + 1 - k] /\ c + 1 - k \in 1 .. c + 1
    <3>1. c + 1 - x - k \in 1 .. c + 1 - x /\ c + 1 - x - k + x = c + 1 - k
      BY <1>2, <1>3, <1>10
    <3>2. QED
      BY <1>2, <1>3, <1>6, <1>10, <3>1
  <2>2. remembered[l + 1 - d - k] = all[l + 1 - k] /\ l + 1 - k \in 1 .. l + 1
    <3>1. PICK j : j = l + 1 - d - k
      OBVIOUS
    <3>2. j \in 1 .. l + 1 - d /\ j + d = l + 1 - k /\ l + 1 - k \in 1 .. l + 1
      BY <1>2, <1>10, <3>1
    <3>3. remembered[j] = all[j + d]
      BY <1>8, <3>2
    <3>4. QED
      BY <3>1, <3>2, <3>3
  <2>3. CASE k = 0
    <3>1. /\ after[c + 1 - x - k] = u[c + 1] /\ remembered[l + 1 - d - k] = all[l + 1]
      BY <1>2, <2>1, <2>2, <2>3
    <3>2. QED
      BY <1>1, <1>5, <1>7, <3>1
  <2>4. CASE k # 0
    <3>1. /\ k - 1 \in Nat /\ k - 1 < c /\ k - 1 < l
          /\ c - (k - 1) = c + 1 - k /\ l - (k - 1) = l + 1 - k
          /\ c + 1 - k \in 1 .. c /\ l + 1 - k \in 1 .. l
      BY <1>2, <1>3, <1>8, <1>10, <2>4
    <3>2. stored[c - (k - 1)].valid = arrivals[l - (k - 1)]
      BY <1>1, <3>1 DEF Latest
    <3>3. u[c + 1 - k] = stored[c + 1 - k] /\ all[l + 1 - k] = arrivals[l + 1 - k]
      BY <1>5, <1>7, <3>1
    <3>4. QED
      BY <2>1, <2>2, <3>1, <3>2, <3>3
  <2>5. QED
    BY <2>3, <2>4
<1>11. /\ l + 1 - d < Window
       /\ l + 1 - d < Window - 1 => c + 1 - x <= l + 1 - d
       /\ RoomForWindow => l + 1 - d <= c + 1 - x
  <2>1. l + 1 - d < Window
    BY <1>2, <1>8, <1>9
  <2>2. l + 1 - d < Window - 1 => c + 1 - x <= l + 1 - d
    BY <1>2, <1>3, <1>8, <1>9
  <2>3. ASSUME RoomForWindow PROVE l + 1 - d <= c + 1 - x
    <3>1. CASE x = 0
      BY <1>2, <1>8, <1>9, <2>3, <3>1
    <3>2. CASE x # 0
      BY <1>2, <1>3, <2>1, <2>3, <3>2 DEF RoomForWindow
    <3>3. QED
      BY <3>1, <3>2
  <2>4. QED
    BY <2>1, <2>2, <2>3
<1>12. QED
  <2>1. Len(after) = c + 1 - x /\ Len(remembered) = l + 1 - d
    BY <1>6, <1>8
  <2>2. \A k \in Nat : k < Len(after) /\ k < Len(remembered) =>
          after[Len(after) - k].valid = remembered[Len(remembered) - k]
    <3>1. SUFFICES ASSUME NEW k \in Nat, k < Len(after), k < Len(remembered)
                   PROVE  after[Len(after) - k].valid = remembered[Len(remembered) - k]
      OBVIOUS
    <3>2. k < c + 1 - x /\ k < l + 1 - d
      BY <2>1, <3>1
    <3>3. after[c + 1 - x - k].valid = remembered[l + 1 - d - k]
      BY <1>10, <3>2
    <3>4. Len(after) - k = c + 1 - x - k /\ Len(remembered) - k = l + 1 - d - k
      BY <1>2, <1>3, <2>1
    <3>5. QED
      BY <3>3, <3>4, Zenon
  <2>3. /\ Len(remembered) < Window
        /\ Len(remembered) < Window - 1 => Len(after) <= Len(remembered)
        /\ RoomForWindow => Len(remembered) <= Len(after)
        /\ MaxSamplesPerZone > 0 => Len(after) <= MaxSamplesPerZone
    BY <1>3, <1>11, <2>1
  <2>4. Latest(after, remembered)
    BY <2>2, <2>3 DEF Latest
  <2>5. QED
    BY <1>1, <1>8, <2>4

\* What the invariant says of the history as the property states it.
LEMMA LatestFacts ==
  ASSUME NEW stored \in Seq(SampleRecord), NEW arrivals \in Seq(BOOLEAN),
         Latest(stored, arrivals),
         NEW valid, valid = [k \in DOMAIN stored |-> stored[k].valid]
  PROVE  LET n == MinInt(Len(arrivals), Len(valid))
         IN  /\ SubSeq(valid, Len(valid) - n + 1, Len(valid))
                  = SubSeq(arrivals, Len(arrivals) - n + 1, Len(arrivals))
             /\ RoomForWindow => n = Len(arrivals)
             /\ MaxSamplesPerZone > 0 => Len(valid) <= MaxSamplesPerZone
<1>1. PICK c, l, n, v : /\ c = Len(stored) /\ l = Len(arrivals) /\ n = MinInt(l, c)
                        /\ v = valid
  OBVIOUS
<1>2. c \in Nat /\ l \in Nat
  BY <1>1
<1>3. n \in Nat /\ n <= c /\ n <= l /\ (l <= c => n = l)
  BY <1>1, <1>2 DEF MinInt
<1>4. v = [k \in 1 .. c |-> stored[k].valid]
  BY <1>1
<1>5. v \in Seq(BOOLEAN) /\ Len(v) = c /\ \A k \in 1 .. c : v[k] = stored[k].valid
  <2>1. \A k \in 1 .. c : stored[k] \in SampleRecord
    BY <1>1, ElementOfSeq
  <2>2. \A k \in 1 .. c : stored[k].valid \in BOOLEAN
    BY <2>1 DEF SampleRecord
  <2>3. \A k \in 1 .. c : v[k] = stored[k].valid
    BY <1>4, Zenon
  <2>4. v \in [1 .. c -> BOOLEAN]
    BY <1>4, <2>2, Zenon
  <2>5. v \in Seq(BOOLEAN) /\ Len(v) = c
    BY <1>2, <2>4
  <2>6. QED
    BY <2>3, <2>5
<1> DEFINE a == Suffix(v, n)
           b == Suffix(arrivals, n)
<1>6. /\ a \in Seq(BOOLEAN) /\ Len(a) = n /\ \A i \in 1 .. n : a[i] = v[c - n + i]
      /\ b \in Seq(BOOLEAN) /\ Len(b) = n /\ \A i \in 1 .. n : b[i] = arrivals[l - n + i]
  <2>1. /\ a \in Seq(BOOLEAN) /\ Len(a) = n /\ \A i \in 1 .. n : a[i] = v[c - n + i]
    <3>1. n <= Len(v)
      BY <1>3, <1>5
    <3>2. QED
      BY <1>3, <1>5, <3>1, SuffixFacts
  <2>2. /\ b \in Seq(BOOLEAN) /\ Len(b) = n /\ \A i \in 1 .. n : b[i] = arrivals[l - n + i]
    <3>1. n <= Len(arrivals) /\ l = Len(arrivals)
      BY <1>1, <1>3
    <3>2. QED
      BY <1>3, <3>1, SuffixFacts
  <2>3. QED
    BY <2>1, <2>2
<1>7. ASSUME NEW i \in 1 .. n PROVE a[i] = b[i]
  <2>1. /\ n - i \in Nat /\ n - i < c /\ n - i < l
        /\ c - (n - i) = c - n + i /\ l - (n - i) = l - n + i /\ c - n + i \in 1 .. c
    BY <1>2, <1>3
  <2>2. stored[c - (n - i)].valid = arrivals[l - (n - i)]
    BY <1>1, <2>1 DEF Latest
  <2>3. QED
    BY <1>5, <1>6, <2>1, <2>2
<1> HIDE DEF a, b
<1>8. a = b
  BY <1>6, <1>7, SeqEqual
<1>9. /\ RoomForWindow => n = l
      /\ MaxSamplesPerZone > 0 => c <= MaxSamplesPerZone
  BY <1>1, <1>2, <1>3 DEF Latest
<1>10. QED
  BY <1>1, <1>5, <1>8, <1>9 DEF a, b, Suffix

-----------------------------------------------------------------------------
(* The sample of a request has the fields it should have. *)

\* What a reading that passed the handler has as its ratio.
LEMMA RatioFacts ==
  ASSUME NEW count \in Counts, NEW m \in Monitors
  PROVE  RatioAgainst(EffectiveLimits(IsoClassOf[m], ProcessOf[m], OverridesOf[m]), count) \in Nat
<1> DEFINE limits == EffectiveLimits(IsoClassOf[m], ProcessOf[m], OverridesOf[m])
           base == ISO14644Limits[IsoClassOf[m]]
           multiplier == ProcessDefaultsFor(ProcessOf[m]).multiplier
           own == OverridesOf[m].limits
<1>1. multiplier \in {80, 100, 120}
  <2>1. ProcessDefaultsFor(ProcessOf[m]) \in {ProcessThresholds[p] : p \in DOMAIN ProcessThresholds}
    BY DEF ProcessDefaultsFor, ProcessThresholds
  <2>2. /\ ProcessThresholds["lithography"].multiplier = 80
        /\ ProcessThresholds["etching"].multiplier = 100
        /\ ProcessThresholds["diffusion"].multiplier = 120
        /\ DOMAIN ProcessThresholds = {"lithography", "etching", "diffusion"}
    BY DEF ProcessThresholds, Profile
  <2>3. QED
    BY <2>1, <2>2
<1>2. base.c03 \in Int /\ base.c05 \in Int
  BY LimitFacts, SampleAssumption
<1>3. own.c03 \in Int /\ own.c05 \in Int
  BY SampleAssumption DEF Counts
<1>4. /\ limits.c03 = IF own.c03 > 0 THEN own.c03 ELSE (base.c03 * multiplier) \div 100
      /\ limits.c05 = IF own.c05 > 0 THEN own.c05 ELSE (base.c05 * multiplier) \div 100
  BY DEF EffectiveLimits, Count
<1> HIDE DEF limits, base, multiplier, own
<1>5. ASSUME NEW limit \in Int PROVE (limit * multiplier) \div 100 \in Int
  BY <1>1
<1>6. limits.c03 \in Int /\ limits.c05 \in Int
  BY <1>2, <1>3, <1>4, <1>5
<1>7. ASSUME NEW c \in Nat, NEW limit \in Int PROVE PartOf(c, limit) \in Nat
  <2>1. CASE limit > 0
    <3>1. c * 100 \in Nat
      OBVIOUS
    <3>2. ASSUME NEW n \in Nat PROVE n \div limit \in Nat
      BY <2>1
    <3>3. QED
      BY <2>1, <3>1, <3>2 DEF PartOf, One
  <2>2. CASE ~(limit > 0)
    BY <2>2 DEF PartOf
  <2>3. QED
    BY <2>1, <2>2
<1>8. count.c03 \in Nat /\ count.c05 \in Nat
  BY DEF Counts
<1>9. PartOf(count.c03, limits.c03) \in Nat /\ PartOf(count.c05, limits.c05) \in Nat
  BY <1>6, <1>7, <1>8
<1>10. RatioAgainst(limits, count) \in Nat
  BY <1>9 DEF RatioAgainst
<1>11. QED
  BY <1>10 DEF limits

\* The sample of a request and what it has reached.
RequestsTyped ==
  /\ pc \in [Monitors -> {"idle", "judged", "alerted", "weighed"}]
  /\ sample \in [Monitors -> EnvSample]
  /\ inMaintenance \in [Monitors -> BOOLEAN]

LEMMA SampleFacts ==
  /\ NoSample \in EnvSample
  /\ \A at \in Nat, count \in Counts, env \in Envs : NewSample(at, count, env) \in EnvSample
<1>1. \A at \in Nat, count \in Counts, env \in Envs : NewSample(at, count, env) \in EnvSample
  BY DEF NewSample, EnvSample
<1>2. /\ 0 \in Nat /\ Count(0, 0) \in Counts
      /\ [temperature |-> 0, humidity |-> 0, pressure |-> 0] \in Envs
  BY DEF Counts, Count, Envs, Temperatures, Humidities, Pressures
<1>3. QED
  BY <1>1, <1>2 DEF NoSample

\* What the handler lets through is in range.
LEMMA PayloadFacts ==
  ASSUME NEW count \in [c03 : Int, c05 : Int],
         NEW env \in [temperature : Int, humidity : Int, pressure : Int],
         ValidateSamplePayload(count, env)
  PROVE  count \in Counts /\ env \in Envs
<1>1. PICK c03 \in Int, c05 \in Int : count = [c03 |-> c03, c05 |-> c05]
  OBVIOUS
<1>2. PICK t \in Int, h \in Int, p \in Int :
        env = [temperature |-> t, humidity |-> h, pressure |-> p]
  OBVIOUS
<1>3. c03 >= 0 /\ c05 >= 0
  BY <1>1 DEF ValidateSamplePayload
<1>4. t \in Temperatures /\ h \in Humidities /\ p \in Pressures
  BY <1>2 DEF ValidateSamplePayload
<1>5. count \in Counts
  BY <1>1, <1>3 DEF Counts
<1>6. env \in Envs
  BY <1>2, <1>4 DEF Envs
<1>7. QED
  BY <1>5, <1>6

\* Process, up to the classification.
LEMMA JudgeTyped ==
  ASSUME RequestsTyped, NEW r \in Readings, PostSample(r)
  PROVE  RequestsTyped'
<1> DEFINE m == r.monitor
           read == NewSample(r.at, r.count, r.env)
           ratio == RatioAgainst(EffectiveLimits(IsoClassOf[m], ProcessOf[m], OverridesOf[m]),
                                 r.count)
           good == [read EXCEPT !.iso = ClassifyISO(r.count),
                                !.overTable = OverTable(r.count), !.ratio = ratio]
           bad  == [read EXCEPT !.valid = FALSE]
<1>1. m \in Monitors /\ r.at \in Nat
  BY SampleAssumption
<1>2. r.count \in Counts /\ r.env \in Envs
  <2>1. PICK count, env : count = r.count /\ env = r.env
    OBVIOUS
  <2>2. /\ count \in [c03 : Int, c05 : Int]
        /\ env \in [temperature : Int, humidity : Int, pressure : Int]
    BY <2>1, SampleAssumption
  <2>3. ValidateSamplePayload(count, env)
    BY <2>1 DEF PostSample
  <2>4. QED
    BY <2>1, <2>2, <2>3, PayloadFacts
<1>3. read \in EnvSample
  BY <1>1, <1>2, SampleFacts, Zenon
<1>4. ClassifyISO(r.count) \in IsoClasses
  <2>1. r.count \in IntCounts /\ r.count.c03 \in Int /\ r.count.c05 \in Int
    BY <1>2 DEF Counts, IntCounts
  <2>2. ClassifyISO(r.count) \in {5, 6, 7, 8}
    BY <2>1, ClassFacts
  <2>3. QED
    BY <2>2, LimitFacts
<1>5. OverTable(r.count) \in BOOLEAN
  BY DEF OverTable, Within
<1>6. ratio \in Nat
  BY <1>1, <1>2, RatioFacts
<1> HIDE DEF read, ratio
<1>7. good \in EnvSample /\ bad \in EnvSample
  BY <1>3, <1>4, <1>5, <1>6 DEF EnvSample
<1>8. /\ pc' = [pc EXCEPT ![m] = "judged"]
      /\ sample' = [sample EXCEPT ![m] = good] \/ sample' = [sample EXCEPT ![m] = bad]
      /\ inMaintenance' = inMaintenance
  BY DEF PostSample, IngestJudge, read, ratio
<1> HIDE DEF good, bad
<1>9. QED
  BY <1>1, <1>7, <1>8 DEF RequestsTyped

LEMMA RequestStep ==
  ASSUME RequestsTyped, [Next]_vars
  PROVE  RequestsTyped'
<1>1. ASSUME NEW r \in Readings, PostSample(r) PROVE RequestsTyped'
  BY <1>1, JudgeTyped
<1>2. ASSUME NEW m \in Monitors, IngestAbort(m) \/ IngestAppend(m) PROVE RequestsTyped'
  BY <1>2, SampleFacts DEF IngestAbort, IngestAppend, RequestsTyped
<1>3. ASSUME NEW m \in Monitors, IngestAlerts(m) \/ IngestWeigh(m) PROVE RequestsTyped'
  BY <1>3 DEF IngestAlerts, IngestWeigh, RequestsTyped
<1>4. ASSUME NEW m \in Monitors, NEW t \in AlertTypes, Ack(m, t) PROVE RequestsTyped'
  BY <1>4 DEF Ack, RequestsTyped
<1>5. ASSUME NEW m \in Monitors, NEW b \in BOOLEAN, SetMaintenance(m, b) PROVE RequestsTyped'
  BY <1>5 DEF SetMaintenance, RequestsTyped
<1>6. CASE UNCHANGED vars
  BY <1>6 DEF vars, RequestsTyped
<1>7. QED
  BY <1>1, <1>2, <1>3, <1>4, <1>5, <1>6 DEF Next

-----------------------------------------------------------------------------
(* What is stored and what has arrived. *)

WindowInv ==
  /\ RequestsTyped
  /\ samples \in Seq(SampleRecord)
  /\ arrived \in [Monitors -> Seq(BOOLEAN)]
  /\ \A m \in Monitors : Latest(Stored(m), arrived[m])

LEMMA StoredType ==
  ASSUME samples \in Seq(SampleRecord), NEW m
  PROVE  Stored(m) \in Seq(SampleRecord)
<1>1. OfMonitor(samples, m) \in SUBSET DOMAIN samples
  BY DEF OfMonitor
<1>2. QED
  BY <1>1, SubsequenceFacts DEF Stored

LEMMA WindowInit == ASSUME Init PROVE WindowInv
<1>1. RequestsTyped
  BY SampleFacts DEF Init, RequestsTyped
<1>2. /\ samples \in Seq(SampleRecord) /\ samples = <<>>
      /\ arrived \in [Monitors -> Seq(BOOLEAN)]
      /\ \A m \in Monitors : arrived[m] = <<>>
  BY DEF Init
<1>3. ASSUME NEW m \in Monitors PROVE Latest(Stored(m), arrived[m])
  <2>1. OfMonitor(samples, m) = {}
    BY <1>2 DEF OfMonitor
  <2>2. Len(Stored(m)) = 0
    <3>1. {} \in SUBSET DOMAIN samples /\ Cardinality({}) = 0
      BY FS_EmptySet
    <3>2. Len(Subsequence(samples, {})) = 0
      BY <1>2, <3>1, SubsequenceFacts
    <3>3. QED
      BY <2>1, <3>2 DEF Stored
  <2>3. Len(arrived[m]) = 0
    BY <1>2
  <2>4. QED
    BY <2>2, <2>3, SampleAssumption DEF Latest
<1>4. QED
  BY <1>1, <1>2, <1>3 DEF WindowInv

\* Append, with its trim, leaves what other monitor zones have stored alone.
LEMMA AppendOthers ==
  ASSUME WindowInv, NEW m \in Monitors, IngestAppend(m)
  PROVE  \A u \in Monitors \ {m} : Stored(u)' = Stored(u)
<1>1. PICK new : new = [monitor |-> m, at |-> sample[m].at, valid |-> sample[m].valid]
  OBVIOUS
<1>2. samples \in Seq(SampleRecord) /\ sample[m] \in EnvSample
  BY DEF WindowInv, RequestsTyped
<1>3. new \in SampleRecord /\ new.monitor = m
  BY <1>1, <1>2 DEF SampleRecord, EnvSample
<1>4. samples' = Trimmed(Append(samples, new), m)
  BY <1>1 DEF IngestAppend
<1>5. QED
  BY <1>2, <1>3, <1>4, StoredAppended

\* Append, with its trim.
LEMMA AppendStep ==
  ASSUME WindowInv, RequestsTyped', NEW m \in Monitors, IngestAppend(m)
  PROVE  WindowInv'
<1>1. PICK new : new = [monitor |-> m, at |-> sample[m].at, valid |-> sample[m].valid]
  OBVIOUS
<1>2. /\ samples \in Seq(SampleRecord) /\ arrived \in [Monitors -> Seq(BOOLEAN)]
      /\ sample[m] \in EnvSample
      /\ \A u \in Monitors : Latest(Stored(u), arrived[u])
  BY DEF WindowInv, RequestsTyped
<1>3. new \in SampleRecord /\ new.monitor = m /\ new.valid = sample[m].valid
  BY <1>1, <1>2 DEF SampleRecord, EnvSample
<1>4. samples' = Trimmed(Append(samples, new), m)
  BY <1>1 DEF IngestAppend
<1>5. /\ samples' \in Seq(SampleRecord)
      /\ \A u \in Monitors \ {m} : Stored(u)' = Stored(u)
      /\ Stored(m)' = StoredNext(Stored(m), new)
  BY <1>2, <1>3, <1>4, StoredAppended DEF StoredNext
<1>6. arrived' = [arrived EXCEPT ![m] = ArrivalsNext(arrived[m], new.valid)]
  BY <1>3 DEF IngestAppend, ArrivalsNext
<1>7. /\ ArrivalsNext(arrived[m], new.valid) \in Seq(BOOLEAN)
      /\ Latest(StoredNext(Stored(m), new), ArrivalsNext(arrived[m], new.valid))
  <2>1. /\ Stored(m) \in Seq(SampleRecord) /\ arrived[m] \in Seq(BOOLEAN)
        /\ Latest(Stored(m), arrived[m])
    BY <1>2, StoredType
  <2>2. QED
    BY <1>3, <2>1, LatestKept
<1>8. arrived' \in [Monitors -> Seq(BOOLEAN)]
  BY <1>2, <1>6, <1>7
<1>9. ASSUME NEW u \in Monitors PROVE Latest(Stored(u), arrived[u])'
  <2>1. Latest(Stored(u)', arrived'[u])
    <3>1. CASE u = m
      <4>1. arrived'[m] = ArrivalsNext(arrived[m], new.valid)
        BY <1>2, <1>6
      <4>2. QED
        BY <1>5, <1>7, <3>1, <4>1
    <3>2. CASE u # m
      <4>1. arrived'[u] = arrived[u] /\ Stored(u)' = Stored(u)
        BY <1>2, <1>5, <1>6, <3>2
      <4>2. QED
        BY <1>2, <4>1
    <3>3. QED
      BY <3>1, <3>2
  <2>2. QED
    BY <2>1 DEF Latest
<1>10. QED
  BY <1>5, <1>8, <1>9 DEF WindowInv

LEMMA WindowStep ==
  ASSUME WindowInv, [Next]_vars
  PROVE  WindowInv'
<1>1. RequestsTyped'
  BY RequestStep DEF WindowInv
<1>2. ASSUME NEW m \in Monitors, IngestAppend(m) PROVE WindowInv'
  BY <1>1, <1>2, AppendStep
<1>3. CASE UNCHANGED <<samples, arrived>>
  <2>1. \A m \in Monitors : Stored(m)' = Stored(m)
    BY <1>3 DEF Stored, OfMonitor
  <2>2. \A m \in Monitors : Latest(Stored(m), arrived[m])'
    BY <1>3, <2>1 DEF WindowInv, Latest
  <2>3. QED
    BY <1>1, <1>3, <2>2 DEF WindowInv
<1>4. (\E m \in Monitors : IngestAppend(m)) \/ UNCHANGED <<samples, arrived>>
  BY DEF Next, PostSample, IngestJudge, IngestAbort, IngestAlerts, IngestWeigh, Ack,
         SetMaintenance, vars
<1>5. QED
  BY <1>2, <1>3, <1>4

\* The state of the model: every sample that is judged has a class, a ratio
\* and an environment of the expected kinds, for every reading that passes
\* the handler (Process and Append).
THEOREM SamplesTyped == Spec => []TypeOK
<1>1. WindowInv /\ Inv => TypeOK
  BY DEF WindowInv, RequestsTyped, Inv, AlertsTyped, Statuses, TypeOK
<1>2. QED
  BY <1>1, WindowInit, WindowStep, AlertInvInit, AlertInvStep, PTL DEF Spec

\* The history of a monitor zone is bounded and never has a gap, whatever the
\* other monitor zones store and trim from the same list
\* (store/sample_store.go, Append and trimLocked).
THEOREM StoredAreLatest == Spec => []LatestArrivalsStored
<1>1. ASSUME WindowInv PROVE LatestArrivalsStored
  <2>1. SUFFICES ASSUME NEW m \in Monitors
                 PROVE  LET stored == StoredValidity(m)
                            n      == MinInt(Len(arrived[m]), Len(stored))
                        IN  /\ SubSeq(stored, Len(stored) - n + 1, Len(stored))
                                 = SubSeq(arrived[m], Len(arrived[m]) - n + 1, Len(arrived[m]))
                            /\ RoomForWindow => n = Len(arrived[m])
                            /\ MaxSamplesPerZone > 0 => Len(stored) <= MaxSamplesPerZone
    BY DEF LatestArrivalsStored
  <2>2. /\ Stored(m) \in Seq(SampleRecord) /\ arrived[m] \in Seq(BOOLEAN)
        /\ Latest(Stored(m), arrived[m])
    BY <1>1, StoredType DEF WindowInv
  <2>3. StoredValidity(m) = [k \in DOMAIN Stored(m) |-> Stored(m)[k].valid]
    BY DEF StoredValidity
  <2>4. QED
    BY <2>2, <2>3, LatestFacts
<1>2. QED
  BY <1>1, WindowInit, WindowStep, PTL DEF Spec

-----------------------------------------------------------------------------
(* The window of the data-credibility rule. *)

\* What comes after a position is what it does not count.
LEMMA RankAfter ==
  ASSUME NEW n \in Nat, NEW K \in SUBSET (1 .. n), NEW i \in K
  PROVE  Cardinality({j \in K : j > i}) = Cardinality(K) - Rank(K, i)
<1> DEFINE upTo == {j \in K : j <= i}
           after == {j \in K : j > i}
<1>1. IsFiniteSet(K) /\ Cardinality(K) \in Nat
  BY RankFacts
<1>2. \A j \in K : j \in Nat
  OBVIOUS
<1>3. upTo \in SUBSET K /\ after \in SUBSET K
  OBVIOUS
<1>4. upTo \cup after = K /\ upTo \cap after = {}
  <2>1. i \in Nat
    BY <1>2
  <2>2. \A j \in K : (j <= i \/ j > i) /\ ~(j <= i /\ j > i)
    BY <1>2, <2>1
  <2>3. \A j : /\ j \in upTo <=> j \in K /\ j <= i
               /\ j \in after <=> j \in K /\ j > i
    OBVIOUS
  <2> HIDE DEF upTo, after
  <2>4. QED
    BY <2>2, <2>3
<1>5. Cardinality(upTo) = Rank(K, i)
  BY DEF Rank
<1> HIDE DEF upTo, after
<1>6. /\ IsFiniteSet(upTo) /\ IsFiniteSet(after)
      /\ Cardinality(upTo) \in Nat /\ Cardinality(after) \in Nat
  BY <1>1, <1>3, FS_Subset, FS_CardinalityType
<1>7. Cardinality(K) = Cardinality(upTo) + Cardinality(after) - Cardinality({})
  BY <1>4, <1>6, FS_Union
<1>8. Cardinality({}) = 0
  BY FS_EmptySet
<1>9. Cardinality(after) = Cardinality(K) - Rank(K, i)
  BY <1>1, <1>5, <1>6, <1>7, <1>8
<1>10. QED
  BY <1>9 DEF after

\* The last l positions of K, of c.
LastOf(K, c, l) == {i \in K : Rank(K, i) > c - l}

\* Those of them that are in B have the numbers P.
Numbered(n, K, c, l, P, B) ==
  /\ n \in Nat /\ K \in SUBSET (1 .. n)
  /\ Cardinality(K) = c /\ l \in Nat /\ l <= c
  /\ P \in SUBSET (1 .. l) /\ B \in SUBSET LastOf(K, c, l)
  /\ \A k \in 1 .. l : Nth(K, c - l + k) \in B <=> k \in P

\* They are as many as their numbers.
LEMMA LastCounted ==
  ASSUME NEW n, NEW K, NEW c, NEW l, NEW P, NEW B, Numbered(n, K, c, l, P, B)
  PROVE  Cardinality(B) = Cardinality(P)
<1> /\ n \in Nat /\ K \in SUBSET (1 .. n)
    /\ Cardinality(K) = c /\ l \in Nat /\ l <= c
    /\ P \in SUBSET (1 .. l) /\ B \in SUBSET LastOf(K, c, l)
    /\ \A k \in 1 .. l : Nth(K, c - l + k) \in B <=> k \in P
  BY DEF Numbered
<1> DEFINE f == [k \in P |-> Nth(K, c - l + k)]
<1>1. /\ c \in Nat
      /\ \A k \in 1 .. c : Nth(K, k) \in K /\ Rank(K, Nth(K, k)) = k
      /\ \A i \in K : Rank(K, i) \in 1 .. c /\ Nth(K, Rank(K, i)) = i
  BY RankFacts, NthFacts
<1>2. \A k \in 1 .. l : c - l + k \in 1 .. c
  BY <1>1
<1>3. f \in [P -> B]
  OBVIOUS
<1>4. ASSUME NEW k \in P, NEW j \in P, f[k] = f[j] PROVE k = j
  <2>1. PICK x \in 1 .. c, y \in 1 .. c : x = c - l + k /\ y = c - l + j
    BY <1>2
  <2>2. Nth(K, x) = Nth(K, y)
    BY <1>4, <2>1
  <2>3. x = y
    BY <1>1, <2>2
  <2>4. k \in Int /\ j \in Int
    OBVIOUS
  <2>5. QED
    BY <1>1, <2>1, <2>3, <2>4
<1>5. ASSUME NEW i \in B PROVE \E k \in P : f[k] = i
  <2>1. /\ i \in K /\ Rank(K, i) > c - l /\ Rank(K, i) \in 1 .. c
        /\ Nth(K, Rank(K, i)) = i
    BY <1>1 DEF LastOf
  <2>2. PICK k \in 1 .. l : c - l + k = Rank(K, i)
    <3>1. /\ Rank(K, i) - (c - l) \in 1 .. l
          /\ c - l + (Rank(K, i) - (c - l)) = Rank(K, i)
      BY <1>1, <2>1
    <3>2. QED
      BY <3>1
  <2>3. Nth(K, c - l + k) = i
    BY <2>1, <2>2
  <2>4. k \in P
    BY <2>3
  <2>5. QED
    BY <2>3, <2>4
<1> HIDE DEF f
<1>6. f \in Bijection(P, B)
  BY <1>3, <1>4, <1>5 DEF Bijection, Injection, IsInjective, Surjection
<1>7. IsFiniteSet(P)
  <2>1. IsFiniteSet(1 .. l)
    BY FS_Interval
  <2>2. QED
    BY <2>1, FS_Subset
<1>8. QED
  BY <1>6, <1>7, FS_Bijection DEF ExistsBijection

\* The stored samples s of one monitor zone came in the order of their timestamps.
AscendingAt(s) == \A k, l \in DOMAIN s : k < l => s[k].at < s[l].at

LEMMA OrderFacts ==
  ASSUME NEW s \in Seq(SampleRecord), NEW K \in SUBSET DOMAIN s
  PROVE  (\A i, j \in K : i < j => s[i].at < s[j].at) <=> AscendingAt(Subsequence(s, K))
<1>1. PICK c, t : c = Cardinality(K) /\ t = Subsequence(s, K)
  OBVIOUS
<1>2. /\ DOMAIN t = 1 .. c /\ c \in Nat
      /\ \A k \in 1 .. c : Nth(K, k) \in K /\ t[k] = s[Nth(K, k)]
  BY <1>1, SubsequenceFacts
<1>3. Len(s) \in Nat /\ K \in SUBSET (1 .. Len(s))
  OBVIOUS
<1>4. /\ \A k, l \in 1 .. c : k < l => Nth(K, k) < Nth(K, l)
      /\ \A i \in K : Rank(K, i) \in 1 .. c /\ Nth(K, Rank(K, i)) = i
      /\ \A i, j \in K : i < j => Rank(K, i) < Rank(K, j)
  BY <1>1, <1>3, RankFacts, NthFacts
<1>5. ASSUME \A i, j \in K : i < j => s[i].at < s[j].at PROVE AscendingAt(t)
  <2>1. ASSUME NEW k \in 1 .. c, NEW l \in 1 .. c, k < l PROVE t[k].at < t[l].at
    BY <1>2, <1>4, <1>5, <2>1
  <2>2. QED
    BY <1>2, <2>1 DEF AscendingAt
<1>6. ASSUME AscendingAt(t), NEW i \in K, NEW j \in K, i < j PROVE s[i].at < s[j].at
  <2>1. PICK k \in 1 .. c, l \in 1 .. c : Nth(K, k) = i /\ Nth(K, l) = j /\ k < l
    BY <1>4, <1>6
  <2>2. t[k].at < t[l].at
    BY <1>2, <1>6, <2>1 DEF AscendingAt
  <2>3. QED
    BY <1>2, <2>1, <2>2
<1>7. QED
  BY <1>1, <1>5, <1>6

LEMMA InOrderFacts ==
  ASSUME samples \in Seq(SampleRecord), NEW m
  PROVE  InOrder(m) <=> AscendingAt(Stored(m))
<1>1. OfMonitor(samples, m) \in SUBSET DOMAIN samples
  BY DEF OfMonitor
<1>2. QED
  BY <1>1, OrderFacts DEF InOrder, Stored

\* The readings that are judged, and how many of them are invalid.
InvalidOf(readings) == {i \in DOMAIN readings : ~readings[i]}

LEMMA InvalidAppended ==
  ASSUME NEW a \in Seq(BOOLEAN), NEW valid \in BOOLEAN
  PROVE  /\ Len(Append(a, valid)) = Len(a) + 1
         /\ Cardinality(InvalidOf(Append(a, valid)))
              = Cardinality(InvalidOf(a)) + IF valid THEN 0 ELSE 1
         /\ Cardinality(InvalidOf(a)) \in Nat
<1>1. PICK l, all, before, new :
        /\ l = Len(a) /\ all = Append(a, valid)
        /\ before = InvalidOf(a) /\ new = InvalidOf(all)
  OBVIOUS
<1>2. /\ l \in Nat /\ DOMAIN a = 1 .. l /\ DOMAIN all = 1 .. l + 1 /\ Len(all) = l + 1
      /\ \A i \in 1 .. l : all[i] = a[i]
      /\ all[l + 1] = valid
  BY <1>1
<1>3. IsFiniteSet(before) /\ Cardinality(before) \in Nat /\ l + 1 \notin before
  <2>1. before \in SUBSET (1 .. l) /\ IsFiniteSet(1 .. l) /\ l + 1 \notin 1 .. l
    <3>1. before \in SUBSET (1 .. l)
      BY <1>1, <1>2 DEF InvalidOf
    <3>2. IsFiniteSet(1 .. l)
      BY <1>2, FS_Interval
    <3>3. l + 1 \notin 1 .. l
      BY <1>2
    <3>4. QED
      BY <3>1, <3>2, <3>3
  <2>2. QED
    BY <2>1, FS_Subset, FS_CardinalityType
<1>4. \A i : i \in 1 .. l + 1 <=> i \in 1 .. l \/ i = l + 1
  BY <1>2
<1>5. /\ before = {i \in 1 .. l : ~a[i]}
      /\ new = {i \in 1 .. l + 1 : ~all[i]}
  BY <1>1, <1>2 DEF InvalidOf
<1>6. CASE valid
  <2>1. new = before
    <3>1. ~(l + 1 \in new)
      BY <1>2, <1>6, <1>5
    <3>2. \A i \in 1 .. l : i \in new <=> i \in before
      BY <1>2, <1>4, <1>5
    <3>3. \A i : (i \in new => i \in 1 .. l + 1) /\ (i \in before => i \in 1 .. l)
      BY <1>5
    <3>4. QED
      BY <1>4, <3>1, <3>2, <3>3
  <2>2. PICK more : more = IF valid THEN 0 ELSE 1
    OBVIOUS
  <2>3. more = 0
    BY <1>6, <2>2, Zenon
  <2>4. Cardinality(new) = Cardinality(before) + more
    BY <1>3, <2>1, <2>3
  <2>5. QED
    BY <1>1, <1>2, <1>3, <2>2, <2>4, Zenon
<1>7. CASE ~valid
  <2>1. new = before \cup {l + 1}
    <3>1. l + 1 \in new
      BY <1>2, <1>4, <1>7, <1>5
    <3>2. \A i \in 1 .. l : i \in new <=> i \in before
      BY <1>2, <1>4, <1>5
    <3>3. \A i : (i \in new => i \in 1 .. l + 1) /\ (i \in before => i \in 1 .. l)
      BY <1>5
    <3>4. QED
      BY <1>4, <3>1, <3>2, <3>3
  <2>2. Cardinality(new) = Cardinality(before) + 1
    BY <1>3, <2>1, FS_AddElement
  <2>3. QED
    BY <1>1, <1>2, <1>3, <1>7, <2>2
<1>8. QED
  BY <1>6, <1>7

\* What Process lists is what arrived last, where the counter reports in order.
LEMMA RecentFacts ==
  ASSUME WindowInv, RoomForWindow, NEW m \in Monitors, InOrder(m)
  PROVE  /\ Cardinality(RecentByMonitorZone(m, Window - 1)) = Len(arrived[m])
         /\ Cardinality({i \in RecentByMonitorZone(m, Window - 1) : ~samples[i].valid})
              = Cardinality(InvalidOf(arrived[m]))
<1>1. PICK K, c, l, a, t :
        /\ K = OfMonitor(samples, m) /\ c = Cardinality(K)
        /\ a = arrived[m] /\ l = Len(a) /\ t = Stored(m)
  OBVIOUS
<1>2. /\ samples \in Seq(SampleRecord) /\ a \in Seq(BOOLEAN) /\ Latest(t, a)
      /\ K \in SUBSET DOMAIN samples /\ DOMAIN a = 1 .. l /\ l \in Nat
  BY <1>1 DEF WindowInv, OfMonitor
<1>3. /\ Len(samples) \in Nat /\ K \in SUBSET (1 .. Len(samples))
      /\ \A i \in K : i \in Nat /\ samples[i].at \in Nat
  <2>1. Len(samples) \in Nat /\ K \in SUBSET (1 .. Len(samples))
    BY <1>2
  <2>2. \A i \in K : i \in Nat /\ samples[i] \in SampleRecord
    BY <1>2, ElementOfSeq
  <2>3. QED
    BY <2>1, <2>2 DEF SampleRecord
<1>4. /\ Len(t) = c /\ c \in Nat
      /\ \A k \in 1 .. c : Nth(K, k) \in K /\ t[k] = samples[Nth(K, k)]
  BY <1>1, <1>2, SubsequenceFacts DEF Stored
<1>5. /\ \A i \in K : Rank(K, i) \in 1 .. c
      /\ \A k \in 1 .. c : Rank(K, Nth(K, k)) = k
  BY <1>1, <1>3, RankFacts, NthFacts
<1>6. Window \in Nat /\ l < Window /\ l <= c /\ (l < Window - 1 => c = l)
  <2>1. Window \in Nat
    BY SampleAssumption
  <2>2. l < Window /\ l <= c /\ (l < Window - 1 => c <= l)
    BY <1>1, <1>2, <1>4 DEF Latest
  <2>3. QED
    BY <1>2, <1>4, <2>1, <2>2
<1>7. ASSUME NEW i \in K PROVE Cardinality({j \in K : ListedBefore(j, i)}) = c - Rank(K, i)
  <2>1. \A j \in K : ListedBefore(j, i) <=> j > i
    <3> TAKE j \in K
    <3>1. /\ i \in Nat /\ j \in Nat /\ samples[i].at \in Nat /\ samples[j].at \in Nat
          /\ i < j => samples[i].at < samples[j].at
          /\ j < i => samples[j].at < samples[i].at
      BY <1>1, <1>3 DEF InOrder
    <3>2. QED
      BY <3>1 DEF ListedBefore
  <2>2. {j \in K : ListedBefore(j, i)} = {j \in K : j > i}
    BY <2>1
  <2>3. QED
    BY <1>1, <1>3, <2>2, RankAfter
<1>8. PICK recent : recent = RecentByMonitorZone(m, Window - 1)
  OBVIOUS
<1>9. recent = LastOf(K, c, l)
  <2>1. recent = {i \in K : Cardinality({j \in K : ListedBefore(j, i)}) < Window - 1}
    BY <1>1, <1>8 DEF RecentByMonitorZone
  <2>2. \A i \in K : c - Rank(K, i) < Window - 1 <=> Rank(K, i) > c - l
    BY <1>2, <1>4, <1>5, <1>6
  <2>3. QED
    BY <1>7, <2>1, <2>2 DEF LastOf
<1>10. ASSUME NEW k \in 1 .. l
       PROVE  /\ Nth(K, c - l + k) \in recent
              /\ samples[Nth(K, c - l + k)].valid = a[k]
  <2>1. PICK x \in 1 .. c : x = c - l + k
    BY <1>2, <1>4, <1>6
  <2>2. Nth(K, x) \in K /\ Rank(K, Nth(K, x)) = x /\ x > c - l
    BY <1>2, <1>4, <1>5, <1>6, <2>1
  <2>3. PICK d \in Nat : d = l - k /\ d < c /\ d < l /\ c - d = x /\ l - d = k
    <3>1. l - k \in Nat /\ l - k < c /\ l - k < l /\ c - (l - k) = x /\ l - (l - k) = k
      BY <1>2, <1>4, <1>6, <2>1
    <3>2. QED
      BY <3>1
  <2>4. t[Len(t) - d].valid = a[Len(a) - d]
    <3>1. d < Len(t) /\ d < Len(a)
      BY <1>1, <1>4, <2>3
    <3>2. QED
      BY <1>2, <3>1 DEF Latest
  <2>5. t[x].valid = a[k]
    BY <1>1, <1>4, <2>3, <2>4
  <2>6. QED
    BY <1>4, <1>9, <2>1, <2>2, <2>5 DEF LastOf
<1>11. Cardinality(recent) = l
  <2>1. Cardinality(recent) = Cardinality(1 .. l)
    <3>1. /\ 1 .. l \in SUBSET (1 .. l) /\ recent \in SUBSET LastOf(K, c, l)
          /\ \A k \in 1 .. l : Nth(K, c - l + k) \in recent <=> k \in 1 .. l
      BY <1>9, <1>10
    <3>2. Cardinality(K) = c /\ l \in Nat /\ l <= c
      BY <1>1, <1>2, <1>6
    <3>3. QED
      <4>1. Numbered(Len(samples), K, c, l, 1 .. l, recent)
        BY <1>3, <3>1, <3>2 DEF Numbered
      <4>2. QED
        BY <4>1, LastCounted
  <2>2. QED
    BY <1>2, <2>1, FS_Interval
<1>12. Cardinality({i \in recent : ~samples[i].valid}) = Cardinality(InvalidOf(a))
  <2>1. PICK B, P : B = {i \in recent : ~samples[i].valid} /\ P = InvalidOf(a)
    OBVIOUS
  <2>2. /\ P \in SUBSET (1 .. l) /\ B \in SUBSET LastOf(K, c, l)
        /\ \A k \in 1 .. l : Nth(K, c - l + k) \in B <=> k \in P
    BY <1>2, <1>9, <1>10, <2>1 DEF InvalidOf
  <2>3. Cardinality(K) = c /\ l \in Nat /\ l <= c
    BY <1>1, <1>2, <1>6
  <2>4. Numbered(Len(samples), K, c, l, P, B)
    BY <1>3, <2>2, <2>3 DEF Numbered
  <2>5. QED
    BY <2>1, <2>4, LastCounted
<1>13. QED
  BY <1>1, <1>8, <1>11, <1>12

-----------------------------------------------------------------------------
\* What the rule has found of monitor zone m, once its sample is weighed.
Credible(m) ==
  RoomForWindow /\ InOrder(m) /\ pc[m] = "weighed" =>
    LET readings == Append(arrived[m], sample[m].valid)
    IN  "data_quality" \in found[m] <=>
          100 * Cardinality(InvalidOf(readings)) > InvalidRatioThreshold * Len(readings)

CredibleInv ==
  /\ WindowInv
  /\ found \in [Monitors -> SUBSET AlertTypes]
  /\ \A m \in Monitors : Credible(m)

\* The data-credibility rule of Process.
LEMMA WeighCredible ==
  ASSUME WindowInv, found \in [Monitors -> SUBSET AlertTypes],
         NEW m \in Monitors, IngestWeigh(m), RoomForWindow, InOrder(m)
  PROVE  LET readings == Append(arrived[m], sample[m].valid)
         IN  "data_quality" \in found'[m] <=>
               100 * Cardinality(InvalidOf(readings)) > InvalidRatioThreshold * Len(readings)
<1>1. PICK a, valid, n :
        /\ a = arrived[m] /\ valid = sample[m].valid
        /\ n = Cardinality(InvalidOf(a))
  OBVIOUS
<1>2. a \in Seq(BOOLEAN) /\ valid \in BOOLEAN
  BY <1>1 DEF WindowInv, RequestsTyped, EnvSample
<1>3. WindowSize(m) = Len(a) + 1 /\ InvalidInWindow(m) = n + IF valid THEN 0 ELSE 1
  BY <1>1, RecentFacts DEF WindowSize, InvalidInWindow
<1>4. /\ Len(Append(a, valid)) = Len(a) + 1
      /\ Cardinality(InvalidOf(Append(a, valid))) = n + IF valid THEN 0 ELSE 1
  BY <1>1, <1>2, InvalidAppended
<1>5. "data_quality" \in found'[m] <=>
        ExceedsInvalidRatio(InvalidInWindow(m), WindowSize(m), InvalidRatioThreshold)
  <2>1. PICK exceeds : exceeds =
          ExceedsInvalidRatio(InvalidInWindow(m), WindowSize(m), InvalidRatioThreshold)
    OBVIOUS
  <2>2. found' = [found EXCEPT ![m] = IF exceeds THEN @ \cup {"data_quality"}
                                      ELSE @ \ {"data_quality"}]
    BY <2>1 DEF IngestWeigh, WeighedAlerts
  <2>3. exceeds \in BOOLEAN
    BY <2>1 DEF ExceedsInvalidRatio
  <2>4. QED
    BY <2>1, <2>2, <2>3
<1>6. QED
  BY <1>1, <1>3, <1>4, <1>5 DEF ExceedsInvalidRatio

\* The other steps leave what a weighed window says alone.
LEMMA CredibleKept ==
  ASSUME CredibleInv, WindowInv', NEW u \in Monitors,
         pc'[u] = pc[u], sample'[u] = sample[u], found'[u] = found[u],
         arrived'[u] = arrived[u], Stored(u)' = Stored(u)
  PROVE  Credible(u)'
<1>1. InOrder(u)' => InOrder(u)
  <2>1. InOrder(u) <=> AscendingAt(Stored(u))
    BY InOrderFacts DEF CredibleInv, WindowInv
  <2>2. InOrder(u)' <=> AscendingAt(Stored(u)')
    <3>1. PICK s, K : s = samples' /\ K = OfMonitor(s, u)
      OBVIOUS
    <3>2. s \in Seq(SampleRecord) /\ K \in SUBSET DOMAIN s
      BY <3>1 DEF WindowInv, OfMonitor
    <3>3. (\A i, j \in K : i < j => s[i].at < s[j].at) <=> AscendingAt(Subsequence(s, K))
      BY <3>2, OrderFacts
    <3>4. InOrder(u)' <=> \A i, j \in K : i < j => s[i].at < s[j].at
      BY <3>1 DEF InOrder, OfMonitor
    <3>5. Stored(u)' = Subsequence(s, K)
      BY <3>1 DEF Stored, OfMonitor
    <3>6. QED
      BY <3>3, <3>4, <3>5
  <2>3. QED
    BY <2>1, <2>2
<1>2. Credible(u)
  BY DEF CredibleInv
<1>3. QED
  BY <1>1, <1>2 DEF Credible

LEMMA CredibleStep ==
  ASSUME CredibleInv, Inv, [Next]_vars
  PROVE  CredibleInv'
<1>1. WindowInv' /\ found' \in [Monitors -> SUBSET AlertTypes]
  <2>1. WindowInv'
    BY WindowStep DEF CredibleInv
  <2>2. Inv'
    BY AlertInvStep
  <2>3. QED
    BY <2>1, <2>2 DEF Inv, AlertsTyped
<1>2. /\ DOMAIN pc = Monitors /\ DOMAIN sample = Monitors /\ DOMAIN found = Monitors
      /\ DOMAIN arrived = Monitors
  BY DEF CredibleInv, WindowInv, RequestsTyped
<1>3. UNCHANGED samples => \A u \in Monitors : Stored(u)' = Stored(u)
  BY DEF Stored, OfMonitor
<1>4. ASSUME NEW m \in Monitors,
             \A u \in Monitors \ {m} :
               /\ pc'[u] = pc[u] /\ sample'[u] = sample[u] /\ found'[u] = found[u]
               /\ arrived'[u] = arrived[u] /\ Stored(u)' = Stored(u),
             Credible(m)'
      PROVE  CredibleInv'
  <2>1. \A u \in Monitors \ {m} : Credible(u)'
    BY <1>1, <1>4, CredibleKept
  <2>2. QED
    BY <1>1, <1>4, <2>1 DEF CredibleInv
<1>5. ASSUME NEW r \in Readings, PostSample(r) PROVE CredibleInv'
  <2>1. PICK m \in Monitors : m = r.monitor
    BY SampleAssumption
  <2>2. /\ pc'[m] = "judged"
        /\ \A u \in Monitors \ {m} :
             /\ pc'[u] = pc[u] /\ sample'[u] = sample[u] /\ found'[u] = found[u]
             /\ arrived'[u] = arrived[u]
        /\ UNCHANGED samples
    BY <1>2, <1>5, <2>1 DEF PostSample, IngestJudge
  <2>3. Credible(m)'
    BY <2>2 DEF Credible
  <2>4. QED
    BY <1>3, <1>4, <2>2, <2>3
<1>6. ASSUME NEW m \in Monitors, IngestAbort(m) \/ IngestAlerts(m) PROVE CredibleInv'
  <2>1. /\ pc'[m] # "weighed"
        /\ \A u \in Monitors \ {m} :
             /\ pc'[u] = pc[u] /\ sample'[u] = sample[u] /\ found'[u] = found[u]
             /\ arrived'[u] = arrived[u]
        /\ UNCHANGED samples
    BY <1>2, <1>6 DEF IngestAbort, IngestAlerts, FoundAfter
  <2>2. Credible(m)'
    BY <2>1 DEF Credible
  <2>3. QED
    BY <1>3, <1>4, <2>1, <2>2
<1>7. ASSUME NEW m \in Monitors, IngestWeigh(m) PROVE CredibleInv'
  <2>1. /\ \A u \in Monitors \ {m} :
             /\ pc'[u] = pc[u] /\ sample'[u] = sample[u] /\ found'[u] = found[u]
             /\ arrived'[u] = arrived[u]
        /\ UNCHANGED <<samples, sample, arrived>>
    BY <1>2, <1>7 DEF IngestWeigh, WeighedAlerts
  <2>2. Credible(m)'
    <3>1. ASSUME RoomForWindow, InOrder(m)
          PROVE  LET readings == Append(arrived[m], sample[m].valid)
                 IN  "data_quality" \in found'[m] <=>
                       100 * Cardinality(InvalidOf(readings))
                         > InvalidRatioThreshold * Len(readings)
      BY <1>7, <3>1, WeighCredible DEF CredibleInv
    <3>2. InOrder(m)' => InOrder(m)
      BY <2>1 DEF InOrder, OfMonitor
    <3>3. QED
      BY <2>1, <3>1, <3>2 DEF Credible
  <2>3. QED
    BY <1>3, <1>4, <2>1, <2>2
<1>8. ASSUME NEW m \in Monitors, IngestAppend(m) PROVE CredibleInv'
  <2>1. /\ pc'[m] = "idle"
        /\ \A u \in Monitors \ {m} :
             /\ pc'[u] = pc[u] /\ sample'[u] = sample[u] /\ found'[u] = found[u]
             /\ arrived'[u] = arrived[u]
    BY <1>2, <1>8 DEF IngestAppend
  <2>2. \A u \in Monitors \ {m} : Stored(u)' = Stored(u)
    BY <1>8, AppendOthers DEF CredibleInv
  <2>3. Credible(m)'
    BY <2>1 DEF Credible
  <2>4. QED
    BY <1>4, <2>1, <2>2, <2>3
<1>9. CASE UNCHANGED <<samples, pc, sample, found, arrived>>
  <2>1. \A u \in Monitors : Credible(u)'
    BY <1>1, <1>3, <1>9, CredibleKept
  <2>2. QED
    BY <1>1, <2>1 DEF CredibleInv
<1>10. QED
  BY <1>5, <1>6, <1>7, <1>8, <1>9 DEF Next, Ack, SetMaintenance, vars

\* Credibility is judged on exactly the last Window readings of the monitor
\* zone, this one included, for every number of monitor zones and readings and
\* every window that the store has room for (service/ingest_service.go,
\* Process, with what ListByMonitorZone lists and trimLocked leaves).
THEOREM CredibilityIsOfLastReadings == Spec => []CredibilityOfLastReadings
<1>1. ASSUME Init PROVE CredibleInv /\ Inv
  <2>1. WindowInv /\ Inv
    BY <1>1, WindowInit, AlertInvInit
  <2>2. \A m \in Monitors : Credible(m)
    BY <1>1 DEF Init, Credible
  <2>3. QED
    BY <2>1, <2>2 DEF CredibleInv, Inv, AlertsTyped
<1>2. ASSUME CredibleInv, Inv, [Next]_vars PROVE CredibleInv' /\ Inv'
  BY <1>2, CredibleStep, AlertInvStep
<1>3. CredibleInv => CredibilityOfLastReadings
  BY DEF CredibleInv, Credible, CredibilityOfLastReadings, InvalidOf
<1>4. QED
  BY <1>1, <1>2, <1>3, PTL DEF Spec
=============================================================================
