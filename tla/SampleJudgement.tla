--------------------------- MODULE SampleJudgement ---------------------------
(***************************************************************************)
(* What a reading of a monitor zone is judged to be: its ISO class, its     *)
(* ratio to the limits of the monitor zone, the quantities that are out of *)
(* range, and the share of readings in a window that could not be judged.  *)
(*                                                                         *)
(* Concentrations count thousands of particles per cubic metre, for        *)
(* particles of at least 0.3 and 0.5 micrometre.  Ratios are hundredths,   *)
(* rounded down: their comparisons with whole hundredths are exact.        *)
(***************************************************************************)
EXTENDS CleanroomDomain, FiniteSets

IsoClasses == 5 .. 8

Count(c03, c05) == [c03 |-> c03, c05 |-> c05]

ISO14644Limits ==
  [cls \in IsoClasses |->
     CASE cls = 5 -> Count(100, 35)     [] cls = 6 -> Count(1000, 350)
       [] cls = 7 -> Count(10000, 3500) [] cls = 8 -> Count(100000, 35000)]

Within(count, limit) == count.c03 <= limit.c03 /\ count.c05 <= limit.c05

\* Mutant of ClassifyISO: the larger particles alone are looked at.
ClassifyISOLarge(count) ==
  LET fits == {cls \in IsoClasses : count.c05 <= ISO14644Limits[cls].c05}
  IN  IF fits = {} THEN 8 ELSE CHOOSE cls \in fits : \A other \in fits : cls <= other

\* The cleanest class that both sizes fit in, or else the dirtiest one.
ClassifyISO(count) ==
  LET fits == {cls \in IsoClasses : Within(count, ISO14644Limits[cls])}
  IN  IF fits = {} THEN 8 ELSE CHOOSE cls \in fits : \A other \in fits : cls <= other

OverTable(count) == ~Within(count, ISO14644Limits[8])

-----------------------------------------------------------------------------
Quantities == {"temperature", "humidity", "pressure"}

Between(min, max) == [min |-> min, max |-> max]

\* ParticleMultiplier, in hundredths, and the ranges of one process.
Profile(multiplier, temperature, humidity, pressure) ==
  [multiplier |-> multiplier, temperature |-> temperature,
   humidity |-> humidity, pressure |-> pressure]

ProcessThresholds ==
  [lithography |-> Profile(80, Between(20, 22), Between(40, 50), Between(15, 25)),
   etching |-> Profile(100, Between(20, 24), Between(40, 60), Between(10, 25)),
   diffusion |-> Profile(120, Between(21, 25), Between(35, 55), Between(5, 20))]

ProcessDefaultsFor(process) ==
  ProcessThresholds[IF process \in DOMAIN ProcessThresholds THEN process ELSE "etching"]

\* The limits of a monitor zone: an override where it has one (0 is none), or
\* the limit of the class scaled by the process.
EffectiveLimits(cls, process, overrides) ==
  LET base == ISO14644Limits[cls]
      pick(override, limit) ==
        IF override > 0 THEN override
        ELSE (limit * ProcessDefaultsFor(process).multiplier) \div 100
  IN  Count(pick(overrides.limits.c03, base.c03), pick(overrides.limits.c05, base.c05))

\* Each end of a range by itself: an override that is not 0, or the default.
EffectiveEnvRange(process, overrides) ==
  LET pick(override, default) == IF override # 0 THEN override ELSE default
      default == ProcessDefaultsFor(process)
  IN  [q \in Quantities |-> Between(pick(overrides[q].min, default[q].min),
                                    pick(overrides[q].max, default[q].max))]

IsOutOfRange(env, ranges) ==
  {q \in Quantities : env[q] < ranges[q].min \/ env[q] > ranges[q].max}

\* validateThresholds: what CreateMonitorZone accepts as overrides.  Only a
\* range with both ends overridden is looked at.
ValidateThresholds(overrides) ==
  /\ overrides.limits.c03 >= 0 /\ overrides.limits.c05 >= 0
  /\ \A q \in Quantities :
       overrides[q].min # 0 /\ overrides[q].max # 0 => overrides[q].min < overrides[q].max

\* What a sensor can sensibly report.
Temperatures == -100 .. 200
Humidities == 0 .. 100
Pressures == -100000 .. 100000

\* Mutant of ValidateSamplePayload: no range is checked.
ValidateSamplePayloadFinite(count, env) == count.c03 >= 0 /\ count.c05 >= 0

\* What PostSample accepts.
ValidateSamplePayload(count, env) ==
  /\ count.c03 >= 0 /\ count.c05 >= 0
  /\ env.temperature \in Temperatures
  /\ env.humidity \in Humidities
  /\ env.pressure \in Pressures

PartOf(count, limit) == IF limit > 0 THEN (count * One) \div limit ELSE 0

\* Mutant of RatioAgainst: the smaller of the two ratios.
RatioAgainstBetter(limits, count) ==
  MinInt(PartOf(count.c03, limits.c03), PartOf(count.c05, limits.c05))

RatioAgainst(limits, count) ==
  LET r1 == PartOf(count.c03, limits.c03)
      r2 == PartOf(count.c05, limits.c05)
  IN  IF r1 >= r2 THEN r1 ELSE r2

\* The alert types a valid sample raises; it resolves the other ones of these.
SampleAlertTypes == {"particle", "temp_humidity", "pressure"}

Conditions(ratio, outOfRange) ==
  {t \in SampleAlertTypes :
     \/ t = "particle" /\ ratio >= One
     \/ t = "temp_humidity" /\ outOfRange \cap {"temperature", "humidity"} # {}
     \/ t = "pressure" /\ "pressure" \in outOfRange}

\* EvaluateInvalidRatio, for a window with `invalid' invalid samples of
\* `size'; the threshold is a percentage and must be exceeded.
ExceedsInvalidRatio(invalid, size, threshold) == 100 * invalid > threshold * size
=============================================================================
