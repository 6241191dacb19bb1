---------------------------- MODULE Configuration ----------------------------
(***************************************************************************)
(* config.Config: its defaults, what the environment makes of them and     *)
(* what Validate accepts.                                                  *)
(*                                                                         *)
(* A setting has the name of its Config field; each is read from one       *)
(* environment variable.  An environment is a function from the variables  *)
(* that are set to their texts.  Durations are seconds, the two float64    *)
(* settings hundredths or NaN, which strconv.ParseFloat accepts and which  *)
(* no comparison holds of.                                                 *)
(***************************************************************************)
EXTENDS Integers

CONSTANTS
  NaN,       \* the float64 that is not a number
  TrimLower  \* what strings.TrimSpace and ToLower make of the texts in use

ASSUME NaNAssumption == NaN \notin Int

Durations ==
  {"ShutdownTimeout", "ReadHeaderTimeout", "ReadTimeout", "WriteTimeout",
   "IdleTimeout", "AutoInterlockAfter", "AlertEscalateAfter", "AlertDedupWindow",
   "InterlockSweepInterval", "EscalateSweepInterval"}
Floats == {"InvalidRatioThreshold", "OverLimitRatio"}
Integral == {"InvalidRatioWindow", "MaxSamplesPerZone"}
Parsed == Durations \cup Floats \cup Integral

Settings == {"Port", "DataFile", "LogLevel"} \cup Parsed

\* The text of an environment variable: empty, not parsable as its type, or
\* the text of a value.
Empty == [is |-> "empty"]
Garbage == [is |-> "garbage"]
Text(v) == [is |-> "value", value |-> v]

Default ==
  [Port |-> "8080", DataFile |-> "data/cleanroom_data.json", LogLevel |-> "info",
   ShutdownTimeout |-> 10, ReadHeaderTimeout |-> 10, ReadTimeout |-> 30,
   WriteTimeout |-> 60, IdleTimeout |-> 120,
   AutoInterlockAfter |-> 600, AlertEscalateAfter |-> 3600,
   AlertDedupWindow |-> 1200,
   InvalidRatioThreshold |-> 30, InvalidRatioWindow |-> 50,
   OverLimitRatio |-> 150,
   InterlockSweepInterval |-> 60, EscalateSweepInterval |-> 300,
   MaxSamplesPerZone |-> 2000]

\* An empty text counts as unset, but for DataFile, where it turns
\* persistence off (os.LookupEnv).
IsSet(env, s) ==
  /\ s \in DOMAIN env
  /\ env[s] # Empty \/ s = "DataFile"

Assigned(env, s) ==
  IF ~IsSet(env, s) \/ env[s] = Garbage THEN Default[s]
  ELSE IF env[s] = Empty THEN "" ELSE env[s].value

\* FromEnv (strict = FALSE) and FromEnvStrict: the configuration, and whether
\* an error comes with it.
fromEnv(env, strict) ==
  [config |-> [s \in Settings |-> Assigned(env, s)],
   failed |-> strict /\ \E s \in Parsed : IsSet(env, s) /\ env[s] = Garbage]

\* logging.Configure accepts a level exactly when ParseLevel does.
ParseLevelAccepts(level) ==
  TrimLower[level] \in {"", "debug", "info", "warn", "warning", "error"}

\* The comparisons of Validate as float64 makes them.
Below(x, y) == x # NaN /\ x < y
AtMost(x, y) == x # NaN /\ x <= y

\* It rejects what is below or above the bounds, so NaN passes.
Validate(c) ==
  /\ TrimLower[c.Port] # ""
  /\ ParseLevelAccepts(c.LogLevel)
  /\ \A s \in Durations : c[s] > 0
  /\ ~AtMost(c.InvalidRatioThreshold, 0)
  /\ c.InvalidRatioThreshold = NaN \/ c.InvalidRatioThreshold <= 100
  /\ c.InvalidRatioWindow >= 1
  /\ ~Below(c.OverLimitRatio, 100)
  /\ c.MaxSamplesPerZone >= 0

\* The window that ingestion and the overview use.
SampleWindow(c) == IF c.InvalidRatioWindow < 1 THEN 50 ELSE c.InvalidRatioWindow
=============================================================================
