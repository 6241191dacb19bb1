--------------------------- MODULE CleanroomDomain ---------------------------
(***************************************************************************)
(* The pure rules of package domain: the clean-zone state machine, the     *)
(* status a particle ratio asks for, the interlock levels and what an      *)
(* interlock command does to the equipment of a monitor zone.              *)
(*                                                                         *)
(* A concentration-to-limit ratio (a float64 in the code) is a natural     *)
(* number of hundredths here: One = 100 stands for 1.0.  Only comparisons  *)
(* with thresholds are ever made on it.                                    *)
(***************************************************************************)
EXTENDS Integers

ZoneStatuses == {"normal", "elevated", "over_limit", "interlocked", "restored"}

One == 100

\* The edges of zoneStateMachine.
NextStatuses ==
  [normal      |-> {"elevated", "over_limit", "interlocked"},
   elevated    |-> {"normal", "over_limit", "interlocked"},
   over_limit  |-> {"interlocked", "elevated", "normal"},
   interlocked |-> {"restored", "interlocked"},
   restored    |-> {"normal", "elevated", "over_limit", "interlocked"}]

CanTransition(from, to) == from = to \/ to \in NextStatuses[from]

RestoreStatus == "restored"

StatusForRatio(ratio, overLimitRatio) ==
  IF ratio >= overLimitRatio THEN "over_limit"
  ELSE IF ratio >= One THEN "elevated" ELSE "normal"

TargetStatusFromRatio(current, ratio, overLimitRatio) ==
  LET wanted == StatusForRatio(ratio, overLimitRatio)
  IN  IF CanTransition(current, wanted) THEN wanted ELSE current

MinInt(a, b) == IF a < b THEN a ELSE b

InterlockLevelForRatio(ratio) ==
  IF ratio >= 3 * One THEN 3 ELSE IF ratio >= 2 * One THEN 2 ELSE 1

ActionsForLevel(level) ==
  {"ffu_speed_up", "fresh_air_increase"}
    \cup (IF level >= 2 THEN {"exhaust_increase"} ELSE {})

\* A clean zone as stored: timeInStatus is now - StatusSince, counted in
\* clock ticks by the modules that have a clock.
CleanZone(status, timeInStatus, lastParticleRatio) ==
  [status |-> status, timeInStatus |-> timeInStatus,
   lastParticleRatio |-> lastParticleRatio]

NewCleanZone == CleanZone("normal", 0, 0)

\* Mutant of SetStatus: every sample restarts StatusSince.
SetStatusRestarting(z, next) == [z EXCEPT !.status = next, !.timeInStatus = 0]

\* SetStatus restarts StatusSince only when the status really changes.
SetStatus(z, next) ==
  IF z.status = next THEN z
  ELSE [z EXCEPT !.status = next, !.timeInStatus = 0]

NewMonitorZone(calibrationDue) ==
  [ffuLevel |-> 60, freshAirRatio |-> 30,
   inMaintenance |-> FALSE, calibrationDue |-> calibrationDue]

\* The zero time: a monitor zone without a due date never expires.
NoDue == 0

IsCalibrationExpired(m, at) ==
  m.calibrationDue # NoDue /\ at > m.calibrationDue

\* EvaluateValidity: counters in maintenance or out of calibration give
\* readings that must not be classified.
EvaluateValidity(m, at) == ~m.inMaintenance /\ ~IsCalibrationExpired(m, at)

\* Mutant of RaiseVentilation: the settings are not capped at 100.
RaiseVentilationUncapped(m, level) ==
  [m EXCEPT !.ffuLevel = @ + 10 * level, !.freshAirRatio = @ + 5 * level]

\* One round of interlock commands on one monitor zone.
RaiseVentilation(m, level) ==
  [m EXCEPT
     !.ffuLevel = IF "ffu_speed_up" \in ActionsForLevel(level)
                  THEN MinInt(100, @ + 10 * level) ELSE @,
     !.freshAirRatio = IF "fresh_air_increase" \in ActionsForLevel(level)
                       THEN MinInt(100, @ + 5 * level) ELSE @]
=============================================================================
