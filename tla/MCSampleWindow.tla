---------------------------- MODULE MCSampleWindow ----------------------------
(***************************************************************************)
(* Two instances.  For the window, m1 reports early and late and goes into *)
(* maintenance while the samples of m2, whose counter is out of            *)
(* calibration, come between its own.  For the alerts, one monitor zone    *)
(* with a range of its own reports every condition.                        *)
(***************************************************************************)
EXTENDS SampleWindow

CONSTANTS m1, m2

\* Only m1 is calibrated.
MCCalibrationDue == [m \in Monitors |-> IF m = m1 THEN 3 ELSE 1]
MCIsoClassOf == [m \in Monitors |-> 5]
MCProcessOf == [m \in Monitors |-> IF m = m1 THEN "lithography" ELSE "diffusion"]

\* The lower end of the pressure range is overridden.
NoOverride == Between(0, 0)
MCOverridesOf ==
  [m \in Monitors |->
     [limits |-> Count(0, 0), temperature |-> NoOverride,
      humidity |-> NoOverride, pressure |-> Between(10, 0)]]

Env(t, h, p) == [temperature |-> t, humidity |-> h, pressure |-> p]

Reading(m, at, count, env) == [monitor |-> m, at |-> at, count |-> count, env |-> env]

MCWindowReadings ==
  {Reading(m1, at, Count(40, 14), Env(21, 45, 20)) : at \in {2, 3}}
    \cup {Reading(m2, 2, Count(40, 14), Env(22, 45, 15))}

\* Well within class 5; class 5 by the smaller and 6 by the larger particles;
\* beyond the table by the smaller ones only.
MCCounts == {Count(40, 14), Count(90, 36), Count(100001, 20)}

\* In range; too warm; too dry and the pressure below the default, yet not
\* below the override; the pressure below both; humidity no sensor reports.
MCEnvs == {Env(21, 45, 20), Env(23, 45, 20), Env(21, 39, 12), Env(21, 45, 9), Env(21, 101, 20)}

MCAlertReadings == [monitor : {m1}, at : {3, 4}, count : MCCounts, env : MCEnvs]
=============================================================================
