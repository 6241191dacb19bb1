----------------------------- MODULE MCDashboard -----------------------------
(***************************************************************************)
(* Two polls under way, beside a worker that creates a clean zone and its  *)
(* monitor zone, interlocks the area and restores it.                      *)
(***************************************************************************)
EXTENDS Dashboard, TLC

CONSTANTS a1, areaA, mA1, pc1, w1, w2, p1, p2, op1, nobody

MCAreaOf == a1 :> areaA
MCZoneOf == mA1 :> a1
MCCounterOf == mA1 :> pc1
MCRatios == {150}
MCTimes == {1}
=============================================================================
