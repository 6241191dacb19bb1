-------------------------- MODULE MCInterlockRaces ---------------------------
(***************************************************************************)
(* Two clean zones of one physical area and one monitor zone: enough for   *)
(* one request to write a zone that another one has just written.          *)
(***************************************************************************)
EXTENDS InterlockRaces, TLC

CONSTANTS a1, a2, areaA, mA1, pc1, w1, w2, op1, op2, nobody

MCAreaOf == a1 :> areaA @@ a2 :> areaA
MCZoneOf == mA1 :> a1
MCCounterOf == mA1 :> pc1
MCRatios == {50, 120, 150}
MCHighRatios == {120, 150}
MCTimes == {1}
=============================================================================
