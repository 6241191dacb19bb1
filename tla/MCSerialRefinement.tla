------------------------- MODULE MCSerialRefinement --------------------------
(***************************************************************************)
(* One physical area with a second clean zone created late, and another    *)
(* area; the monitor zone of the first clean zone is created late as well. *)
(***************************************************************************)
EXTENDS SerialRefinement, TLC

CONSTANTS a1, a2, b1, areaA, areaB, mA1, pc1, w1, w2, op1, nobody

MCAreaOf == a1 :> areaA @@ a2 :> areaA @@ b1 :> areaB
MCZoneOf == mA1 :> a1
MCCounterOf == mA1 :> pc1
MCRatios == {0, 120, 220}
MCTimes == {0, 1, 2}
=============================================================================
