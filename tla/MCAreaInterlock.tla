--------------------------- MODULE MCAreaInterlock ---------------------------
(***************************************************************************)
(* Three clean zones in two physical areas, one of them created late, and  *)
(* a monitor zone in each zone of the first area.                          *)
(***************************************************************************)
EXTENDS AreaInterlock, TLC

CONSTANTS a1, a2, b1, areaA, areaB, mA1, mA2, pc1, pc2, op1, nobody

MCAreaOf == a1 :> areaA @@ a2 :> areaA @@ b1 :> areaB
MCZoneOf == mA1 :> a1 @@ mA2 :> a2
MCCounterOf == mA1 :> pc1 @@ mA2 :> pc2
MCRatios == {0, 120, 320}
MCTimes == {1}
=============================================================================
