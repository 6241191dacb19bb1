--------------------------- MODULE MCSnapshotStore ---------------------------
(***************************************************************************)
(* Two clean zones and one baseline sample stand for the fixtures: a crash *)
(* can fall between the zones, and the sample takes an id as requests do.  *)
(***************************************************************************)
EXTENDS SnapshotStore

CONSTANTS r1, r2, main, zone_a1, zone_b1, baseline

MCFixtures == <<zone_a1, zone_b1, baseline>>
=============================================================================
