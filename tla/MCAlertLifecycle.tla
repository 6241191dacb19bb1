--------------------------- MODULE MCAlertLifecycle ---------------------------
(***************************************************************************)
(* The dedup window is the shorter one, as in the default configuration.   *)
(* Runs without liveness properties check dedup keys up to a permutation:  *)
(* nothing tells one key from another.                                     *)
(***************************************************************************)
EXTENDS AlertLifecycle, TLC

CONSTANTS r1, r2, sweeper, particle, pressure

MCSymmetry == Permutations(Keys)
=============================================================================
