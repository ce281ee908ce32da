---------------------------- MODULE MCJobTable ----------------------------
EXTENDS JobTable, TLC

CONSTANTS w1, w2

(* Three jobs on two slots while the daemon serves; a shutdown is looked  *)
(* at with two.                                                           *)
ShutdownBound == sd = "serving" \/ g_next_id <= 3

WorkerSymmetry == Permutations(Workers)
===========================================================================
