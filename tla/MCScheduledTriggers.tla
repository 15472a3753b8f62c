------------------------- MODULE MCScheduledTriggers --------------------------
(*****************************************************************************)
(* Small instances of ScheduledTriggers for TLC.                              *)
(*****************************************************************************)
EXTENDS ScheduledTriggers, TLC

CONSTANTS i1, i2, t1, e1, e2

Symmetry == Permutations(Instances)
===============================================================================
