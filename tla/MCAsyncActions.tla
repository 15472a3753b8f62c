---------------------------- MODULE MCAsyncActions ----------------------------
(*****************************************************************************)
(* Small instances of AsyncActions for TLC.                                   *)
(*****************************************************************************)
EXTENDS AsyncActions

CONSTANTS i1, i2, a1, a2, d1

OneId == [d \in {d1} |-> a1]
===============================================================================
