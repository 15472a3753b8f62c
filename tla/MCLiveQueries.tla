---------------------------- MODULE MCLiveQueries -----------------------------
(*****************************************************************************)
(* Small instances of LiveQueries for TLC.                                    *)
(*****************************************************************************)
EXTENDS LiveQueries, TLC

CONSTANTS s1, s2, s3, k1, c1, c2

OnePoller  == [s \in {s1, s2, s3} |-> k1]
TwoCohorts == (s1 :> c1) @@ (s2 :> c1) @@ (s3 :> c2)
===============================================================================
