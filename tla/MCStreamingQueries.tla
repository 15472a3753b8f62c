-------------------------- MODULE MCStreamingQueries --------------------------
(*****************************************************************************)
(* Small instances of StreamingQueries for TLC.                               *)
(*****************************************************************************)
EXTENDS StreamingQueries, TLC

CONSTANTS s1, s2, s3

\* Two subscribers that start from the same value, and one that is ahead of them.
Starts == (s1 :> 0) @@ (s2 :> 0) @@ (s3 :> 1)
===============================================================================
