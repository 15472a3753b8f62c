---------------------------- MODULE MCSchemaSync ------------------------------
(*****************************************************************************)
(* SchemaSync for TLC: instances and requests are interchangeable in the     *)
(* runs that check no liveness.                                              *)
(*****************************************************************************)
EXTENDS SchemaSync, TLC

Symmetry == Permutations(Instances) \cup Permutations(Requests)
===============================================================================
