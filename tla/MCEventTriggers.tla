--------------------------- MODULE MCEventTriggers ----------------------------
(*****************************************************************************)
(* Small instances of EventTriggers for TLC.  The even-numbered events belong *)
(* to the second trigger, on the second source, where there is one.           *)
(*****************************************************************************)
EXTENDS EventTriggers, TLC

CONSTANTS i1, i2, s1, s2, t1, t2, e1, e2, g1, g2

OneTrigger  == [t \in {t1} |-> s1]
TwoTriggers == (t1 :> s1) @@ (t2 :> s2)
OneEvent    == [e \in {e1} |-> t1]
TwoEvents   == [e \in {e1, e2} |-> t1]
EventEach   == (e1 :> t1) @@ (e2 :> t2)

Symmetry == Permutations(Instances) \cup Permutations(Gens)
===============================================================================
