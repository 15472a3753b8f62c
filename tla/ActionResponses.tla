--------------------------- MODULE ActionResponses ----------------------------
(*****************************************************************************)
(* What the clients of async actions rely on: an action that a mutation has   *)
(* accepted stays open until it is answered or its data is cleared, and an    *)
(* answer that was once visible stays visible and is never reopened.          *)
(* asyncActionSubscriptionsProcessor drops a subscription as soon as it saw    *)
(* an answer, so one that was taken back would never be noticed.              *)
(* AsyncActions is shown to implement this specification.                     *)
(*****************************************************************************)
CONSTANT Ids

VARIABLES
    open,       \* ids that wait for an answer
    responses   \* responses[id]: the response columns that are not null

vars == <<open, responses>>

Columns == {"response_payload", "errors"}

Init ==
    /\ open = {}
    /\ responses = [id \in Ids |-> {}]

Submit(id) ==
    /\ id \notin open /\ responses[id] = {}
    /\ open' = open \cup {id}
    /\ UNCHANGED responses

\* A first or a second answer.
Respond(id, column) ==
    /\ id \in open \/ responses[id] # {}
    /\ open' = open \ {id}
    /\ responses' = [responses EXCEPT ![id] = @ \cup {column}]

\* The ids of an action are forgotten, with their responses.
Clear(S) ==
    /\ open' = open \ S
    /\ responses' = [id \in Ids |-> IF id \in S THEN {} ELSE responses[id]]

Next ==
    \/ \E id \in Ids : Submit(id) \/ \E column \in Columns : Respond(id, column)
    \/ \E S \in SUBSET Ids : Clear(S)

Spec == Init /\ [][Next]_vars
===============================================================================
