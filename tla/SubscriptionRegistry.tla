------------------------- MODULE SubscriptionRegistry -------------------------
(*****************************************************************************)
(* What a websocket connection relies on when it keeps an OperationMap beside *)
(* the SubscriptionsState: a subscriber that was added is registered until it *)
(* is removed, one that was removed is not registered and never comes back,   *)
(* and nothing that others do changes either.                                 *)
(* LiveQueries is shown to implement this specification, and WebSocket is     *)
(* composed with it.                                                          *)
(*****************************************************************************)
CONSTANT Subs

VARIABLES
    live,    \* subscribers that pollers serve
    closed   \* subscribers that were removed

vars == <<live, closed>>

Init == live = {} /\ closed = {}

Add(s) ==
    /\ s \notin live \cup closed
    /\ live' = live \cup {s}
    /\ UNCHANGED closed

Remove(s) ==
    /\ s \in live
    /\ live' = live \ {s}
    /\ closed' = closed \cup {s}

Next == \E s \in Subs : Add(s) \/ Remove(s)

Spec == Init /\ [][Next]_vars
===============================================================================
