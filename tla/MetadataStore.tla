---------------------------- MODULE MetadataStore -----------------------------
(*****************************************************************************)
(* What the metadata API promises, whatever the number of instances: the     *)
(* metadata goes through numbered versions, every version adds one request   *)
(* to the one before it, and a request that was answered with success stays. *)
(* SchemaSync is shown to implement this specification.                      *)
(*****************************************************************************)
EXTENDS Naturals, Sequences

CONSTANT Requests

VARIABLES
    history,    \* history[v]: the requests that version v incorporates
    acked       \* requests that were answered with success

vars == <<history, acked>>

Init ==
    /\ history = << {} >>
    /\ acked = {}

\* A request takes effect on the latest version, and on no other.
Commit(r) ==
    /\ history' = Append(history, history[Len(history)] \cup {r})
    /\ UNCHANGED acked

\* Success is reported only for what the latest version incorporates.
Acknowledge(r) ==
    /\ r \in history[Len(history)]
    /\ acked' = acked \cup {r}
    /\ UNCHANGED history

Next == \E r \in Requests : Commit(r) \/ Acknowledge(r)

Spec == Init /\ [][Next]_vars
===============================================================================
