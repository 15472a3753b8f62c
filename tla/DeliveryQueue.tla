---------------------------- MODULE DeliveryQueue -----------------------------
(*****************************************************************************)
(* What the queues of events in databases promise, whoever works them off: an  *)
(* event is open until somebody who has claimed it reports a verdict, and is    *)
(* delivered only if a webhook has accepted it.  Nobody claims an event that is *)
(* claimed already or no longer open, and nobody reports on one that is decided: *)
(* unless it is doubted, since its claim was taken away (a lock expired, a       *)
(* shutdown or a user unlocked it) while somebody was at work on it.            *)
(*                                                                           *)
(* EventTriggers and ScheduledTriggers are shown to implement this             *)
(* specification.  A claim is a tuple <<who, event, ...>>.                     *)
(*****************************************************************************)
CONSTANTS Events, Claims

VARIABLES
    status,     \* status[e]: what the database says of an event
    claim,      \* claim[c]: how far the work on the event of a claim is
    doubted     \* events of which a claim was taken away

vars == <<status, claim, doubted>>

Statuses == {"absent", "open", "delivered", "failed", "withdrawn"}
Stages   == {"none", "claimed", "accepted", "refused"}

Free(e)      == \A c \in Claims : c[2] = e => claim[c] = "none"
Undecided(e) == status[e] \in {"open", "withdrawn"}

Init ==
    /\ status = [e \in Events |-> "absent"]
    /\ claim = [c \in Claims |-> "none"]
    /\ doubted = {}

\* Events are inserted, or given up by those who inserted them.
Put(E) ==
    /\ \A e \in E : status[e] = "absent"
    /\ status' = [e \in Events |-> IF e \in E THEN "open" ELSE status[e]]
    /\ UNCHANGED <<claim, doubted>>

Withdraw(E) ==
    /\ \A e \in E : status[e] # "absent"
    /\ status' = [e \in Events |-> IF e \in E THEN "withdrawn" ELSE status[e]]
    /\ UNCHANGED <<claim, doubted>>

\* One transaction claims open events, each once.
Claim(C) ==
    /\ \A c \in C : /\ claim[c] = "none" /\ status[c[2]] = "open"
                    /\ c[2] \in doubted \/ Free(c[2])
    /\ \A c, d \in C : c[2] = d[2] => c = d
    /\ claim' = [c \in Claims |-> IF c \in C THEN "claimed" ELSE claim[c]]
    /\ UNCHANGED <<status, doubted>>

\* The webhook is called, or cannot be.
Answer(c, answer) ==
    /\ claim[c] = "claimed"
    /\ c[2] \in doubted \/ Undecided(c[2])
    /\ claim' = [claim EXCEPT ![c] = answer]
    /\ UNCHANGED <<status, doubted>>

\* What is reported of an answer: success, or failure for good or for the time being.
\* The report on a doubted event may leave alone what another has reported.
Verdicts(c) ==
    IF status[c[2]] = "withdrawn" THEN {"withdrawn"}
    ELSE (IF claim[c] = "accepted" THEN {"delivered"} ELSE {"open", "failed"})
         \cup {st \in {status[c[2]]} : c[2] \in doubted}

Report(c, verdict) ==
    /\ claim[c] \in {"accepted", "refused"}
    /\ c[2] \in doubted \/ Undecided(c[2])
    /\ verdict \in Verdicts(c)
    /\ status' = [status EXCEPT ![c[2]] = verdict]
    /\ claim' = [claim EXCEPT ![c] = "none"]
    /\ UNCHANGED doubted

\* A process ends, a transaction fails or an event is skipped: nothing is reported, even
\* of a call that was accepted, and the event is delivered again.
GiveUp(C) ==
    /\ claim' = [c \in Claims |-> IF c \in C THEN "none" ELSE claim[c]]
    /\ UNCHANGED <<status, doubted>>

\* The claims on events are taken away while somebody is at work on them.
Doubt(E) ==
    /\ \A e \in E : ~Free(e)
    /\ doubted' = doubted \cup E
    /\ UNCHANGED <<status, claim>>

\* A user has an event delivered again.
Reopen(e) ==
    /\ status[e] \in {"open", "delivered", "failed"}
    /\ status' = [status EXCEPT ![e] = "open"]
    /\ doubted' = IF Free(e) THEN doubted ELSE doubted \cup {e}
    /\ UNCHANGED claim

Next ==
    \/ \E E \in SUBSET Events : Put(E) \/ Withdraw(E) \/ Doubt(E)
    \/ \E C \in SUBSET Claims : Claim(C) \/ GiveUp(C)
    \/ \E c \in Claims : \/ \E answer \in {"accepted", "refused"} : Answer(c, answer)
                         \/ \E verdict \in Statuses : Report(c, verdict)
    \/ \E e \in Events : Reopen(e)

Spec == Init /\ [][Next]_vars
===============================================================================
