------------------------------- MODULE EventLog -------------------------------
(*****************************************************************************)
(* A row of hdb_catalog.event_log, the in-database work queue of the event   *)
(* triggers, and the SQL statements that the server runs on one row           *)
(* (server/src-lib/Hasura/Backends/Postgres/DDL/EventTrigger.hs).             *)
(*                                                                           *)
(* Time is abstracted to what the statements compare: the lock timestamp is  *)
(* NULL ("free"), younger than 30 minutes ("held") or older ("stale"); the   *)
(* retry timestamp is NULL, in the future, or due.                            *)
(*****************************************************************************)
EXTENDS Naturals

LockStates  == {"free", "held", "stale"}
RetryStates == {"null", "future", "due"}

Row == [delivered : BOOLEAN, error : BOOLEAN, archived : BOOLEAN,
        tries : Nat, locked : LockStates, retry : RetryStates]

\* What the SQL trigger inserts: hdb_catalog.insert_event_log.
FreshRow == [delivered |-> FALSE, error |-> FALSE, archived |-> FALSE,
             tries |-> 0, locked |-> "free", retry |-> "null"]

-------------------------------------------------------------------------------
(* Operators whose name ends in a fault (WhateverLock, ...) are mutants: wrong *)
(* versions of the definition after them, which the properties must refute.    *)

IsFetchableWhateverLock(row) ==
    ~row.delivered /\ ~row.error /\ ~row.archived /\ row.retry \in {"null", "due"}
IsFetchableWithoutExpiry(row) ==
    IsFetchableWhateverLock(row) /\ row.locked = "free"
IsFetchableDespiteError(row) ==
    /\ ~row.delivered /\ ~row.archived
    /\ row.locked \in {"free", "stale"} /\ row.retry \in {"null", "due"}

\* The WHERE clause of fetchEvents (the trigger names are the caller's).
IsFetchable(row) ==
    /\ ~row.delivered
    /\ ~row.error
    /\ ~row.archived
    /\ row.locked \in {"free", "stale"}
    /\ row.retry \in {"null", "due"}

\* ORDER BY locked NULLS FIRST, next_retry_at NULLS FIRST: row1 certainly comes
\* before row2.  Timestamps of one class, and created_at, are not told apart.
FetchedBefore(row1, row2) ==
    \/ row1.locked = "free" /\ row2.locked = "stale"
    \/ /\ row1.locked = "free" /\ row2.locked = "free"
       /\ row1.retry = "null"  /\ row2.retry = "due"

Lock(row) == [row EXCEPT !.locked = "held"]

\* unlockEventsTx touches locked rows only.
Unlock(row) == [row EXCEPT !.locked = "free"]

\* insertInvocation also counts the try.
CountTry(row) == [row EXCEPT !.tries = @ + 1]

SetSuccess(row) ==
    [row EXCEPT !.delivered = TRUE, !.retry = "null", !.locked = "free"]

SetErrorInWrongColumn(row) == SetSuccess(row)
SetError(row) ==
    [row EXCEPT !.error = TRUE, !.retry = "null", !.locked = "free"]

SetRetry(row) == [row EXCEPT !.retry = "future", !.locked = "free"]

\* checkEvent: "event is already being processed".
IsBusy(row) == row.locked = "held"

\* markForDelivery leaves next_retry_at, archived and the stale lock alone.
MarkForDelivery(row) ==
    [row EXCEPT !.delivered = FALSE, !.error = FALSE, !.tries = 0]

Archive(row) == [row EXCEPT !.archived = TRUE]

\* A row no fetch will ever return again unless it is redelivered.
IsSettled(row) == row.delivered \/ row.error \/ row.archived

===============================================================================
