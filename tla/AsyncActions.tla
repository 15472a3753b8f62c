----------------------------- MODULE AsyncActions -----------------------------
(*****************************************************************************)
(* Asynchronous actions: a mutation writes a row of hdb_action_log, and the   *)
(* asyncActionsProcessor thread of some instance fetches it, calls the        *)
(* webhook and writes the response                                            *)
(* (server/src-lib/Hasura/GraphQL/Execute/Action.hs, RQL/DDL/Action.hs, the   *)
(* graceful shutdown in App.hs and Control/Concurrent/Extended.hs).           *)
(*                                                                           *)
(* Unlike an event log, the action log has no lock that expires and no start  *)
(* of an instance repairs it: whoever leaves a row 'processing' leaves it so. *)
(*                                                                           *)
(* call[i][id] is what callHandler of instance i does with id:                *)
(*                                                                           *)
(*   fetched   - the row is 'processing', leActionEvents does not list it yet *)
(*   saved     - callHandler runs, the webhook was not called yet             *)
(*   completed, error - the webhook call has ended so, the row does not say so*)
(*   written   - setActionStatus is over, leActionEvents still lists it       *)
(*****************************************************************************)
EXTENDS Naturals, FiniteSets

CONSTANTS
    Instances,      \* graphql-engine processes on one metadata database
    Actions,        \* asynchronous actions, by name
    Ids,            \* action ids that mutations may return
    ActionOf,       \* the action of an id
    FetchLimit,     \* the LIMIT of fetchUndeliveredActionEventsTx
    GracefulPolls,  \* graceful-shutdown-timeout, in polls of 5 seconds
    MaxCrashes,     \* bound: crashes
    MaxShutdowns,   \* bound: graceful shutdowns
    MaxFailures,    \* bound: failed transactions
    MaxOps,         \* bound: commands that drop an action or its data
    MaxDisturbances \* bound: all of these together

ASSUME ActionsAssumption ==
    /\ ActionOf \in [Ids -> Actions]
    /\ FetchLimit \in Nat \ {0}
    /\ GracefulPolls \in Nat
    /\ {MaxCrashes, MaxShutdowns, MaxFailures, MaxOps, MaxDisturbances} \subseteq Nat

VARIABLES
    log,        \* hdb_action_log, by id
    actions,    \* the actions in the metadata
    dropping,   \* actions whose data is cleared, in the metadata still
    cached,     \* cached[i]: the async actions in the schema cache of i
    taken,      \* taken[i]: the actionCache of the iteration of i
    pc,         \* pc[i]: "fetch" until the iteration has fetched its rows
    call,       \* call[i][id]: callHandler of i for id
    locked,     \* locked[i]: leActionEvents
    phase,      \* phase[i]: where i is between start and exit
    thread,     \* thread[i]: threadStateTVar
    polls,      \* polls[i]: what is left of the graceful-shutdown timeout
    toPending,  \* toPending[i]: leActionEvents as the shutdown handler read it
    doubted,    \* history: ids that were put back while a call ran for them
    lost,       \* history: ids that were left 'processing' with nobody at work
    used        \* used[k]: disturbances of kind k so far

rowVars  == <<log, actions, dropping>>
loopVars == <<taken, pc, call, locked>>
shutVars == <<phase, thread, polls, toPending>>
histVars == <<doubted, lost>>
vars == <<log, actions, dropping, cached, taken, pc, call, locked, phase, thread, polls,
          toPending, doubted, lost, used>>

-------------------------------------------------------------------------------
Statuses == {"absent", "created", "processing", "completed", "error", "deleted"}
Row      == [status : Statuses, payload : BOOLEAN, errors : BOOLEAN]
NoRow    == [status |-> "absent", payload |-> FALSE, errors |-> FALSE]

Calls  == {"idle", "fetched", "saved", "completed", "error", "written"}
\* Calls whose end is not in the row yet.
Unwritten == {"fetched", "saved", "completed", "error"}
AtWork(i) == {id \in Ids : call[i][id] \in Unwritten}
NoCalls == [id \in Ids |-> "idle"]

\* A row that fetchActionResponse finds.
Exists(row)    == row.status \notin {"absent", "deleted"}
IsSettled(row) == row.status \in {"completed", "error", "deleted"}

Kinds == {"crash", "shutdown", "failure", "op"}
Bound == [k \in Kinds |-> CASE k = "crash"    -> MaxCrashes
                            [] k = "shutdown" -> MaxShutdowns
                            [] k = "failure"  -> MaxFailures
                            [] k = "op"       -> MaxOps]
Disturb(k) ==
    /\ used[k] < Bound[k]
    /\ used["crash"] + used["shutdown"] + used["failure"] + used["op"] < MaxDisturbances
    /\ used' = [used EXCEPT ![k] = @ + 1]

TypeOK ==
    /\ log \in [Ids -> Row]
    /\ actions \subseteq Actions
    /\ dropping \subseteq Actions
    /\ cached \in [Instances -> SUBSET Actions]
    /\ taken \in [Instances -> SUBSET Actions]
    /\ pc \in [Instances -> {"fetch", "done"}]
    /\ call \in [Instances -> [Ids -> Calls]]
    /\ locked \in [Instances -> SUBSET Ids]
    /\ phase \in [Instances -> {"down", "up", "waiting", "unlocking", "handled"}]
    /\ thread \in [Instances -> {"forked", "initiated", "blocking"}]
    /\ polls \in [Instances -> 0 .. GracefulPolls]
    /\ toPending \in [Instances -> SUBSET Ids]
    /\ doubted \subseteq Ids
    /\ lost \subseteq Ids
    /\ used \in [Kinds -> Nat]

Init ==
    /\ log = [id \in Ids |-> NoRow]
    /\ actions = Actions
    /\ dropping = {}
    /\ cached = [i \in Instances |-> Actions]
    /\ taken = [i \in Instances |-> {}]
    /\ pc = [i \in Instances |-> "done"]
    /\ call = [i \in Instances |-> NoCalls]
    /\ locked = [i \in Instances |-> {}]
    /\ phase = [i \in Instances |-> "up"]
    /\ thread = [i \in Instances |-> "forked"]
    /\ polls = [i \in Instances |-> 0]
    /\ toPending = [i \in Instances |-> {}]
    /\ doubted = {}
    /\ lost = {}
    /\ used = [k \in Kinds |-> 0]

-------------------------------------------------------------------------------
(* resolveActionMutationAsync *)

\* A client calls the mutation on an instance that has the action in its schema.
Insert(i, id) ==
    /\ phase[i] # "down" /\ ActionOf[id] \in cached[i]
    /\ log[id].status = "absent"
    /\ log' = [log EXCEPT ![id].status = "created"]
    /\ UNCHANGED <<actions, dropping, cached, loopVars, shutVars, histVars, used>>

-------------------------------------------------------------------------------
(* asyncActionsProcessor *)

IterationDone(i) == pc[i] = "done" /\ call[i] = NoCalls

\* Mutant: an iteration that finds the cache it knows fetches nothing.
StartIterationOnce(i) ==
    /\ taken' = [taken EXCEPT ![i] = cached[i]]
    /\ pc' = [pc EXCEPT ![i] = IF taken[i] = cached[i] THEN "done" ELSE "fetch"]

\* The iteration takes the schema cache; without async actions it does nothing.
StartIteration(i) ==
    /\ taken' = [taken EXCEPT ![i] = cached[i]]
    /\ pc' = [pc EXCEPT ![i] = IF cached[i] = {} THEN "done" ELSE "fetch"]

NextIteration(i) ==
    /\ phase[i] # "down" /\ thread[i] = "forked"
    /\ IterationDone(i)
    /\ StartIteration(i)
    /\ UNCHANGED <<rowVars, cached, call, locked, shutVars, histVars, used>>

\* The loop that finds ThreadShutdownInitiated writes ThreadBlocking and runs its
\* body once more.
BlockThread(i) ==
    /\ phase[i] # "down" /\ thread[i] = "initiated"
    /\ IterationDone(i)
    /\ thread' = [thread EXCEPT ![i] = "blocking"]
    /\ StartIteration(i)
    /\ UNCHANGED <<rowVars, cached, call, locked, phase, polls, toPending, histVars, used>>

\* Mutant: rows that are being processed are fetched, too.
FetchableInAnyState == {id \in Ids : log[id].status \in {"created", "processing"}}
Fetchable == {id \in Ids : log[id].status = "created"}

\* fetchUndeliveredActionEventsTx
Fetch(i) ==
    /\ pc[i] = "fetch"
    /\ \E S \in SUBSET Fetchable :
        /\ Cardinality(S) <= FetchLimit
        /\ Cardinality(S) < FetchLimit => S = Fetchable
        /\ log' = [id \in Ids |->
                     IF id \in S THEN [log[id] EXCEPT !.status = "processing"] ELSE log[id]]
        /\ call' = [call EXCEPT ![i] = [id \in Ids |-> IF id \in S THEN "fetched" ELSE "idle"]]
    /\ pc' = [pc EXCEPT ![i] = "done"]
    /\ UNCHANGED <<actions, dropping, cached, taken, locked, shutVars, histVars, used>>

\* The transaction fails: the iteration goes on with no rows.
FetchFails(i) ==
    /\ pc[i] = "fetch"
    /\ Disturb("failure")
    /\ pc' = [pc EXCEPT ![i] = "done"]
    /\ UNCHANGED <<rowVars, cached, taken, call, locked, shutVars, histVars>>

SaveLockedEvents(i) ==
    LET S == {id \in Ids : call[i][id] = "fetched"} IN
    /\ S # {}
    /\ locked' = [locked EXCEPT ![i] = @ \cup S]
    /\ call' = [call EXCEPT ![i] = [id \in Ids |-> IF id \in S THEN "saved" ELSE @[id]]]
    /\ UNCHANGED <<rowVars, cached, taken, pc, shutVars, histVars, used>>

\* callHandler returns when the action is not in the cache of the iteration: the
\* row stays 'processing' and leActionEvents keeps the id.
SkipUnknown(i, id) ==
    /\ call[i][id] = "saved"
    /\ ActionOf[id] \notin taken[i]
    /\ call' = [call EXCEPT ![i][id] = "idle"]
    /\ lost' = lost \cup {id}
    /\ UNCHANGED <<rowVars, cached, taken, pc, locked, shutVars, doubted, used>>

CallWebhook(i, id) ==
    /\ call[i][id] = "saved"
    /\ ActionOf[id] \in taken[i]
    /\ \E outcome \in {"completed", "error"} :
           call' = [call EXCEPT ![i][id] = outcome]
    /\ UNCHANGED <<rowVars, cached, taken, pc, locked, shutVars, histVars, used>>

\* Mutant: the columns are set and the status is not.
SetResponseKeepsStatus(row, outcome) ==
    [row EXCEPT !.payload = @ \/ outcome = "completed", !.errors = @ \/ outcome = "error"]

\* setActionStatusTx: the row is updated whatever its status, if there is one.
SetResponse(row, outcome) ==
    IF ~Exists(row) THEN row
    ELSE IF outcome = "completed" THEN [row EXCEPT !.status = outcome, !.payload = TRUE]
                                  ELSE [row EXCEPT !.status = outcome, !.errors = TRUE]

SetActionStatus(i, id) ==
    /\ call[i][id] \in {"completed", "error"}
    /\ log' = [log EXCEPT ![id] = SetResponse(@, call[i][id])]
    /\ call' = [call EXCEPT ![i][id] = "written"]
    /\ UNCHANGED <<actions, dropping, cached, taken, pc, locked, shutVars, histVars, used>>

\* The transaction fails: the error is dropped and the id no longer locked.
SetActionStatusFails(i, id) ==
    /\ call[i][id] \in {"completed", "error"}
    /\ Disturb("failure")
    /\ call' = [call EXCEPT ![i][id] = "written"]
    /\ lost' = lost \cup {id}
    /\ UNCHANGED <<rowVars, cached, taken, pc, locked, shutVars, doubted>>

RemoveLockedEvent(i, id) ==
    /\ call[i][id] = "written"
    /\ locked' = [locked EXCEPT ![i] = @ \ {id}]
    /\ call' = [call EXCEPT ![i][id] = "idle"]
    /\ UNCHANGED <<rowVars, cached, taken, pc, shutVars, histVars, used>>

-------------------------------------------------------------------------------
(* Start, crash and graceful shutdown of an instance *)

\* The process ends, with the calls it is making.
Forget(i) ==
    /\ phase' = [phase EXCEPT ![i] = "down"]
    /\ thread' = [thread EXCEPT ![i] = "forked"]
    /\ polls' = [polls EXCEPT ![i] = 0]
    /\ toPending' = [toPending EXCEPT ![i] = {}]
    /\ taken' = [taken EXCEPT ![i] = {}]
    /\ pc' = [pc EXCEPT ![i] = "done"]
    /\ call' = [call EXCEPT ![i] = NoCalls]
    /\ locked' = [locked EXCEPT ![i] = {}]
    /\ lost' = lost \cup AtWork(i)

Crash(i) ==
    /\ phase[i] # "down"
    /\ Disturb("crash")
    /\ Forget(i)
    /\ UNCHANGED <<rowVars, cached, doubted>>

Start(i) ==
    /\ phase[i] = "down"
    /\ phase' = [phase EXCEPT ![i] = "up"]
    /\ cached' = [cached EXCEPT ![i] = actions]
    /\ UNCHANGED <<rowVars, loopVars, thread, polls, toPending, histVars, used>>

BeginShutdown(i) ==
    /\ phase[i] = "up"
    /\ Disturb("shutdown")
    /\ phase' = [phase EXCEPT ![i] = "waiting"]
    /\ thread' = [thread EXCEPT ![i] = "initiated"]
    /\ polls' = [polls EXCEPT ![i] = GracefulPolls]
    /\ UNCHANGED <<rowVars, cached, loopVars, toPending, histVars>>

\* Mutant: the timeout is not tested before the count.
PollPastTimeout(i) ==
    /\ phase[i] = "waiting"
    /\ polls' = [polls EXCEPT ![i] = @ - 1]
    /\ UNCHANGED <<rowVars, cached, loopVars, phase, thread, toPending, histVars, used>>

\* One round of waitForProcessingAction while the timeout has not run out.
Poll(i) ==
    /\ phase[i] = "waiting" /\ polls[i] > 0
    /\ \/ /\ locked[i] = {}
          /\ phase' = [phase EXCEPT ![i] = "handled"]
          /\ UNCHANGED polls
       \/ /\ locked[i] # {}
          /\ polls' = [polls EXCEPT ![i] = @ - 1]
          /\ UNCHANGED phase
    /\ UNCHANGED <<rowVars, cached, loopVars, thread, toPending, histVars, used>>

\* shutdownAsyncActions reads leActionEvents ...
ReadLocked(i) ==
    /\ phase[i] = "waiting" /\ polls[i] = 0
    /\ phase' = [phase EXCEPT ![i] = "unlocking"]
    /\ toPending' = [toPending EXCEPT ![i] = locked[i]]
    /\ UNCHANGED <<rowVars, cached, loopVars, thread, polls, histVars, used>>

\* Mutant: WHERE status = 'processing' is forgotten.
SetPendingWhateverStatus(row) ==
    IF Exists(row) THEN [row EXCEPT !.status = "created"] ELSE row

\* ... and setProcessingActionLogsToPendingTx puts back what is in it.
SetPending(row) ==
    IF row.status = "processing" THEN [row EXCEPT !.status = "created"] ELSE row

PutBack(i) ==
    /\ phase[i] = "unlocking"
    /\ log' = [id \in Ids |-> IF id \in toPending[i] THEN SetPending(log[id]) ELSE log[id]]
    /\ doubted' = doubted \cup
            {id \in toPending[i] : /\ log[id].status = "processing"
                                   /\ \E j \in Instances : id \in AtWork(j)}
    /\ phase' = [phase EXCEPT ![i] = "handled"]
    /\ UNCHANGED <<actions, dropping, cached, loopVars, thread, polls, toPending, lost, used>>

\* The transaction fails: a warning is logged.
PutBackFails(i) ==
    /\ phase[i] = "unlocking"
    /\ Disturb("failure")
    /\ phase' = [phase EXCEPT ![i] = "handled"]
    /\ UNCHANGED <<rowVars, cached, loopVars, thread, polls, toPending, histVars>>

\* The handler has returned and the loop said that it blocks: the thread is
\* stopped and the process exits, in the middle of the last iteration or not.
StopThread(i) ==
    /\ phase[i] = "handled" /\ thread[i] = "blocking"
    /\ Forget(i)
    /\ UNCHANGED <<rowVars, cached, doubted, used>>

-------------------------------------------------------------------------------
(* Commands and the schema sync *)

\* runDropAction clears the data in a transaction of its own, before the metadata
\* without the action is written.
ClearActionData(a) ==
    /\ a \in actions \ dropping
    /\ Disturb("op")
    /\ log' = [id \in Ids |-> IF ActionOf[id] = a /\ Exists(log[id])
                              THEN [NoRow EXCEPT !.status = "deleted"] ELSE log[id]]
    /\ dropping' = dropping \cup {a}
    /\ UNCHANGED <<actions, cached, loopVars, shutVars, histVars>>

\* The metadata without the action is written, data cleared (a \in dropping) or
\* retained.
DropAction(a) ==
    /\ a \in actions
    /\ \/ a \in dropping /\ UNCHANGED used
       \/ a \notin dropping /\ Disturb("op")
    /\ actions' = actions \ {a}
    /\ dropping' = dropping \ {a}
    /\ UNCHANGED <<log, cached, loopVars, shutVars, histVars>>

\* The metadata cannot be written: the data stays cleared.
DropActionFails(a) ==
    /\ a \in dropping
    /\ Disturb("failure")
    /\ dropping' = dropping \ {a}
    /\ UNCHANGED <<log, actions, cached, loopVars, shutVars, histVars>>

CreateAction(a) ==
    /\ a \notin actions
    /\ actions' = actions \cup {a}
    /\ UNCHANGED <<log, dropping, cached, loopVars, shutVars, histVars, used>>

\* The schema cache of i catches up with the metadata.
SyncCache(i) ==
    /\ phase[i] # "down" /\ cached[i] # actions
    /\ cached' = [cached EXCEPT ![i] = actions]
    /\ UNCHANGED <<rowVars, loopVars, shutVars, histVars, used>>

-------------------------------------------------------------------------------
CallStep(i, id) ==
    \/ SkipUnknown(i, id) \/ CallWebhook(i, id)
    \/ SetActionStatus(i, id) \/ SetActionStatusFails(i, id)
    \/ RemoveLockedEvent(i, id)

InstanceStep(i) ==
    \/ NextIteration(i) \/ BlockThread(i)
    \/ Fetch(i) \/ FetchFails(i) \/ SaveLockedEvents(i)
    \/ Crash(i) \/ Start(i)
    \/ BeginShutdown(i) \/ Poll(i) \/ ReadLocked(i) \/ PutBack(i) \/ PutBackFails(i)
    \/ StopThread(i) \/ SyncCache(i)
    \/ \E id \in Ids : Insert(i, id) \/ CallStep(i, id)

CommandStep(a) ==
    ClearActionData(a) \/ DropAction(a) \/ DropActionFails(a) \/ CreateAction(a)

Next ==
    \/ \E i \in Instances : InstanceStep(i)
    \/ \E a \in Actions : CommandStep(a)

Spec == Init /\ [][Next]_vars

\* Threads run, webhooks answer or time out, the schema sync polls, a process that
\* is down is started again.  Nothing is assumed of faults, clients and commands.
Fairness ==
    \A i \in Instances :
        /\ WF_vars(NextIteration(i)) /\ WF_vars(BlockThread(i))
        /\ WF_vars(Fetch(i)) /\ WF_vars(SaveLockedEvents(i))
        /\ WF_vars(Start(i)) /\ WF_vars(SyncCache(i))
        /\ WF_vars(Poll(i)) /\ WF_vars(ReadLocked(i)) /\ WF_vars(PutBack(i))
        /\ WF_vars(StopThread(i))
        /\ \A id \in Ids : /\ WF_vars(SkipUnknown(i, id)) /\ WF_vars(CallWebhook(i, id))
                           /\ WF_vars(SetActionStatus(i, id))
                           /\ WF_vars(RemoveLockedEvent(i, id))

FairSpec == Spec /\ Fairness

-------------------------------------------------------------------------------
(* Properties *)

\* The webhook of an action id is not called by two instances at a time, and its
\* row says 'processing' (or was deleted) as long as a call is under way, unless
\* a shutdown put the row back under a running call.
ExclusiveUnlessPutBack ==
    \A id \in Ids \ doubted : \A i, j \in Instances :
        id \in AtWork(i) =>
            /\ log[id].status \in {"processing", "deleted"}
            /\ id \in AtWork(j) => i = j

\* A client never finds both a response and errors, unless a shutdown put the row
\* back under a running call, whose answer then comes second.
OneResponseUnlessPutBack ==
    \A id \in Ids \ doubted : ~(log[id].payload /\ log[id].errors)

\* A row that says 'processing' has a call under way, in some instance, until a
\* crash, a failed write, an unknown action or the end of a process took it away:
\* no interleaving of fetch, shutdown and clearing loses one otherwise.
ProcessingIsAttended ==
    \A id \in Ids \ lost :
        log[id].status = "processing" => \E i \in Instances : id \in AtWork(i)

\* An action that was accepted while its action is defined is answered, cleared, or
\* left over by one of the events that lost records.
EveryActionAnswered ==
    \A id \in Ids :
        log[id].status = "created" ~>
            IsSettled(log[id]) \/ id \in lost \/ ActionOf[id] \notin actions

ResponsesOf(row) == {c \in {"response_payload"} : row.payload} \cup {c \in {"errors"} : row.errors}

Promise == INSTANCE ActionResponses
               WITH open <- {id \in Ids : log[id].status \in {"created", "processing"}},
                    responses <- [id \in Ids |-> ResponsesOf(log[id])]

\* What clients see of the log is what ActionResponses allows: a late answer, a
\* shutdown or a second fetch never takes an answer back or reopens an action.
ImplementsResponses == Promise!Spec

===============================================================================
