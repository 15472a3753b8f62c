---------------------------- MODULE EventTriggers -----------------------------
(*****************************************************************************)
(* Delivery of event triggers by several graphql-engine instances that share *)
(* the event logs of their sources                                           *)
(* (server/src-lib/Hasura/Eventing/EventTrigger.hs, the statements in        *)
(* Backends/Postgres/DDL/EventTrigger.hs, the graceful shutdown in App.hs and *)
(* Control/Concurrent/Extended.hs).                                           *)
(*                                                                           *)
(* An instance holds copies of fetched rows.  A copy goes through the stages  *)
(*                                                                           *)
(*   popped   - fetched and locked by popEventsBatch, not yet in leEvents     *)
(*   next     - part of the prefetched batch                                  *)
(*   batch    - part of the batch that go is handing to workers               *)
(*   forked   - a processEvent thread has it                                  *)
(*   answered - the webhook was called (or could not be), not yet recorded    *)
(*   recorded - the outcome is in the database, leEvents still lists it       *)
(*                                                                           *)
(* Between any two of these the instance can crash, the 30 minutes of the     *)
(* lock can pass, or another instance, a user or a shutdown can touch the row.*)
(*****************************************************************************)
EXTENDS EventLog, FiniteSets

CONSTANTS
    Instances,        \* graphql-engine processes on the same sources
    Sources,          \* source databases with an event log each
    Triggers,         \* event trigger names
    Events,           \* rows that may be inserted
    Gens,             \* bound: copies of one row that one instance may hold
    SourceOf,         \* the source of a trigger
    TriggerOf,        \* the trigger of an event
    NumRetries,       \* rcNumRetries
    BatchSize,        \* HASURA_GRAPHQL_EVENTS_FETCH_BATCH_SIZE
    HttpPoolSize,     \* HASURA_GRAPHQL_EVENTS_HTTP_POOL_SIZE
    GracefulPolls,    \* graceful-shutdown-timeout, in polls of 5 seconds
    Untransformable,  \* events whose request transformation fails
    Throttled,        \* events whose webhook may answer with Retry-After
    TriesCap,         \* bound: no Retry-After is sent from this try on
    MaxFaults,        \* bound: crashes, shutdowns and failed transactions
    MaxOps,           \* bound: redeliveries and dropped triggers
    MaxDisturbances   \* bound: faults and operations together

ASSUME ConstantsAssumption ==
    /\ SourceOf \in [Triggers -> Sources]
    /\ TriggerOf \in [Events -> Triggers]
    /\ NumRetries \in Nat
    /\ BatchSize \in Nat \ {0}
    /\ HttpPoolSize \in Nat \ {0}
    /\ GracefulPolls \in Nat
    /\ TriesCap \in Nat
    /\ MaxFaults \in Nat
    /\ MaxOps \in Nat
    /\ MaxDisturbances \in Nat

VARIABLES
    log,        \* the event_log rows, by event
    inserted,   \* the events that have a row
    triggers,   \* the triggers in the metadata (and their SQL triggers)
    cached,     \* cached[i]: the triggers in the schema cache of i
    phase,      \* phase[i]: where i is between start and exit
    thread,     \* thread[i]: threadStateTVar of the processEventQueue thread
    pop,        \* pop[i][s]: how far popEventsBatch is with source s
    copy,       \* copy[<<i, e, g>>]: a copy of row e in the memory of i
    capacity,   \* capacity[i]: _eeCtxEventThreadsCapacity
    leEvents,   \* leEvents[i][s]: {} (not a key) or {ids} (Just ids)
    polls,      \* polls[i]: what is left of the graceful-shutdown timeout
    toUnlock,   \* toUnlock[i][s]: events the shutdown has yet to unlock
    redelivering, \* events whose redelivery has passed its check
    accepted,   \* history: events some webhook answered with a 2xx
    doubted,    \* history: events that were unlocked or reset
                \* while a copy of them was being processed
    faults,     \* number of faults so far
    ops         \* number of user operations so far

dbVars     == <<log, inserted, triggers>>
loopVars   == <<thread, pop>>
shutVars   == <<phase, polls, toUnlock>>
histVars   == <<accepted, doubted>>
budgetVars == <<faults, ops>>
vars == <<log, inserted, triggers, cached, phase, thread, pop, copy, capacity,
          leEvents, polls, toUnlock, redelivering, accepted, doubted, faults,
          ops>>

-------------------------------------------------------------------------------
Copies == Instances \X Events \X Gens

Stages   == {"idle", "popped", "next", "batch", "forked", "answered", "recorded"}
Outcomes == {"none", "accepted", "failed", "retryAfter", "untransformable", "missing"}
Copy     == [stage : Stages, tries : Nat, outcome : Outcomes]
NoCopy   == [stage |-> "idle", tries |-> 0, outcome |-> "none"]

EventSource(e) == SourceOf[TriggerOf[e]]

\* Stages in which the outcome of the copy is not in the database yet.
Unrecorded == {"popped", "next", "batch", "forked", "answered"}
InFlight(e) == {c \in Copies : c[2] = e /\ copy[c].stage \in Unrecorded}

\* Stages in which a processEvent thread exists.
Working == {"forked", "answered", "recorded"}
Workers(i) == {c \in Copies : c[1] = i /\ copy[c].stage \in Working}

CopiesOf(i, stage) == {c \in Copies : c[1] = i /\ copy[c].stage = stage}

\* The events of a source with a copy that popEventsBatch has not saved yet.
PoppedEvents(i, s) ==
    {e \in Events : EventSource(e) = s /\
                    \E g \in Gens : copy[<<i, e, g>>].stage = "popped"}

FreeGens(i, e) == {g \in Gens : copy[<<i, e, g>>] = NoCopy}

\* Maybe, the result of a HashMap lookup: Nothing is {}, Just x is {x}.
Maybe(S) == {{}} \cup {{x} : x \in S}

TypeOK ==
    /\ log \in [Events -> Row]
    /\ inserted \subseteq Events
    /\ triggers \subseteq Triggers
    /\ cached \in [Instances -> SUBSET Triggers]
    /\ phase \in [Instances -> {"down", "up", "waiting", "unlocking", "handled"}]
    /\ thread \in [Instances -> {"forked", "initiated", "blocking"}]
    /\ pop \in [Instances -> [Sources -> {"todo", "fetched", "done"}]]
    /\ copy \in [Copies -> Copy]
    /\ capacity \in [Instances -> Nat]
    /\ leEvents \in [Instances -> [Sources -> Maybe(SUBSET Events)]]
    /\ polls \in [Instances -> 0 .. GracefulPolls]
    /\ toUnlock \in [Instances -> [Sources -> SUBSET Events]]
    /\ redelivering \subseteq Events
    /\ accepted \subseteq Events
    /\ doubted \subseteq Events
    /\ faults \in 0 .. MaxFaults
    /\ ops \in 0 .. MaxOps

NoEntries == [s \in Sources |-> {}]

Init ==
    /\ log = [e \in Events |-> FreshRow]
    /\ inserted = {}
    /\ triggers = Triggers
    /\ cached = [i \in Instances |-> Triggers]
    /\ phase = [i \in Instances |-> "up"]
    /\ thread = [i \in Instances |-> "forked"]
    /\ pop = [i \in Instances |-> [s \in Sources |-> "todo"]]
    /\ copy = [c \in Copies |-> NoCopy]
    /\ capacity = [i \in Instances |-> HttpPoolSize]
    /\ leEvents = [i \in Instances |-> NoEntries]
    /\ polls = [i \in Instances |-> 0]
    /\ toUnlock = [i \in Instances |-> NoEntries]
    /\ redelivering = {}
    /\ accepted = {}
    /\ doubted = {}
    /\ faults = 0
    /\ ops = 0

\* A fault or a user operation takes place, within its bound.
Fault == faults < MaxFaults /\ faults + ops < MaxDisturbances /\ faults' = faults + 1
Op    == ops < MaxOps /\ faults + ops < MaxDisturbances /\ ops' = ops + 1

--------------------------------------------------------------------------------
(* popEventsBatch *)

\* The rows one fetch of source s may return to instance i.
Fetchable(i, s) ==
    {e \in inserted : /\ EventSource(e) = s
                      /\ TriggerOf[e] \in cached[i]
                      /\ IsFetchable(log[e])}

\* LIMIT and ORDER BY.
IsBatch(S, candidates) ==
    /\ S \subseteq candidates
    /\ \/ S = candidates /\ Cardinality(S) <= BatchSize
       \/ Cardinality(S) = BatchSize
    /\ \A e \in S, f \in candidates \ S : ~FetchedBefore(log[f], log[e])

\* fetchUndeliveredEvents on one source commits.  With no trigger in the cache
\* nothing is fetched, which is the case S = {}.
FetchEvents(i, s) ==
    /\ phase[i] # "down"
    /\ pop[i][s] = "todo"
    /\ \E S \in SUBSET Fetchable(i, s) :
        /\ IsBatch(S, Fetchable(i, s))
        /\ log' = [e \in Events |-> IF e \in S THEN Lock(log[e]) ELSE log[e]]
        /\ \E gen \in [S -> Gens] :
            /\ \A e \in S : gen[e] \in FreeGens(i, e)
            /\ copy' = [c \in Copies |->
                          IF c[1] = i /\ c[2] \in S /\ c[3] = gen[c[2]]
                          THEN [NoCopy EXCEPT !.stage = "popped", !.tries = log[c[2]].tries]
                          ELSE copy[c]]
        /\ pop' = [pop EXCEPT ![i][s] = IF S = {} THEN "done" ELSE "fetched"]
    /\ UNCHANGED <<redelivering, inserted, triggers, cached, thread, capacity, leEvents,
                   shutVars, histVars, budgetVars>>

\* The transaction fails: the error is logged and the batch has no events.
FetchEventsFails(i, s) ==
    /\ phase[i] # "down"
    /\ pop[i][s] = "todo"
    /\ Fault
    /\ pop' = [pop EXCEPT ![i][s] = "done"]
    /\ UNCHANGED <<redelivering, dbVars, cached, thread, copy, capacity, leEvents, shutVars,
                   histVars, ops>>

\* The locked-events map after saveLockedEventTriggerEvents.  When the source is
\* not a key yet, the new map is a singleton.
WithLockedEvents(entries, s, ids) ==
    IF entries[s] = {}
    THEN [NoEntries EXCEPT ![s] = {ids}]
    ELSE [entries EXCEPT ![s] = {old \cup ids : old \in entries[s]}]

SaveLockedEvents(i, s) ==
    /\ pop[i][s] = "fetched"
    /\ leEvents' = [leEvents EXCEPT ![i] = WithLockedEvents(@, s, PoppedEvents(i, s))]
    /\ copy' = [c \in Copies |->
                  IF c[1] = i /\ EventSource(c[2]) = s /\ copy[c].stage = "popped"
                  THEN [copy[c] EXCEPT !.stage = "next"]
                  ELSE copy[c]]
    /\ pop' = [pop EXCEPT ![i][s] = "done"]
    /\ UNCHANGED <<redelivering, dbVars, cached, thread, capacity, shutVars, histVars, budgetVars>>

-------------------------------------------------------------------------------
(* go and the loop around it *)

\* Every event of the batch has its worker and the next batch is there.
IterationDone(i) ==
    /\ CopiesOf(i, "batch") = {}
    /\ \A s \in Sources : pop[i][s] = "done"

\* go is applied to the prefetched batch and starts the next popEventsBatch.
StartIteration(i) ==
    /\ copy' = [c \in Copies |->
                  IF c[1] = i /\ copy[c].stage = "next"
                  THEN [copy[c] EXCEPT !.stage = "batch"]
                  ELSE copy[c]]
    /\ pop' = [pop EXCEPT ![i] = [s \in Sources |-> "todo"]]

NextIteration(i) ==
    /\ phase[i] # "down" /\ thread[i] = "forked"
    /\ IterationDone(i)
    /\ StartIteration(i)
    /\ UNCHANGED <<redelivering, dbVars, cached, thread, capacity, leEvents, shutVars, histVars,
                   budgetVars>>

\* The loop finds that a shutdown was initiated and says that it is blocking, but
\* the transaction that says so also lets it pass: it runs one more iteration
\* and blocks before the one after that.
BlockThread(i) ==
    /\ phase[i] # "down" /\ thread[i] = "initiated"
    /\ IterationDone(i)
    /\ thread' = [thread EXCEPT ![i] = "blocking"]
    /\ StartIteration(i)
    /\ UNCHANGED <<redelivering, dbVars, cached, capacity, leEvents, shutVars,
                   histVars, budgetVars>>

\* The two ends of the bracket around a processEvent thread.
TakeCapacityUnchecked(i) == capacity' = [capacity EXCEPT ![i] = @ - 1]
TakeCapacity(i) ==
    /\ capacity[i] > 0
    /\ capacity' = [capacity EXCEPT ![i] = @ - 1]

LeakCapacity(i)    == UNCHANGED capacity
RestoreCapacity(i) == capacity' = [capacity EXCEPT ![i] = @ + 1]

\* go waits until a worker may be forked, takes the capacity and forks it.
ForkWorker(c) ==
    /\ copy[c].stage = "batch"
    /\ TakeCapacity(c[1])
    /\ copy' = [copy EXCEPT ![c].stage = "forked"]
    /\ UNCHANGED <<redelivering, dbVars, cached, loopVars, leEvents, shutVars, histVars, budgetVars>>

-------------------------------------------------------------------------------
(* processEvent *)

\* How an attempt at the event may end.
PossibleOutcomes(i, e, tries) ==
    CASE TriggerOf[e] \notin cached[i] -> {"missing"}
      [] TriggerOf[e] \in cached[i] /\ e \in Untransformable -> {"untransformable"}
      [] OTHER -> {"accepted", "failed"} \cup
                  {o \in {"retryAfter"} : e \in Throttled /\ tries < TriesCap}

\* The trigger is looked up in the cache, the request is built and the webhook
\* is called; the request may have had its effect whatever comes back.
Attempt(c) ==
    /\ copy[c].stage = "forked"
    /\ \E outcome \in PossibleOutcomes(c[1], c[2], copy[c].tries) :
        /\ copy' = [copy EXCEPT ![c].stage = "answered", ![c].outcome = outcome]
        /\ accepted' = IF outcome = "accepted" THEN accepted \cup {c[2]} ELSE accepted
    /\ UNCHANGED <<redelivering, dbVars, cached, loopVars, capacity, leEvents, shutVars, doubted,
                   budgetVars>>

\* retryOrSetError decides with the tries of the fetched copy.
TriesExhaustedLate(tries)  == tries > NumRetries
TriesExhausted(tries) == tries >= NumRetries

\* What the transaction that ends the processing writes to the row: setRetry
\* when the trigger is gone, recordSuccess, recordError or recordError'.
RecordOutcome(row, c) ==
    CASE c.outcome = "missing"         -> SetRetry(row)
      [] c.outcome = "accepted"        -> SetSuccess(CountTry(row))
      [] c.outcome = "untransformable" -> SetError(row)
      [] c.outcome = "retryAfter"      -> SetRetry(CountTry(row))
      [] OTHER -> IF TriesExhausted(c.tries) THEN SetError(CountTry(row))
                                             ELSE SetRetry(CountTry(row))

Record(c) ==
    /\ copy[c].stage = "answered"
    /\ log' = [log EXCEPT ![c[2]] = RecordOutcome(@, copy[c])]
    /\ copy' = [copy EXCEPT ![c].stage = "recorded"]
    /\ UNCHANGED <<redelivering, inserted, triggers, cached, loopVars, capacity, leEvents,
                   shutVars, histVars, budgetVars>>

\* The transaction fails: the error is logged and the row stays as it is.
RecordFails(c) ==
    /\ copy[c].stage = "answered"
    /\ Fault
    /\ copy' = [copy EXCEPT ![c].stage = "recorded"]
    /\ UNCHANGED <<redelivering, dbVars, cached, loopVars, capacity, leEvents, shutVars,
                   histVars, ops>>

\* removeEventTriggerEventFromLockedEvents, then restoreCapacity in the finally.
FinishWorker(c) ==
    /\ copy[c].stage = "recorded"
    /\ LET s == EventSource(c[2]) IN
       leEvents' = [leEvents EXCEPT ![c[1]][s] = {ids \ {c[2]} : ids \in @}]
    /\ RestoreCapacity(c[1])
    /\ copy' = [copy EXCEPT ![c] = NoCopy]
    /\ UNCHANGED <<redelivering, dbVars, cached, loopVars, shutVars, histVars, budgetVars>>

-------------------------------------------------------------------------------
(* Start, graceful shutdown and crash of an instance *)

\* What a process that is not running has in memory.
Forget(i) ==
    /\ phase' = [phase EXCEPT ![i] = "down"]
    /\ thread' = [thread EXCEPT ![i] = "forked"]
    /\ pop' = [pop EXCEPT ![i] = [s \in Sources |-> "todo"]]
    /\ copy' = [c \in Copies |-> IF c[1] = i THEN NoCopy ELSE copy[c]]
    /\ capacity' = [capacity EXCEPT ![i] = HttpPoolSize]
    /\ leEvents' = [leEvents EXCEPT ![i] = NoEntries]
    /\ polls' = [polls EXCEPT ![i] = 0]
    /\ toUnlock' = [toUnlock EXCEPT ![i] = NoEntries]

Crash(i) ==
    /\ phase[i] # "down"
    /\ Fault
    /\ Forget(i)
    /\ UNCHANGED <<redelivering, dbVars, cached, histVars, ops>>

\* The schema cache is built from the metadata and the poller thread forked.
Start(i) ==
    /\ phase[i] = "down"
    /\ phase' = [phase EXCEPT ![i] = "up"]
    /\ cached' = [cached EXCEPT ![i] = triggers]
    /\ UNCHANGED <<redelivering, dbVars, loopVars, copy, capacity, leEvents, polls, toUnlock,
                   histVars, budgetVars>>

\* The finalizer of forkManagedTWithGracefulShutdown runs.
BeginShutdown(i) ==
    /\ phase[i] = "up"
    /\ Fault
    /\ phase' = [phase EXCEPT ![i] = "waiting"]
    /\ thread' = [thread EXCEPT ![i] = "initiated"]
    /\ polls' = [polls EXCEPT ![i] = GracefulPolls]
    /\ UNCHANGED <<redelivering, dbVars, cached, pop, copy, capacity, leEvents, toUnlock,
                   histVars, ops>>

\* processingEventsCountAction: length of the HashMap, the number of its keys.
ProcessingEventsCount(i) == Cardinality({s \in Sources : leEvents[i][s] # {}})

\* One poll of waitForProcessingAction while the timeout has not run out.  With
\* nothing in flight it returns, and nothing is unlocked.
Poll(i) ==
    /\ phase[i] = "waiting" /\ polls[i] > 0
    /\ \/ /\ ProcessingEventsCount(i) = 0
          /\ phase' = [phase EXCEPT ![i] = "handled"]
          /\ UNCHANGED polls
       \/ /\ ProcessingEventsCount(i) # 0
          /\ polls' = [polls EXCEPT ![i] = @ - 1]
          /\ UNCHANGED phase
    /\ UNCHANGED <<redelivering, dbVars, cached, loopVars, copy, capacity, leEvents, toUnlock,
                   histVars, budgetVars>>

\* The timeout has run out: shutdownEventTriggerEvents reads leEvents once.
StartUnlocking(i) ==
    /\ phase[i] = "waiting" /\ polls[i] = 0
    /\ phase' = [phase EXCEPT ![i] = "unlocking"]
    /\ toUnlock' = [toUnlock EXCEPT ![i] = [s \in Sources |-> UNION leEvents[i][s]]]
    /\ UNCHANGED <<redelivering, dbVars, cached, loopVars, copy, capacity, leEvents, polls,
                   histVars, budgetVars>>

\* unlockEventsInSource for the next source.
UnlockSource(i, s) ==
    /\ phase[i] = "unlocking" /\ toUnlock[i][s] # {}
    /\ log' = [e \in Events |-> IF e \in toUnlock[i][s] THEN Unlock(log[e]) ELSE log[e]]
    /\ doubted' = doubted \cup
            {e \in toUnlock[i][s] : log[e].locked = "held" /\ InFlight(e) # {}}
    /\ toUnlock' = [toUnlock EXCEPT ![i][s] = {}]
    /\ UNCHANGED <<redelivering, inserted, triggers, cached, loopVars, copy, capacity, leEvents,
                   phase, polls, accepted, budgetVars>>

\* The transaction fails: a warning is logged.
UnlockSourceFails(i, s) ==
    /\ phase[i] = "unlocking" /\ toUnlock[i][s] # {}
    /\ Fault
    /\ toUnlock' = [toUnlock EXCEPT ![i][s] = {}]
    /\ UNCHANGED <<redelivering, dbVars, cached, loopVars, copy, capacity, leEvents, phase, polls,
                   histVars, ops>>

\* The shutdown handler has returned and the loop has said that it blocks: the
\* thread is stopped and the process exits, with the workers that still run.
StopThread(i) ==
    /\ \/ phase[i] = "handled"
       \/ phase[i] = "unlocking" /\ toUnlock[i] = NoEntries
    /\ thread[i] = "blocking"
    /\ Forget(i)
    /\ UNCHANGED <<redelivering, dbVars, cached, histVars, budgetVars>>

-------------------------------------------------------------------------------
(* Users, the schema sync and the clock *)

\* A data change fires the SQL trigger.
InsertEvent(e) ==
    /\ e \notin inserted
    /\ TriggerOf[e] \in triggers
    /\ inserted' = inserted \cup {e}
    /\ UNCHANGED <<redelivering, log, triggers, cached, loopVars, copy, capacity, leEvents,
                   shutVars, histVars, budgetVars>>

\* redeliverEventTx reads the lock and resets the row in two statements of one
\* transaction; in READ COMMITTED others may commit in between.
CheckEvent(e) ==
    /\ e \in inserted \ redelivering
    /\ ~IsBusy(log[e])
    /\ Op
    /\ redelivering' = redelivering \cup {e}
    /\ UNCHANGED <<dbVars, cached, loopVars, copy, capacity, leEvents, shutVars,
                   histVars, faults>>

MarkForRedelivery(e) ==
    /\ e \in redelivering
    /\ redelivering' = redelivering \ {e}
    /\ log' = [log EXCEPT ![e] = MarkForDelivery(@)]
    /\ doubted' = IF InFlight(e) # {} THEN doubted \cup {e} ELSE doubted
    /\ UNCHANGED <<inserted, triggers, cached, loopVars, copy, capacity, leEvents,
                   shutVars, accepted, budgetVars>>

\* dropTriggerAndArchiveEvents
DropTrigger(t) ==
    /\ t \in triggers
    /\ Op
    /\ triggers' = triggers \ {t}
    /\ log' = [e \in Events |-> IF e \in inserted /\ TriggerOf[e] = t
                                THEN Archive(log[e]) ELSE log[e]]
    /\ UNCHANGED <<redelivering, inserted, cached, loopVars, copy, capacity, leEvents, shutVars,
                   histVars, faults>>

\* A dropped trigger is created again; that is bounded with the drops.
CreateTrigger(t) ==
    /\ t \notin triggers
    /\ triggers' = triggers \cup {t}
    /\ UNCHANGED <<redelivering, log, inserted, cached, loopVars, copy, capacity, leEvents,
                   shutVars, histVars, budgetVars>>

\* The schema cache of i catches up with the metadata.
SyncCache(i) ==
    /\ phase[i] # "down"
    /\ cached[i] # triggers
    /\ cached' = [cached EXCEPT ![i] = triggers]
    /\ UNCHANGED <<redelivering, dbVars, loopVars, copy, capacity, leEvents, shutVars, histVars,
                   budgetVars>>

\* 30 minutes have passed since the row was locked.
LockExpires(e) ==
    /\ log[e].locked = "held"
    /\ log' = [log EXCEPT ![e].locked = "stale"]
    /\ doubted' = IF InFlight(e) # {} THEN doubted \cup {e} ELSE doubted
    /\ UNCHANGED <<redelivering, inserted, triggers, cached, loopVars, copy, capacity, leEvents,
                   shutVars, accepted, budgetVars>>

\* The retry time of the row has come.
RetryDue(e) ==
    /\ log[e].retry = "future"
    /\ log' = [log EXCEPT ![e].retry = "due"]
    /\ UNCHANGED <<redelivering, inserted, triggers, cached, loopVars, copy, capacity, leEvents,
                   shutVars, histVars, budgetVars>>

-------------------------------------------------------------------------------
InstanceStep(i) ==
    \/ \E s \in Sources : \/ FetchEvents(i, s) \/ FetchEventsFails(i, s)
                          \/ SaveLockedEvents(i, s)
                          \/ UnlockSource(i, s) \/ UnlockSourceFails(i, s)
    \/ NextIteration(i) \/ BlockThread(i)
    \/ Start(i) \/ Crash(i)
    \/ BeginShutdown(i) \/ Poll(i) \/ StartUnlocking(i) \/ StopThread(i)
    \/ SyncCache(i)

WorkerStep(c) ==
    ForkWorker(c) \/ Attempt(c) \/ Record(c) \/ RecordFails(c) \/ FinishWorker(c)

EnvironmentStep ==
    \/ \E e \in Events : InsertEvent(e) \/ CheckEvent(e) \/ MarkForRedelivery(e)
                         \/ LockExpires(e) \/ RetryDue(e)
    \/ \E t \in Triggers : DropTrigger(t) \/ CreateTrigger(t)

Next ==
    \/ \E i \in Instances : InstanceStep(i)
    \/ \E c \in Copies : WorkerStep(c)
    \/ EnvironmentStep

Spec == Init /\ [][Next]_vars

\* The threads of a process run, HTTP requests time out, the clock advances, the
\* schema sync polls, and an instance that is down is started again.  Nothing
\* is assumed of faults and users.
Fairness ==
    /\ \A i \in Instances :
        /\ WF_vars(NextIteration(i)) /\ WF_vars(BlockThread(i))
        /\ WF_vars(Start(i)) /\ WF_vars(Poll(i))
        /\ WF_vars(StartUnlocking(i)) /\ WF_vars(StopThread(i))
        /\ WF_vars(SyncCache(i))
        /\ \A s \in Sources : /\ WF_vars(FetchEvents(i, s))
                              /\ WF_vars(SaveLockedEvents(i, s))
                              /\ WF_vars(UnlockSource(i, s))
    /\ \A c \in Copies :
        /\ WF_vars(ForkWorker(c)) /\ WF_vars(Attempt(c))
        /\ WF_vars(Record(c)) /\ WF_vars(FinishWorker(c))
    /\ \A e \in Events : WF_vars(LockExpires(e)) /\ WF_vars(RetryDue(e))

FairSpec == Spec /\ Fairness

-------------------------------------------------------------------------------
(* Properties *)

\* An event whose lock was never lost while a copy of it was being processed has
\* at most one copy that is not recorded yet, in all instances together, and
\* the row is locked while there is one: no two webhook calls overlap.
ExclusiveUnlessDoubted ==
    \A e \in Events \ doubted :
        /\ Cardinality(InFlight(e)) <= 1
        /\ InFlight(e) # {} => log[e].locked = "held"

\* Two outcomes are recorded for one row (delivered by one worker, failed by
\* another) only if the lock was lost in between.
OneOutcomeUnlessDoubted ==
    \A e \in Events \ doubted : ~(log[e].delivered /\ log[e].error)

\* An event ends in error only when its retries are used up, whatever crashes,
\* redeliveries and dropped triggers happened in between.
ErrorMeansExhausted ==
    \A e \in Events \ (doubted \cup Untransformable) :
        log[e].error => log[e].tries > NumRetries

\* current_try = tries + 1, allowed_total_tries = rcNumRetries retryConf + 1: no
\* event is tried more often, as long as no Retry-After header prolongs it.
TriesBounded ==
    \A e \in Events \ (doubted \cup Throttled) : log[e].tries <= NumRetries + 1

\* retryOrSetError decides with the tries of a copy that may be as old as a lock, and
\* shutdowns, redeliveries and dropped triggers write to the row beside it: retries
\* are neither cut short nor exceeded.
RetriesRight == ErrorMeansExhausted /\ TriesBounded

\* At-least-once: a row is marked delivered only if a webhook accepted it.
DeliveredWasAccepted == \A e \in Events : log[e].delivered => e \in accepted

\* recordSuccess and recordError write to the row without looking at it, by workers of
\* any age: what the row says of the event is what happened, and one thing.
OutcomesRight == OneOutcomeUnlessDoubted /\ DeliveredWasAccepted

\* _eeCtxEventThreadsCapacity and the processEvent threads add up to the HTTP
\* pool size at all times, across restarts and failed transactions.
CapacityConserved ==
    \A i \in Instances : capacity[i] + Cardinality(Workers(i)) = HttpPoolSize

\* Every event is delivered, fails for good or is archived, in spite of crashes,
\* shutdowns and failed transactions; the expiry of the lock is what saves it.
EveryEventSettles ==
    \A e \in Events : e \in inserted ~> IsSettled(log[e])

\* A graceful shutdown comes to its end.
ShutdownCompletes ==
    \A i \in Instances : phase[i] = "waiting" ~> phase[i] = "down"

\* Eventing/Common.hs: "After the events are fetched from the DB, we store the
\* locked events", so that a shutdown can unlock what is still in flight.
InFlightEventsTracked ==
    \A c \in Copies :
        copy[c].stage \in {"next", "batch", "forked", "answered"}
            => c[2] \in UNION leEvents[c[1]][EventSource(c[2])]

\* What a row and a copy are to the queue.
RowStatus(row) ==
    IF row.archived THEN "withdrawn"
    ELSE IF row.delivered THEN "delivered" ELSE IF row.error THEN "failed" ELSE "open"
CopyClaim(c) ==
    CASE c.stage \in {"idle", "recorded"} -> "none"
      [] c.stage = "answered" -> IF c.outcome = "accepted" THEN "accepted" ELSE "refused"
      [] OTHER -> "claimed"

QueueStatus == [e \in Events |-> IF e \in inserted THEN RowStatus(log[e]) ELSE "absent"]
QueueClaim  == [c \in Copies |-> CopyClaim(copy[c])]

Queue == INSTANCE DeliveryQueue WITH
    Claims <- Copies, status <- QueueStatus, claim <- QueueClaim

\* However fetches, workers, crashes, shutdowns and redeliveries interleave, what
\* they do together is what DeliveryQueue allows: a fetch takes only what nobody has, no
\* webhook is called for an event that is decided, and no report overrules another,
\* until a lock is lost under a worker.
ImplementsQueue == Queue!Spec

-------------------------------------------------------------------------------
(* The inductive invariant behind the safety properties *)

IsUnrecorded(c) == copy[c].stage \in Unrecorded

\* Of an event that is not doubted, one copy at most is unrecorded.
OneCopy ==
    \A c, d \in Copies :
        IsUnrecorded(c) /\ IsUnrecorded(d) /\ c[2] = d[2] /\ c[2] \notin doubted => c = d

\* The row still is what the fetch returned, and locked.
RowAsFetched ==
    \A c \in Copies :
        IsUnrecorded(c) /\ c[2] \notin doubted =>
            /\ log[c[2]].locked = "held"
            /\ ~log[c[2]].delivered /\ ~log[c[2]].error
            /\ log[c[2]].tries = copy[c].tries

\* The outcomes that depend on the event come from such events only.
OutcomesExplained ==
    \A c \in Copies :
        /\ copy[c].outcome = "retryAfter" => c[2] \in Throttled
        /\ copy[c].outcome = "untransformable" => c[2] \in Untransformable
        /\ copy[c].outcome = "accepted" => c[2] \in accepted

\* A row that has not settled has a try left.
TriesLeft ==
    \A e \in Events \ (doubted \cup Throttled) :
        ~log[e].delivered /\ ~log[e].error => log[e].tries <= NumRetries

\* Rows are made by the SQL trigger: before that there is nothing to fetch, to decide or
\* to deliver again.
InsertedFirst ==
    /\ redelivering \subseteq inserted
    /\ \A c \in Copies : IsUnrecorded(c) => c[2] \in inserted
    /\ \A e \in Events \ inserted : ~IsSettled(log[e])

IInv == /\ TypeOK /\ OneCopy /\ RowAsFetched /\ OutcomesExplained /\ TriesLeft
        /\ OneOutcomeUnlessDoubted /\ ErrorMeansExhausted /\ TriesBounded
        /\ DeliveredWasAccepted

=============================================================================
