----------------------------- MODULE LiveQueries ------------------------------
(*****************************************************************************)
(* Live query subscriptions: addLiveQuery and removeLiveQuery                 *)
(* (server/src-lib/Hasura/GraphQL/Execute/Subscription/State.hs), called by   *)
(* the threads of the websocket connections, and pollLiveQuery                *)
(* (Subscription/Poll/LiveQuery.hs), run over and over by the thread of each  *)
(* poller.                                                                    *)
(*                                                                           *)
(* A Poller is an object: the thread of a poller that has left lqMap goes on  *)
(* with the cohorts it knows until it is stopped, beside a new poller with    *)
(* the same key.  A poll forgets a cohort that has left its poller: what it   *)
(* would still do reaches only subscribers that were removed, and a respRef   *)
(* that nobody reads.                                                         *)
(*                                                                           *)
(* Batches of cohorts are queried concurrently; the model has one cohort in a *)
(* batch.  A result and its hash are one value.                               *)
(*****************************************************************************)
EXTENDS Naturals, Functions

CONSTANTS
    Subs,        \* subscriber ids: every addLiveQuery makes a new one
    PollerKeys,  \* BackendPollerKey: source, role, query, connection
    CohortKeys,  \* CohortVariables
    PollerOf,    \* the poller key of a subscriber
    CohortOf,    \* the cohort key of a subscriber
    Pollers,     \* Poller objects; one that nobody refers to is used again
    Nobody,      \* no poller
    Values,      \* results of the query for a cohort
    MaxChanges,  \* bound: changes of the data
    MaxErrors,   \* bound: queries that fail
    MaxDeaths,   \* bound: exceptions that end a poll
    MaxDisturbances \* bound: all of these together

ASSUME LiveQueriesAssumption ==
    /\ PollerOf \in [Subs -> PollerKeys]
    /\ CohortOf \in [Subs -> CohortKeys]
    /\ Nobody \notin Pollers
    /\ "none" \notin Values /\ "error" \notin Values
    /\ {MaxChanges, MaxErrors, MaxDeaths, MaxDisturbances} \subseteq Nat
    /\ Values # {}

VARIABLES
    lqMap,    \* lqMap[k]: the poller of a key, _ssLiveQueryMap
    cohorts,  \* cohorts[p]: _pCohorts, the cohorts of a poller by their keys
    ioState,  \* ioState[p]: _pIOState is full
    thread,   \* thread[p]: the thread of a poller
    listed,   \* listed[p]: cohorts the poll of p has listed, with no snapshot yet
    snaps,    \* snaps[p]: cohorts the poll of p has a snapshot of, by their keys
    pc,       \* pc[s]: how far the calls for a subscriber are
    mine,     \* mine[s]: the poller that a call for s creates or stops
    last,     \* last[s]: the last message that was sent to s
    data,     \* data[k][c]: what the query of k returns for the variables c
    missed,   \* history: subscribers whose last message an exception has swallowed
    changes, errors, deaths

mapVars  == <<lqMap, cohorts, ioState>>
pollVars == <<listed, snaps>>
budgets  == <<changes, errors, deaths>>
vars == <<lqMap, cohorts, ioState, thread, listed, snaps, pc, mine, last, data, missed,
          changes, errors, deaths>>

-------------------------------------------------------------------------------
Cohort == [hash : Values \cup {"none"}, existing : SUBSET Subs, new : SUBSET Subs]
\* result: "none" until the query has run; to: the subscribers that are still to be
\* sent the result, once it was compared with the hash.
Snapshot == [cur : SUBSET Subs, new : SUBSET Subs, result : Values \cup {"none", "error"},
             compared : BOOLEAN, to : SUBSET Subs]

\* Finite maps from keys.
IsMap(f, S, T) == DOMAIN f \subseteq S /\ f \in [DOMAIN f -> T]
NoMap == [x \in {} |-> x]
Put(f, x, v) == [y \in DOMAIN f \cup {x} |-> IF y = x THEN v ELSE f[y]]
Delete(f, x) == Restrict(f, DOMAIN f \ {x})

Members(cohort) == cohort.existing \cup cohort.new
\* Subscribers of the cohorts of a poller.
Served(p) == UNION {Members(cohorts[p][c]) : c \in DOMAIN cohorts[p]}
InMap(p)  == \E k \in PollerKeys : lqMap[k] = p
\* No map, thread or call refers to the poller any more.
Garbage(p) == ~InMap(p) /\ thread[p] \in {"none", "stopped"} /\ \A s \in Subs : mine[s] # p

TypeOK ==
    /\ lqMap \in [PollerKeys -> Pollers \cup {Nobody}]
    /\ DOMAIN cohorts = Pollers
    /\ \A p \in Pollers : IsMap(cohorts[p], CohortKeys, Cohort)
    /\ ioState \in [Pollers -> BOOLEAN]
    /\ thread \in [Pollers -> {"none", "sleeping", "polling", "stopped"}]
    /\ listed \in [Pollers -> SUBSET CohortKeys]
    /\ DOMAIN snaps = Pollers
    /\ \A p \in Pollers : IsMap(snaps[p], CohortKeys, Snapshot)
    /\ pc \in [Subs -> {"idle", "forking", "putting", "active", "stopping", "reporting",
                        "gone"}]
    /\ mine \in [Subs -> Pollers \cup {Nobody}]
    /\ last \in [Subs -> Values \cup {"none", "error"}]
    /\ data \in [PollerKeys -> [CohortKeys -> Values]]
    /\ missed \subseteq Subs
    /\ changes \in 0 .. MaxChanges /\ errors \in 0 .. MaxErrors /\ deaths \in 0 .. MaxDeaths

Init ==
    /\ lqMap = [k \in PollerKeys |-> Nobody]
    /\ cohorts = [p \in Pollers |-> NoMap]
    /\ ioState = [p \in Pollers |-> FALSE]
    /\ thread = [p \in Pollers |-> "none"]
    /\ listed = [p \in Pollers |-> {}]
    /\ snaps = [p \in Pollers |-> NoMap]
    /\ pc = [s \in Subs |-> "idle"]
    /\ mine = [s \in Subs |-> Nobody]
    /\ last = [s \in Subs |-> "none"]
    /\ data = [k \in PollerKeys |-> [c \in CohortKeys |-> CHOOSE v \in Values : TRUE]]
    /\ missed = {}
    /\ changes = 0 /\ errors = 0 /\ deaths = 0

-------------------------------------------------------------------------------
Disturb(n, max) == n < max /\ changes + errors + deaths < MaxDisturbances

(* addLiveQuery *)

NewCohort(s) == [hash |-> "none", existing |-> {}, new |-> {s}]

\* addToCohort or addToPoller.
WithSubscriber(cs, s) ==
    IF CohortOf[s] \in DOMAIN cs THEN [cs EXCEPT ![CohortOf[s]].new = @ \cup {s}]
                                 ELSE Put(cs, CohortOf[s], NewCohort(s))

\* findPollerForSubscriber finds a poller, whose thread somebody else forks.
JoinPoller(s) ==
    LET p == lqMap[PollerOf[s]] IN
    /\ pc[s] = "idle" /\ p # Nobody
    /\ cohorts' = [cohorts EXCEPT ![p] = WithSubscriber(@, s)]
    /\ pc' = [pc EXCEPT ![s] = "active"]
    /\ UNCHANGED <<lqMap, ioState, thread, pollVars, mine, last, data, missed, budgets>>

\* findPollerForSubscriber creates one, in the transaction that inserts it.
CreatePoller(s, p) ==
    /\ pc[s] = "idle" /\ lqMap[PollerOf[s]] = Nobody /\ Garbage(p)
    /\ lqMap' = [lqMap EXCEPT ![PollerOf[s]] = p]
    /\ cohorts' = [cohorts EXCEPT ![p] = WithSubscriber(NoMap, s)]
    /\ ioState' = [ioState EXCEPT ![p] = FALSE]
    /\ thread' = [thread EXCEPT ![p] = "none"]
    /\ mine' = [mine EXCEPT ![s] = p]
    /\ pc' = [pc EXCEPT ![s] = "forking"]
    /\ UNCHANGED <<pollVars, last, data, missed, budgets>>

\* Mutant: the call returns as soon as it has forked the thread.
ForkThreadAndReturn(s) ==
    /\ thread' = [thread EXCEPT ![mine[s]] = "sleeping"]
    /\ pc' = [pc EXCEPT ![s] = "active"]
    /\ mine' = [mine EXCEPT ![s] = Nobody]

\* forkImmortal: the thread may poll before its handle is in _pIOState.
ForkThread(s) ==
    /\ thread' = [thread EXCEPT ![mine[s]] = "sleeping"]
    /\ pc' = [pc EXCEPT ![s] = "putting"]
    /\ UNCHANGED mine

Fork(s) ==
    /\ pc[s] = "forking"
    /\ ForkThread(s)
    /\ UNCHANGED <<mapVars, pollVars, last, data, missed, budgets>>

PutTMVar(s) ==
    /\ pc[s] = "putting"
    /\ ioState' = [ioState EXCEPT ![mine[s]] = TRUE]
    /\ mine' = [mine EXCEPT ![s] = Nobody]
    /\ pc' = [pc EXCEPT ![s] = "active"]
    /\ UNCHANGED <<lqMap, cohorts, thread, pollVars, last, data, missed, budgets>>

-------------------------------------------------------------------------------
(* removeLiveQuery *)

\* Mutant: a cohort goes when nobody is left who was sent a result.
IsEmptyOfExisting(cohort) == cohort.existing = {}

IsEmpty(cohort) == Members(cohort) = {}

Without(cohort, s) ==
    [cohort EXCEPT !.existing = @ \ {s}, !.new = @ \ {s}]

\* cleanHandlerC, as much of it as is about the cohort: what is left of the cohorts.
CohortsWithout(cs, s) ==
    LET left == Without(cs[CohortOf[s]], s)
    IN  IF IsEmpty(left) THEN Delete(cs, CohortOf[s])
                         ELSE [cs EXCEPT ![CohortOf[s]] = left]

\* A poll goes on without the cohorts that are gone.
ForgetDeleted(p, cs) ==
    /\ listed' = [listed EXCEPT ![p] = @ \cap DOMAIN cs]
    /\ snaps' = [snaps EXCEPT ![p] = Restrict(@, DOMAIN @ \cap DOMAIN cs)]

\* The transaction of removeLiveQuery, for a subscriber that others stay behind.
RemoveOne(s) ==
    LET p == lqMap[PollerOf[s]]
        left == CohortsWithout(cohorts[p], s)
    IN
    /\ pc[s] = "active" /\ left # NoMap
    /\ cohorts' = [cohorts EXCEPT ![p] = left]
    /\ ForgetDeleted(p, left)
    /\ pc' = [pc EXCEPT ![s] = "gone"]
    /\ UNCHANGED <<lqMap, ioState, thread, mine, last, data, missed, budgets>>

\* The same for the last subscriber of a poller: the handle of the thread is read in
\* the transaction, or the absence of one is reported as a bug.
RemoveLast(s) ==
    LET p == lqMap[PollerOf[s]]
        left == CohortsWithout(cohorts[p], s)
    IN
    /\ pc[s] = "active" /\ left = NoMap
    /\ lqMap' = [lqMap EXCEPT ![PollerOf[s]] = Nobody]
    /\ cohorts' = [cohorts EXCEPT ![p] = NoMap]
    /\ ForgetDeleted(p, left)
    /\ IF ioState[p] THEN pc' = [pc EXCEPT ![s] = "stopping"] /\ mine' = [mine EXCEPT ![s] = p]
                     ELSE pc' = [pc EXCEPT ![s] = "reporting"] /\ UNCHANGED mine
    /\ UNCHANGED <<ioState, thread, last, data, missed, budgets>>

\* The thread whose handle the transaction has read.
ThreadToStop(s) == mine[s]

\* The deferred Immortal.stop, wherever the poll is.
StopThread(s) ==
    LET p == ThreadToStop(s) IN
    /\ pc[s] = "stopping"
    /\ thread' = [thread EXCEPT ![p] = "stopped"]
    /\ listed' = [listed EXCEPT ![p] = {}]
    /\ snaps' = [snaps EXCEPT ![p] = NoMap]
    /\ mine' = [mine EXCEPT ![s] = Nobody]
    /\ pc' = [pc EXCEPT ![s] = "gone"]
    /\ UNCHANGED <<mapVars, last, data, missed, budgets>>

-------------------------------------------------------------------------------
(* pollLiveQuery *)

\* TMap.toList of the cohorts, in a transaction of its own.
StartPoll(p) ==
    /\ thread[p] = "sleeping"
    /\ thread' = [thread EXCEPT ![p] = "polling"]
    /\ listed' = [listed EXCEPT ![p] = DOMAIN cohorts[p]]
    /\ UNCHANGED <<mapVars, snaps, pc, mine, last, data, missed, budgets>>

\* The new subscribers of a cohort count as existing ones from its snapshot on.
MovesNew(cohort) == [cohort EXCEPT !.existing = @ \cup cohort.new, !.new = {}]

GetCohortSnapshot(p, c) ==
    LET cohort == cohorts[p][c] IN
    /\ c \in listed[p]
    /\ listed' = [listed EXCEPT ![p] = @ \ {c}]
    /\ cohorts' = [cohorts EXCEPT ![p][c] = MovesNew(cohort)]
    /\ snaps' = [snaps EXCEPT ![p] =
            Put(@, c, [cur |-> cohort.existing, new |-> cohort.new, result |-> "none",
                       compared |-> FALSE, to |-> {}])]
    /\ UNCHANGED <<lqMap, ioState, thread, pc, mine, last, data, missed, budgets>>

\* All snapshots are taken before the first query.
Asks(p, c) ==
    /\ thread[p] = "polling" /\ listed[p] = {} /\ c \in DOMAIN snaps[p]
    /\ snaps[p][c].result = "none"

RunDBSubscription(p, c) ==
    /\ Asks(p, c)
    /\ \E k \in PollerKeys :
           /\ lqMap[k] = p
           /\ snaps' = [snaps EXCEPT ![p][c].result = data[k][c]]
    /\ UNCHANGED <<mapVars, thread, listed, pc, mine, last, data, missed, budgets>>

RunDBSubscriptionFails(p, c) ==
    /\ Asks(p, c)
    /\ Disturb(errors, MaxErrors) /\ errors' = errors + 1
    /\ snaps' = [snaps EXCEPT ![p][c].result = "error"]
    /\ UNCHANGED <<mapVars, thread, listed, pc, mine, last, data, missed, changes, deaths>>

\* Mutant: an error has a hash as well.
HashOfAnything(result) == result

\* The hash of a result; an error has none.
HashOf(result) == IF result = "error" THEN "none" ELSE result

\* Mutant: a result is sent to whoever is new, whether it changed or not.
SubscribersToPushNew(cohort, snap) == snap.new

\* The subscribers that pushResultToCohort sends the result to.
SubscribersToPush(cohort, snap) ==
    IF snap.result = "error" \/ HashOf(snap.result) # cohort.hash
    THEN snap.new \cup snap.cur ELSE snap.new

\* pushResultToCohort, before it sends anything.
PushResultToCohort(p, c) ==
    LET snap == snaps[p][c] IN
    /\ c \in DOMAIN snaps[p] /\ snap.result # "none" /\ ~snap.compared
    /\ cohorts' = [cohorts EXCEPT ![p][c].hash = HashOf(snap.result)]
    /\ snaps' = [snaps EXCEPT ![p][c].compared = TRUE,
                              ![p][c].to = SubscribersToPush(cohorts[p][c], snap)]
    /\ UNCHANGED <<lqMap, ioState, thread, listed, pc, mine, last, data, missed, budgets>>

\* _sOnChangeCallback, concurrently for all of them.
PushResultToSubscriber(p, c, s) ==
    /\ c \in DOMAIN snaps[p] /\ s \in snaps[p][c].to
    /\ last' = [last EXCEPT ![s] = snaps[p][c].result]
    /\ snaps' = [snaps EXCEPT ![p][c].to = @ \ {s}]
    /\ missed' = missed \ {s}
    /\ UNCHANGED <<mapVars, thread, listed, pc, mine, data, budgets>>

\* postPollHook and the sleep.
FinishPoll(p) ==
    /\ thread[p] = "polling" /\ listed[p] = {}
    /\ \A c \in DOMAIN snaps[p] : snaps[p][c].compared /\ snaps[p][c].to = {}
    /\ thread' = [thread EXCEPT ![p] = "sleeping"]
    /\ snaps' = [snaps EXCEPT ![p] = NoMap]
    /\ UNCHANGED <<mapVars, listed, pc, mine, last, data, missed, budgets>>

\* An exception ends the poll, and forkImmortal starts the thread anew.
PollDies(p) ==
    /\ thread[p] = "polling"
    /\ Disturb(deaths, MaxDeaths) /\ deaths' = deaths + 1
    /\ thread' = [thread EXCEPT ![p] = "sleeping"]
    /\ missed' = missed \cup UNION {IF snaps[p][c].compared THEN snaps[p][c].to
                                    ELSE snaps[p][c].new : c \in DOMAIN snaps[p]}
    /\ listed' = [listed EXCEPT ![p] = {}]
    /\ snaps' = [snaps EXCEPT ![p] = NoMap]
    /\ UNCHANGED <<mapVars, pc, mine, last, data, changes, errors>>

\* Somebody changes the tables, so that the result for one cohort changes.
Change(k, c, v) ==
    /\ Disturb(changes, MaxChanges) /\ changes' = changes + 1
    /\ v # data[k][c]
    /\ data' = [data EXCEPT ![k][c] = v]
    /\ UNCHANGED <<mapVars, thread, pollVars, pc, mine, last, missed, errors, deaths>>

-------------------------------------------------------------------------------
AddStep(s)    == JoinPoller(s) \/ (\E p \in Pollers : CreatePoller(s, p)) \/ Fork(s) \/ PutTMVar(s)
RemoveStep(s) == RemoveOne(s) \/ RemoveLast(s) \/ StopThread(s)
PollStep(p) ==
    \/ StartPoll(p) \/ FinishPoll(p)
    \/ \E c \in CohortKeys :
          \/ GetCohortSnapshot(p, c) \/ RunDBSubscription(p, c) \/ PushResultToCohort(p, c)
          \/ \E s \in Subs : PushResultToSubscriber(p, c, s)

Next ==
    \/ \E s \in Subs : AddStep(s) \/ RemoveStep(s)
    \/ \E p \in Pollers :
          PollStep(p) \/ PollDies(p) \/ \E c \in CohortKeys : RunDBSubscriptionFails(p, c)
    \/ \E k \in PollerKeys, c \in CohortKeys, v \in Values : Change(k, c, v)

Spec == Init /\ [][Next]_vars

\* Every thread goes on.  No client has to subscribe or to stop, and nothing has to fail.
Fairness ==
    /\ \A s \in Subs : WF_vars(Fork(s)) /\ WF_vars(PutTMVar(s)) /\ WF_vars(StopThread(s))
    /\ \A p \in Pollers : WF_vars(PollStep(p))

FairSpec == Spec /\ Fairness

-------------------------------------------------------------------------------
(* Properties *)

\* The invariant that the comment on CohortMap states, and the same one level up: no
\* cohort without subscribers and no poller without cohorts, whoever leaves when.
NothingEmpty ==
    \A k \in PollerKeys : lqMap[k] # Nobody =>
        /\ DOMAIN cohorts[lqMap[k]] # {}
        /\ \A c \in DOMAIN cohorts[lqMap[k]] : ~IsEmpty(cohorts[lqMap[k]][c])

\* The thread of a poller is forked after the poller can be found, and is stopped after
\* it cannot be found any more: in between every thread has a poller in the map or a
\* call that is about to stop it, every poller in the map has a thread or a call that
\* is about to fork it, and removeLiveQuery never has to report a bug.
ThreadsAttended ==
    /\ \A p \in Pollers :
          /\ thread[p] \in {"sleeping", "polling"} =>
                InMap(p) \/ \E s \in Subs : mine[s] = p /\ pc[s] = "stopping"
          /\ InMap(p) =>
                \/ thread[p] \in {"sleeping", "polling"}
                \/ \E s \in Subs : mine[s] = p /\ pc[s] = "forking"
    /\ \A s \in Subs : pc[s] # "reporting"

\* No cohort, poller or thread outlives its last subscriber, whatever the order of calls
\* and polls, and none is missing while there is one.
NothingOutlived == NothingEmpty /\ ThreadsAttended

\* Subscribers are told only what has changed, and the hash is stored before the result
\* is sent: whoever misses a message by a wrong guess about who has it already is not
\* sent the result again.  Even so, whoever stays subscribed gets the result of the latest
\* data, unless an exception in the middle of a poll has swallowed it.
EverySubscriberCurrent ==
    \A s \in Subs :
        <>[](pc[s] = "active" => s \in missed \/ last[s] = data[PollerOf[s]][CohortOf[s]])

\* addLiveQuery and removeLiveQuery, in all their steps and beside the polls, do what
\* the connections rely on.
Registry == INSTANCE SubscriptionRegistry WITH
    live   <- UNION {Served(lqMap[k]) : k \in {k \in PollerKeys : lqMap[k] # Nobody}},
    closed <- {s \in Subs : pc[s] \in {"stopping", "reporting", "gone"}}
ImplementsRegistry == Registry!Spec
===============================================================================
