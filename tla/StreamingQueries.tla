--------------------------- MODULE StreamingQueries ---------------------------
(*****************************************************************************)
(* Streaming subscriptions: pollStreamingQuery                                *)
(* (server/src-lib/Hasura/GraphQL/Execute/Subscription/Poll/StreamingQuery.hs)*)
(* beside addStreamSubscriptionQuery and removeStreamingQuery                 *)
(* (Subscription/State.hs), for the subscribers of one poller.                *)
(*                                                                           *)
(* The key of a cohort is the cursor value its query starts after, so the     *)
(* cohorts move from key to key, and a poll rebuilds the map of cohorts.      *)
(* Rows have the ids 1, 2, ...: a query for the key v with a batch size b     *)
(* returns the rows v + 1 .. v + b, as far as they exist.                     *)
(*                                                                           *)
(* A cohort that addToPoller makes has a new CohortId, a new reference to the *)
(* previous response and a new reference to the cursor; whoever copies one of *)
(* the three copies all.  The model names the three by the subscriber the     *)
(* cohort was made for: id is that subscriber, refs[id] are the references.   *)
(*                                                                           *)
(* A poller and its thread come and go as in LiveQueries, which models the    *)
(* shared code: here the poller is in the map while it has cohorts.           *)
(*****************************************************************************)
EXTENDS Naturals, FiniteSetsExt, Functions

CONSTANTS
    Subs,       \* subscriber ids
    StartOf,    \* the initial value of the cursor of a subscriber
    BatchSize,  \* the batch_size argument of the query
    MaxRows,    \* bound: rows of the table
    MaxErrors,  \* bound: queries that fail
    MaxDisturbances \* bound: queries that fail and subscribers that leave

ASSUME StreamingAssumption ==
    /\ StartOf \in [Subs -> 0 .. MaxRows]
    /\ BatchSize \in Nat \ {0}
    /\ {MaxRows, MaxErrors, MaxDisturbances} \subseteq Nat

VARIABLES
    rows,     \* the rows of the table are 1 .. rows
    cohorts,  \* _pCohorts: the cohorts by their keys
    refs,     \* refs[id]: _cPreviousResponse and _cStreamCursorVariables
    myRef,    \* myRef[s]: the id whose cursor reference s got from its cohort
    pc,       \* pc[s]: "idle", "active" or "gone"
    stage,    \* where the poll is
    listed,   \* keys of the cohorts the poll has listed, with no snapshot yet
    snaps,    \* snapshots of cohorts, by their keys
    ops,      \* operations of the poll, by the key the query was run for
    got,      \* history: s has received the rows up to got[s], in order
    garbled,  \* history: subscribers that have received rows out of order
    split,    \* history: ids of cohorts that a rebuild has split in two
    tainted,  \* history: subscribers that were in a cohort with such an id
    errors

pollVars == <<stage, listed, snaps, ops>>
histVars == <<split, tainted>>
vars == <<rows, cohorts, refs, myRef, pc, stage, listed, snaps, ops, got, garbled, split,
          tainted, errors>>

-------------------------------------------------------------------------------
Keys == 0 .. MaxRows
Cohort == [id : Subs, existing : SUBSET Subs, new : SUBSET Subs]
\* attached: the map still has the cohort of the snapshot.
Snapshot == [attached : BOOLEAN, id : Subs, cur : SUBSET Subs, new : SUBSET Subs]

\* Values of type Maybe: the hash of no response, the result of a query that failed.
Nothing == {}
Just(x) == {x}
Maybe(S) == {Nothing} \cup {Just(x) : x \in S}
Responses == Maybe(SUBSET (1 .. MaxRows))

\* snap: the key of the snapshot that gets the result; changed: what the comparison
\* with the previous response said, once it was made.
Operation == [snap : Keys, result : Responses, changed : Maybe(BOOLEAN), pushed : BOOLEAN]

IsMap(f, S, T) == DOMAIN f \subseteq S /\ f \in [DOMAIN f -> T]
NoMap == [x \in {} |-> x]
Put(f, x, v) == [y \in DOMAIN f \cup {x} |-> IF y = x THEN v ELSE f[y]]
Delete(f, x) == Restrict(f, DOMAIN f \ {x})

Members(cohort) == cohort.existing \cup cohort.new
\* Subscribers of a map of cohorts.
Served(cs) == UNION {Members(cs[c]) : c \in DOMAIN cs}
\* Subscribers of the cohorts with certain ids.
MembersUnder(cs, ids) == UNION {Members(cs[c]) : c \in {c \in DOMAIN cs : cs[c].id \in ids}}

TypeOK ==
    /\ rows \in 0 .. MaxRows
    /\ IsMap(cohorts, Keys, Cohort)
    /\ refs \in [Subs -> [hash : Responses, cursor : Keys]]
    /\ myRef \in [Subs -> Subs]
    /\ pc \in [Subs -> {"idle", "active", "gone"}]
    /\ stage \in {"sleeping", "snapshotting", "pushing"}
    /\ listed \subseteq Keys
    /\ IsMap(snaps, Keys, Snapshot)
    /\ IsMap(ops, Keys, Operation)
    /\ got \in [Subs -> Keys]
    /\ garbled \subseteq Subs /\ split \subseteq Subs /\ tainted \subseteq Subs
    /\ errors \in 0 .. MaxErrors

Init ==
    /\ rows = 0
    /\ cohorts = NoMap
    /\ refs = [s \in Subs |-> [hash |-> Nothing, cursor |-> StartOf[s]]]
    /\ myRef = [s \in Subs |-> s]
    /\ pc = [s \in Subs |-> "idle"]
    /\ stage = "sleeping"
    /\ listed = {}
    /\ snaps = NoMap
    /\ ops = NoMap
    /\ got = StartOf
    /\ garbled = {} /\ split = {} /\ tainted = {}
    /\ errors = 0

-------------------------------------------------------------------------------
Disturb == errors + Cardinality({s \in Subs : pc[s] = "gone"}) < MaxDisturbances

(* addStreamSubscriptionQuery *)

\* addToCohort: the subscriber gets the references of the cohort.
AddToCohort(s) ==
    LET v == StartOf[s] IN
    /\ pc[s] = "idle" /\ v \in DOMAIN cohorts
    /\ cohorts' = [cohorts EXCEPT ![v].new = @ \cup {s}]
    /\ myRef' = [myRef EXCEPT ![s] = cohorts[v].id]
    /\ pc' = [pc EXCEPT ![s] = "active"]
    /\ tainted' = IF cohorts[v].id \in split THEN tainted \cup {s} ELSE tainted
    /\ UNCHANGED <<rows, refs, pollVars, got, garbled, split, errors>>

\* addToPoller, in a new poller if there is none.
AddToPoller(s) ==
    /\ pc[s] = "idle" /\ StartOf[s] \notin DOMAIN cohorts
    /\ cohorts' = Put(cohorts, StartOf[s], [id |-> s, existing |-> {}, new |-> {s}])
    /\ pc' = [pc EXCEPT ![s] = "active"]
    /\ UNCHANGED <<rows, refs, myRef, pollVars, got, garbled, histVars, errors>>

-------------------------------------------------------------------------------
(* removeStreamingQuery *)

Without(cohort, s) ==
    [cohort EXCEPT !.existing = @ \ {s}, !.new = @ \ {s}]

CohortsWithout(cs, v, s) ==
    LET left == Without(cs[v], s)
    IN  IF Members(left) = {} THEN Delete(cs, v) ELSE [cs EXCEPT ![v] = left]

\* The cohort is looked up by the latest value of the cursor reference.  The last one
\* takes the poller with it, and the poll ends.
RemoveStreamingQuery(s) ==
    LET v == refs[myRef[s]].cursor
        left == IF v \in DOMAIN cohorts THEN CohortsWithout(cohorts, v, s) ELSE cohorts
    IN
    /\ pc[s] = "active" /\ Disturb
    /\ pc' = [pc EXCEPT ![s] = "gone"]
    /\ got' = [got EXCEPT ![s] = StartOf[s]]
    /\ cohorts' = left
    /\ IF left = NoMap
       THEN stage' = "sleeping" /\ listed' = {} /\ snaps' = NoMap /\ ops' = NoMap
       ELSE /\ listed' = listed \cap DOMAIN left
            /\ snaps' = [c \in DOMAIN snaps |->
                            [snaps[c] EXCEPT !.attached = @ /\ c \in DOMAIN left]]
            /\ UNCHANGED <<stage, ops>>
    /\ UNCHANGED <<rows, refs, myRef, garbled, histVars, errors>>

-------------------------------------------------------------------------------
(* pollStreamingQuery *)

StartPoll ==
    /\ stage = "sleeping" /\ cohorts # NoMap
    /\ stage' = "snapshotting"
    /\ listed' = DOMAIN cohorts
    /\ UNCHANGED <<rows, cohorts, refs, myRef, pc, snaps, ops, got, garbled, histVars, errors>>

\* A snapshot changes nothing: new subscribers stay new until the map is rebuilt.
GetCohortSnapshot(c) ==
    /\ c \in listed
    /\ listed' = listed \ {c}
    /\ snaps' = Put(snaps, c, [attached |-> TRUE, id |-> cohorts[c].id,
                               cur |-> cohorts[c].existing, new |-> cohorts[c].new])
    /\ UNCHANGED <<rows, cohorts, refs, myRef, pc, stage, ops, got, garbled, histVars, errors>>

\* The rows the query returns for a key.
RowsAfter(v) == {r \in 1 .. rows : v < r /\ r <= v + BatchSize}

\* One query for the cohorts of a batch, and all cohorts fit in one.  getCohortOperations
\* finds the snapshot of a result by the id: of snapshots with the same id
\* one gets the results of all.
Operations(winner) ==
    [c \in DOMAIN snaps |->
        [snap |-> winner[snaps[c].id], result |-> Just(RowsAfter(c)), changed |-> Nothing,
         pushed |-> FALSE]]

Winners ==
    LET ids == {snaps[c].id : c \in DOMAIN snaps}
    IN  {w \in [ids -> DOMAIN snaps] : \A id \in ids : snaps[w[id]].id = id}

Asks == stage = "snapshotting" /\ listed = {}

RunDBStreamingSubscription ==
    /\ Asks
    /\ \E w \in Winners : ops' = Operations(w)
    /\ stage' = "pushing"
    /\ UNCHANGED <<rows, cohorts, refs, myRef, pc, listed, snaps, got, garbled, histVars, errors>>

\* An error reaches every snapshot, without a detour over the ids.
RunDBStreamingSubscriptionFails ==
    /\ Asks
    /\ Disturb /\ errors < MaxErrors /\ errors' = errors + 1
    /\ ops' = [c \in DOMAIN snaps |->
                  [snap |-> c, result |-> Nothing, changed |-> Nothing, pushed |-> FALSE]]
    /\ stage' = "pushing"
    /\ UNCHANGED <<rows, cohorts, refs, myRef, pc, listed, snaps, got, garbled, histVars>>

\* Mutant: the cursor is taken to be the first value that was not sent.
CursorAfterLast(op) ==
    IF op.result \in {Nothing, Just({})} THEN op.snap
    ELSE Max(CHOOSE R \in op.result : TRUE) + 1

\* mergeOldAndNewCursorValues: no row, or an error, leaves the cursor where it was.
CursorAfter(op) ==
    IF op.result \in {Nothing, Just({})} THEN op.snap
    ELSE Max(CHOOSE R \in op.result : TRUE)

\* readTVarIO of the previous response.
ReadPreviousResponse(c) ==
    /\ stage = "pushing" /\ c \in DOMAIN ops /\ ops[c].changed = Nothing
    /\ LET prev == refs[snaps[ops[c].snap].id].hash
       IN  ops' = [ops EXCEPT ![c].changed =
                      Just(ops[c].result = Nothing \/ ops[c].result # prev)]
    /\ UNCHANGED <<rows, cohorts, refs, myRef, pc, stage, listed, snaps, got, garbled,
                   histVars, errors>>

\* Mutant: the cursor reference is left to the rebuild of the map.
NewRefsKeepingCursor(op, id) == [refs EXCEPT ![id].hash = op.result]

\* The references after a response that has changed.
NewRefs(op, id) == [refs EXCEPT ![id] = [hash |-> op.result, cursor |-> CursorAfter(op)]]

\* What the subscribers in S make of rows R.  Those that are gone, or tainted, are not
\* followed any more.
Receive(S, R) ==
    LET listening == {s \in S : pc[s] = "active" /\ s \notin tainted}
        inOrder   == {s \in listening : Min(R) = got[s] + 1}
    IN
    /\ got' = [s \in Subs |-> IF s \in inOrder THEN Max(R) ELSE got[s]]
    /\ garbled' = garbled \cup (listening \ inOrder)

\* The rest of pushResultToCohort.  An empty response is sent to nobody; an
\* error is, and carries no rows.
PushResultToCohort(c) ==
    LET op   == ops[c]
        snap == snaps[op.snap]
        to   == IF op.changed = Just(TRUE) THEN snap.new \cup snap.cur ELSE snap.new
    IN
    /\ c \in DOMAIN ops /\ op.changed # Nothing /\ ~op.pushed
    /\ ops' = [ops EXCEPT ![c].pushed = TRUE]
    /\ refs' = IF op.changed = Just(TRUE) THEN NewRefs(op, snap.id) ELSE refs
    /\ IF op.result \in {Nothing, Just({})} THEN UNCHANGED <<got, garbled>>
       ELSE Receive(to, CHOOSE R \in op.result : TRUE)
    /\ UNCHANGED <<rows, cohorts, myRef, pc, stage, listed, snaps, histVars, errors>>

\* Mutant: every new subscriber counts as served.
UpdateAllCohortSubscribers(cohort, snapshotted) ==
    [cohort EXCEPT !.existing = @ \cup cohort.new, !.new = {}]

\* updateCohortSubscribers: only those were served whom the snapshot had.
UpdateCohortSubscribers(cohort, snapshotted) ==
    [cohort EXCEPT !.existing = @ \cup (cohort.new \cap snapshotted), !.new = @ \ snapshotted]

\* Mutant: the subscribers of the snapshot are not compared with those of the cohort.
ProcessedUnfiltered(c) ==
    [id |-> snaps[c].id, existing |-> snaps[c].cur \cup snaps[c].new, new |-> {}]

\* The cohort that a poll has processed, with the subscribers that are left in it.
\* It is the one in the map, unless that was deleted, which has left it empty.
Processed(c) ==
    IF snaps[c].attached THEN UpdateCohortSubscribers(cohorts[c], snaps[c].new)
    ELSE [id |-> snaps[c].id, existing |-> {}, new |-> {}]

\* newlyAddedSubscribers
Added(c) == UpdateCohortSubscribers(cohorts[c], snaps[c].new).new

At(v, cohort) == [at |-> v, id |-> cohort.id, existing |-> cohort.existing, new |-> cohort.new]

\* Mutant: a cohort that came during the poll gets lost.
KeptUnlessNew(c) == {}

\* A cohort that was not processed stays as it is.
Kept(c) == {At(c, cohorts[c])}

\* What the rebuild makes of the cohort with key c: the operation ops[last[c]] was the
\* last one for its snapshot.  Subscribers that came during the poll stay behind,
\* in a cohort with the same references; the processed cohort moves.
Rebuilt(c, last) ==
    IF c \notin DOMAIN last THEN Kept(c)
    ELSE (IF Added(c) = {} THEN {}
          ELSE {At(c, [id |-> cohorts[c].id, existing |-> {}, new |-> Added(c)])})
         \cup {At(CursorAfter(ops[last[c]]), Processed(c))}

\* Cohorts that move while some of their subscribers stay behind.
SplitKeys(last) ==
    {c \in DOMAIN cohorts \cap DOMAIN last :
        snaps[c].attached /\ Added(c) # {} /\ CursorAfter(ops[last[c]]) # c}

\* mergeCohorts, for the cohorts that get the same key: the references are those of
\* the one that was inserted last, in the order of a hash map.
Merged(parts, id) ==
    [v \in {x.at : x \in parts} |->
        [id |-> id[v],
         existing |-> UNION {x.existing : x \in {x \in parts : x.at = v}},
         new |-> UNION {x.new : x \in {x \in parts : x.at = v}}]]

\* The last operation of each snapshot that has one.
LastOperations ==
    LET done == {ops[c].snap : c \in DOMAIN ops}
    IN  {last \in [done -> DOMAIN ops] : \A c \in done : ops[last[c]].snap = c}

RebuildCohortMap ==
    /\ stage = "pushing" /\ \A c \in DOMAIN ops : ops[c].pushed
    /\ \E last \in LastOperations :
          LET parts == UNION {Rebuilt(c, last) : c \in DOMAIN cohorts} IN
          \E id \in [{x.at : x \in parts} -> {x.id : x \in parts}] :
              /\ \A v \in DOMAIN id : \E x \in parts : x.at = v /\ x.id = id[v]
              /\ cohorts' = Merged(parts, id)
              /\ split' = split \cup {cohorts[c].id : c \in SplitKeys(last)}
              /\ tainted' = tainted \cup MembersUnder(cohorts', split')
                                    \cup UNION {Members(cohorts[c]) : c \in SplitKeys(last)}
    /\ stage' = "sleeping" /\ snaps' = NoMap /\ ops' = NoMap
    /\ UNCHANGED <<rows, refs, myRef, pc, listed, got, garbled, errors>>

\* Somebody inserts a row.
InsertRow ==
    /\ rows < MaxRows
    /\ rows' = rows + 1
    /\ UNCHANGED <<cohorts, refs, myRef, pc, pollVars, got, garbled, histVars, errors>>

-------------------------------------------------------------------------------
PollStep ==
    \/ StartPoll \/ RunDBStreamingSubscription \/ RebuildCohortMap
    \/ \E c \in Keys : GetCohortSnapshot(c) \/ ReadPreviousResponse(c) \/ PushResultToCohort(c)

Next ==
    \/ \E s \in Subs : AddToCohort(s) \/ AddToPoller(s) \/ RemoveStreamingQuery(s)
    \/ PollStep \/ RunDBStreamingSubscriptionFails \/ InsertRow

Spec == Init /\ [][Next]_vars

\* The thread of the poller goes on.
FairSpec == Spec /\ WF_vars(PollStep)

-------------------------------------------------------------------------------
(* Properties *)

\* A subscriber is sent every row after its initial value once and in order, whatever
\* cohorts it passes through, unless somebody joined a cohort of it in the middle of a
\* poll: then two cohorts have the same id and references, and mix up their results,
\* and whoever joined is in both.
InOrderUnlessSplit == garbled = {}

\* removeStreamingQuery finds a subscriber whose cohort has kept its references, except
\* while a poll is between the push and the rebuild of the map.
LocatedUnlessMergedOrMoving ==
    \A s \in Subs : pc[s] = "active" /\ s \notin tainted =>
        \E c \in DOMAIN cohorts :
            /\ s \in Members(cohorts[c])
            /\ \/ refs[myRef[s]].cursor = c
               \/ cohorts[c].id # myRef[s]
               \/ \E d \in DOMAIN ops : ops[d].pushed /\ snaps[ops[d].snap].id = myRef[s]

\* A poll that has snapshots of subscribers that are gone by the time of the rebuild does
\* not bring them back (case 2 of Note [Streaming subscriptions rebuilding cohort map]).
NeverComesBack ==
    [][\A s \in Subs : pc[s] = "gone" /\ s \notin Served(cohorts) => s \notin Served(cohorts')]_vars

\* Whoever stays subscribed gets every row, also when it came in the middle of a poll or
\* its cohort was merged with others.
EveryRowArrives ==
    \A s \in Subs : <>[](pc[s] = "active" => s \in tainted \/ got[s] >= rows)

\* The comment on StreamingSubscriberDetails says that the subscriber is located with
\* the latest cursor value and stopped; the test of a concurrent removal
\* says that it is not retained in any of the cohorts.
RemovedAreGone == \A s \in Subs : pc[s] = "gone" => s \notin Served(cohorts)

===============================================================================
