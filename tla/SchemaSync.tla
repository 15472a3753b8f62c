------------------------------ MODULE SchemaSync ------------------------------
(*****************************************************************************)
(* Metadata changes by several graphql-engine instances on one metadata      *)
(* database, and how their schema caches follow                               *)
(* (server/src-lib/Hasura/Server/SchemaUpdate.hs, Server/SchemaCacheRef.hs,   *)
(* Server/API/Metadata.hs, Server/API/V2Query.hs, RQL/DDL/Schema/Catalog.hs,  *)
(* App.hs).                                                                   *)
(*                                                                           *)
(* Every instance has a listener thread, which polls the resource version    *)
(* into a TMVar, a processor thread, which takes it out and refreshes the     *)
(* cache, and API requests.  _scrLock lets one refresh or request at a time   *)
(* change the cache of an instance; the database orders nothing beyond single *)
(* transactions, and each numbered step below is one of its own:              *)
(*                                                                           *)
(*   request: fetchMetadata, build, 1 setMetadata, 2 notifySchemaCacheSync    *)
(*   refresh: 1 fetchMetadata, 2 fetchMetadataNotifications, build            *)
(*                                                                           *)
(* The metadata is the set of requests it incorporates.                       *)
(*****************************************************************************)
EXTENDS Naturals, Sequences

CONSTANTS
    Instances,      \* graphql-engine processes on one metadata database
    Requests,       \* API requests that change the metadata
    MaxFaults       \* bound: crashes and failed transactions

ASSUME FaultsAssumption == MaxFaults \in Nat

VARIABLES
    db,         \* the row of hdb_metadata: its resource_version and metadata
    row,        \* the row of hdb_schema_notifications; version 0 is no row
    up,         \* the instances that run
    cache,      \* cache[i]: the schema cache of i
    ref,        \* ref[i]: the TMVar between the listener and the processor
    polled,     \* polled[i]: a version that the listener has yet to forcePut
    received,   \* received[i]: a version that the processor took from ref[i]
    work,       \* work[i]: what the holder of _scrLock is doing
    pending,    \* requests that no client has sent yet
    history,    \* history: the metadata at every version so far
    acked,      \* history: requests that were answered with success
    missed,     \* history: instances that adopted a version which they had
                \* no means to learn about (see Unannounced)
    faults      \* number of faults so far

cacheVars == <<cache, missed>>
pollVars  == <<ref, polled, received>>
dbVars    == <<db, row, history>>
vars == <<db, row, up, cache, ref, polled, received, work, pending, history,
          acked, missed, faults>>

-------------------------------------------------------------------------------
\* Maybe a value: Nothing is {}, Just x is {x}.
Nothing == {}
Just(x) == {x}
Maybe(S) == {Nothing} \cup {Just(x) : x \in S}

Metadata == SUBSET Requests
Versions == 1 .. Len(history)

\* label: scMetadataResourceVersion; metadata: what the cache was built from;
\* reloaded: the versions whose CacheInvalidations it has carried out.
Cache == [label : Maybe(Versions), metadata : Metadata, reloaded : SUBSET Versions]

\* refreshing: 1 is done, 2 is next; modifying: 1 is next; announcing: 2 is next.
\* version: of the fetched metadata, the version to replace, the new version.
\* labels: runMetadataQuery labels the cache with the new version, runQuery
\* does not.
Stages == {"idle", "refreshing", "modifying", "announcing"}
Work == [stage : Stages, request : Maybe(Requests), labels : BOOLEAN,
         version : Nat, metadata : Metadata]
NoWork == [stage |-> "idle", request |-> Nothing, labels |-> FALSE,
           version |-> 0, metadata |-> {}]

TypeOK ==
    /\ db \in [version : Versions, metadata : Metadata]
    /\ row \in [version : 0 .. Len(history), by : Maybe(Instances)]
    /\ up \subseteq Instances
    /\ cache \in [Instances -> Cache]
    /\ ref \in [Instances -> Maybe(Versions)]
    /\ polled \in [Instances -> Maybe(Versions)]
    /\ received \in [Instances -> Maybe(Versions)]
    /\ work \in [Instances -> Work]
    /\ pending \subseteq Requests
    /\ history \in Seq(Metadata)
    /\ acked \subseteq Requests
    /\ missed \subseteq Instances
    /\ faults \in 0 .. MaxFaults

FirstCache == [label |-> Nothing, metadata |-> {}, reloaded |-> {1}]

Init ==
    /\ db = [version |-> 1, metadata |-> {}]
    /\ row = [version |-> 0, by |-> Nothing]
    /\ up = Instances
    /\ cache = [i \in Instances |-> FirstCache]
    /\ ref = [i \in Instances |-> Nothing]
    /\ polled = [i \in Instances |-> Nothing]
    /\ received = [i \in Instances |-> Nothing]
    /\ work = [i \in Instances |-> NoWork]
    /\ pending = Requests
    /\ history = << {} >>
    /\ acked = {}
    /\ missed = {}
    /\ faults = 0

-------------------------------------------------------------------------------
\* The lock of the SchemaCacheRef.

Unlocked(i) == i \in up /\ work[i] = NoWork

Acquire(i, w) == work' = [work EXCEPT ![i] = w]
Release(i)    == work' = [work EXCEPT ![i] = NoWork]

-------------------------------------------------------------------------------
\* Requests (runMetadataQuery and the runQuery of V2Query and Query).

\* The lock is taken, the metadata is fetched and the cache is built with the
\* request r applied to it.  setMetadata will replace version v: the fetched
\* one or a resource_version that the client had seen and put in its request.
RunMetadataQuery(i, r, v) ==
    /\ Unlocked(i)
    /\ r \in pending
    /\ v \in Versions
    /\ pending' = pending \ {r}
    /\ Acquire(i, [stage |-> "modifying", request |-> Just(r), labels |-> TRUE,
                   version |-> v, metadata |-> db.metadata \cup {r}])
    /\ UNCHANGED <<dbVars, up, cacheVars, pollVars, acked, faults>>

\* replace_metadata: the client exported version v, made its change and sends
\* the whole back together with resource_version v.
ReplaceMetadata(i, r, v) ==
    /\ Unlocked(i)
    /\ r \in pending
    /\ v \in Versions
    /\ pending' = pending \ {r}
    /\ Acquire(i, [stage |-> "modifying", request |-> Just(r), labels |-> TRUE,
                   version |-> v, metadata |-> history[v] \cup {r}])
    /\ UNCHANGED <<dbVars, up, cacheVars, pollVars, acked, faults>>

\* run_sql and the old /v1/query: always the fetched version.
RunQuery(i, r) ==
    /\ Unlocked(i)
    /\ r \in pending
    /\ pending' = pending \ {r}
    /\ Acquire(i, [stage |-> "modifying", request |-> Just(r), labels |-> FALSE,
                   version |-> db.version, metadata |-> db.metadata \cup {r}])
    /\ UNCHANGED <<dbVars, up, cacheVars, pollVars, acked, faults>>

\* Mutant: the version is not compared.
VersionUnchecked(i) == TRUE

\* WHERE hdb_metadata.resource_version = $2
VersionMatches(i) == work[i].version = db.version

SetMetadata(i) ==
    /\ work[i].stage = "modifying"
    /\ VersionMatches(i)
    /\ db' = [version |-> db.version + 1, metadata |-> work[i].metadata]
    /\ history' = Append(history, work[i].metadata)
    /\ Acquire(i, [work[i] EXCEPT !.stage = "announcing", !.version = db.version + 1])
    /\ UNCHANGED <<row, up, cacheVars, pollVars, pending, acked, faults>>

\* throw409: the new cache is dropped, the client sees the conflict.
SetMetadataConflict(i) ==
    /\ work[i].stage = "modifying"
    /\ ~ VersionMatches(i)
    /\ Release(i)
    /\ UNCHANGED <<dbVars, up, cacheVars, pollVars, pending, acked, faults>>

\* Mutants: the version is bumped a second time, or forgotten.
LabelledNext(c, v) == [c EXCEPT !.label = Just(v + 1)]
Unlabelled(c, v) == c

\* setMetadataResourceVersionInSchemaCache
Labelled(c, v) == [c EXCEPT !.label = Just(v)]

\* The cache that the request built, with the invalidations of the request.
Modified(i) ==
    LET built == [label    |-> cache[i].label,
                  metadata |-> work[i].metadata,
                  reloaded |-> cache[i].reloaded \cup {work[i].version}]
    IN  IF work[i].labels THEN Labelled(built, work[i].version) ELSE built

\* The only row is overwritten, whatever its version; then the new cache is
\* installed and the request is answered.
NotifySchemaCacheSync(i) ==
    /\ work[i].stage = "announcing"
    /\ row' = [version |-> work[i].version, by |-> Just(i)]
    /\ cache' = [cache EXCEPT ![i] = Modified(i)]
    /\ missed' = missed \ {i}
    /\ acked' = acked \cup work[i].request
    /\ Release(i)
    /\ UNCHANGED <<db, up, pollVars, pending, history, faults>>

-------------------------------------------------------------------------------
\* The listener and the processor.

\* The listener empties the TMVar and reads the resource version, ...
ListenerPoll(i) ==
    /\ i \in up
    /\ polled[i] = Nothing
    /\ ref' = [ref EXCEPT ![i] = Nothing]
    /\ polled' = [polled EXCEPT ![i] = Just(db.version)]
    /\ UNCHANGED <<dbVars, up, cacheVars, received, work, pending, acked, faults>>

\* ... and puts it into the TMVar; then it sleeps.
ListenerPut(i) ==
    /\ i \in up
    /\ polled[i] # Nothing
    /\ ref' = [ref EXCEPT ![i] = polled[i]]
    /\ polled' = [polled EXCEPT ![i] = Nothing]
    /\ UNCHANGED <<dbVars, up, cacheVars, received, work, pending, acked, faults>>

\* takeTMVar, once the last version has been dealt with.
ProcessorTake(i) ==
    /\ i \in up
    /\ ref[i] # Nothing
    /\ received[i] = Nothing
    /\ work[i].stage # "refreshing"
    /\ received' = [received EXCEPT ![i] = ref[i]]
    /\ ref' = [ref EXCEPT ![i] = Nothing]
    /\ UNCHANGED <<dbVars, up, cacheVars, polled, work, pending, acked, faults>>

\* The processor has the lock and looks at the version it received.
Refresh(i) ==
    /\ Unlocked(i)
    /\ received[i] # Nothing
    /\ received' = [received EXCEPT ![i] = Nothing]
    /\ UNCHANGED <<dbVars, up, ref, polled, pending, acked, faults>>

\* The first version ever is adopted without a look at the metadata.
AdoptFirst(i) ==
    /\ Refresh(i)
    /\ cache[i].label = Nothing
    /\ \E v \in received[i] :
          /\ cache' = [cache EXCEPT ![i] = Labelled(cache[i], v)]
          /\ missed' = IF history[v] \subseteq cache[i].metadata
                       THEN missed ELSE missed \cup {i}
    /\ UNCHANGED work

\* The version is the one of the cache: nothing to do.
RefreshCurrent(i) ==
    /\ Refresh(i)
    /\ cache[i].label = received[i]
    /\ UNCHANGED <<work, cacheVars>>

\* Mutant: the refresh uses what the listener read.
FetchedByListener(i) ==
    LET v == CHOOSE v \in received[i] : TRUE
    IN  [version |-> v, metadata |-> history[v]]

\* What a refresh fetches is the latest, not what the listener saw.
FetchedMetadata(i) == db

RefreshFetch(i) ==
    /\ Refresh(i)
    /\ cache[i].label \notin {Nothing, received[i]}
    /\ Acquire(i, [NoWork EXCEPT !.stage = "refreshing",
                                 !.version = FetchedMetadata(i).version,
                                 !.metadata = FetchedMetadata(i).metadata])
    /\ UNCHANGED cacheVars

\* Mutant: only a notification for the next version counts.
NotifiedOfNext(i) ==
    /\ \A v \in cache[i].label : row.version = v + 1
    /\ row.by # Just(i)

\* resource_version > $1 AND instance_id != $2
Notified(i) ==
    /\ \A v \in cache[i].label : row.version > v
    /\ row.by # Just(i)

\* The newest metadata that i fetched has no notification yet, or the one it
\* had was overwritten with an older one.
Unannounced(i) == row.version < work[i].version

\* No notifications: the version is adopted, the cache stays as it is.
RefreshLabelOnly(i) ==
    /\ work[i].stage = "refreshing"
    /\ ~ Notified(i)
    /\ cache' = [cache EXCEPT ![i] = Labelled(cache[i], work[i].version)]
    /\ missed' = IF Unannounced(i) THEN missed \cup {i} ELSE missed
    /\ Release(i)
    /\ UNCHANGED <<dbVars, up, pollVars, pending, acked, faults>>

\* A notification for the next version is taken as a complete account,
\* any other makes the refresh invalidate everything there is.
Invalidated(i) ==
    IF cache[i].label = Just(row.version - 1) THEN {row.version} ELSE Versions

RefreshRebuild(i) ==
    /\ work[i].stage = "refreshing"
    /\ Notified(i)
    /\ cache' = [cache EXCEPT ![i] =
                    Labelled([label    |-> cache[i].label,
                              metadata |-> work[i].metadata,
                              reloaded |-> cache[i].reloaded \cup Invalidated(i)],
                             work[i].version)]
    /\ missed' = missed \ {i}
    /\ Release(i)
    /\ UNCHANGED <<dbVars, up, pollVars, pending, acked, faults>>

-------------------------------------------------------------------------------
\* Failures.

\* A transaction of the holder of the lock fails: the error is logged or sent
\* to the client and the cache stays as it was, even if setMetadata succeeded.
TransactionFails(i) ==
    /\ work[i] # NoWork
    /\ faults < MaxFaults
    /\ faults' = faults + 1
    /\ Release(i)
    /\ UNCHANGED <<dbVars, up, cacheVars, pollVars, pending, acked>>

\* The poll fails: the TMVar has been emptied and nothing is put.
ListenerFails(i) ==
    /\ i \in up
    /\ polled[i] = Nothing
    /\ ref[i] # Nothing
    /\ faults < MaxFaults
    /\ faults' = faults + 1
    /\ ref' = [ref EXCEPT ![i] = Nothing]
    /\ UNCHANGED <<dbVars, up, cacheVars, polled, received, work, pending, acked>>

Crash(i) ==
    /\ i \in up
    /\ faults < MaxFaults
    /\ faults' = faults + 1
    /\ up' = up \ {i}
    /\ ref' = [ref EXCEPT ![i] = Nothing]
    /\ polled' = [polled EXCEPT ![i] = Nothing]
    /\ received' = [received EXCEPT ![i] = Nothing]
    /\ Release(i)
    /\ UNCHANGED <<dbVars, cacheVars, pending, acked>>

\* The cache is built from the metadata before the listener starts.  The
\* instance has a new instance_id, so its old notification is another's.
Start(i) ==
    /\ i \notin up
    /\ up' = up \cup {i}
    /\ cache' = [cache EXCEPT ![i] = [label    |-> Nothing,
                                      metadata |-> db.metadata,
                                      reloaded |-> Versions]]
    /\ row' = [row EXCEPT !.by = @ \ {i}]
    /\ missed' = missed \ {i}
    /\ Release(i)
    /\ UNCHANGED <<db, pollVars, pending, history, acked, faults>>

-------------------------------------------------------------------------------
Request(i) ==
    \/ \E r \in Requests, v \in Versions :
          RunMetadataQuery(i, r, v) \/ ReplaceMetadata(i, r, v)
    \/ \E r \in Requests : RunQuery(i, r)
    \/ SetMetadata(i) \/ SetMetadataConflict(i) \/ NotifySchemaCacheSync(i)

Sync(i) ==
    \/ ListenerPoll(i) \/ ListenerPut(i) \/ ProcessorTake(i)
    \/ AdoptFirst(i) \/ RefreshCurrent(i) \/ RefreshFetch(i)
    \/ RefreshLabelOnly(i) \/ RefreshRebuild(i)

Failure(i) == TransactionFails(i) \/ ListenerFails(i) \/ Crash(i) \/ Start(i)

Next == \E i \in Instances : Request(i) \/ Sync(i) \/ Failure(i)

Spec == Init /\ [][Next]_vars

\* The threads are immortal and the lock is handed on in order.  The processor
\* gets its turn although the listener empties the TMVar again: the listener
\* sleeps between two polls, the processor is woken by the put.
Fairness ==
    \A i \in Instances :
        /\ WF_vars(SetMetadata(i) \/ SetMetadataConflict(i))
        /\ WF_vars(NotifySchemaCacheSync(i))
        /\ WF_vars(ListenerPoll(i))
        /\ WF_vars(ListenerPut(i))
        /\ SF_vars(ProcessorTake(i))
        /\ WF_vars(AdoptFirst(i) \/ RefreshCurrent(i) \/ RefreshFetch(i))
        /\ WF_vars(RefreshLabelOnly(i) \/ RefreshRebuild(i))

FairSpec == Spec /\ Fairness

-------------------------------------------------------------------------------
\* The metadata API implements MetadataStore: whatever instances do at the same
\* time, and whatever version a client names, a request that takes effect does
\* so on the latest version, and success is reported only for what is there.
Store == INSTANCE MetadataStore WITH
    Requests <- Requests, history <- history, acked <- acked
ImplementsStore == Store!Spec

\* A request that was answered with success is in the metadata for good: no
\* concurrent request or replace_metadata based on an older version removes it.
NoLostUpdate == acked \subseteq db.metadata

\* An instance only ever serves metadata that was committed: the cache of a
\* request whose setMetadata failed is never installed.
ServesCommitted ==
    \A i \in Instances : \E v \in Versions : cache[i].metadata = history[v]

\* While an instance runs its cache never goes back to older metadata, and it
\* never takes on an older version: requests and refreshes fetch the metadata
\* after they have got the lock.
NeverGoesBack(i) ==
    /\ cache[i].metadata \subseteq cache'[i].metadata
    /\ \A v \in cache[i].label, w \in cache'[i].label : v <= w
CacheNeverGoesBack == [][\A i \in up : i \in up' => NeverGoesBack(i)]_vars

\* An instance whose cache has the latest version as its label is built from
\* the latest metadata, unless it adopted a version it could not learn about.
\* It may leave its own changes out of account, and need not see every version.
InSync(i) == cache[i].label = Just(db.version) => cache[i].metadata = db.metadata
InSyncUnlessMissed == \A i \in up \ missed : InSync(i)

\* What an instance serves is what its label says, and never made up.
CachesRight == ServesCommitted /\ InSyncUnlessMissed

\* In the end every running instance has the latest version as its label: no
\* version is stuck between the listener and the processor.
VersionsConverge == <>[](\A i \in up : cache[i].label = Just(db.version))

-------------------------------------------------------------------------------
\* The inductive invariant behind the safety properties.

\* The database holds the last version, and versions only add requests.
HistoryInv ==
    /\ Len(history) > 0
    /\ db = [version |-> Len(history), metadata |-> history[Len(history)]]
    /\ \A v, w \in Versions : v <= w => history[v] \subseteq history[w]

\* A request to set version n modifies what version n or a later one held; if
\* n is still the last version then that is what the request modifies.
ModifyingInv(i) ==
    work[i].stage = "modifying" =>
        /\ work[i].request # Nothing
        /\ \E v \in Versions : /\ work[i].version <= v
                                /\ work[i].metadata = history[v] \cup work[i].request

\* The holder of the lock has, from the database, at least what the cache has.
HoldingInv(i) ==
    work[i].stage \in {"refreshing", "announcing"} =>
        /\ work[i].version \in Versions
        /\ work[i].metadata = history[work[i].version]
        /\ cache[i].metadata \subseteq work[i].metadata
        /\ \A v \in cache[i].label : v <= work[i].version

AnnouncingInv(i) == work[i].stage = "announcing" => work[i].request \subseteq work[i].metadata

\* What an instance wrote a notification for, its cache incorporates.
OwnRowInv(i) == row.by = Just(i) =>
    row.version \in Versions /\ history[row.version] \subseteq cache[i].metadata

\* An instance that missed nothing has built what its label says.
LabelInv(i) == i \notin missed =>
    \A v \in cache[i].label : history[v] \subseteq cache[i].metadata

IInv ==
    /\ TypeOK
    /\ HistoryInv
    /\ NoLostUpdate
    /\ ServesCommitted
    /\ \A i \in Instances : ModifyingInv(i) /\ HoldingInv(i) /\ AnnouncingInv(i)
    /\ \A i \in Instances : OwnRowInv(i) /\ LabelInv(i)
===============================================================================
