-------------------------- MODULE SchemaSync_proofs ---------------------------
(*****************************************************************************)
(* Proofs of the safety properties of SchemaSync, and that it implements     *)
(* MetadataStore, for any instances, requests and number of faults.          *)
(*****************************************************************************)
EXTENDS SchemaSync, TLAPS

\* Building and taking apart values of Maybe.
LEMMA MaybeFacts ==
    /\ \A S : Nothing \in Maybe(S)
    /\ \A S, x : x \in S => Just(x) \in Maybe(S)
    /\ \A S, m, x : m \in Maybe(S) /\ x \in m => x \in S /\ m = Just(x)
    /\ \A S, m : m \in Maybe(S) => m = Nothing \/ \E x \in S : m = Just(x)
    /\ \A S, T, m : S \subseteq T /\ m \in Maybe(S) => m \in Maybe(T)
BY DEF Maybe, Nothing, Just

\* What appending a version does to the history.
LEMMA AppendFacts ==
    ASSUME NEW S, NEW h \in Seq(S), NEW m \in S
    PROVE  /\ Append(h, m) \in Seq(S)
           /\ Len(h) \in Nat
           /\ Len(Append(h, m)) = Len(h) + 1
           /\ \A v \in 1 .. Len(h) : Append(h, m)[v] = h[v]
           /\ Append(h, m)[Len(h) + 1] = m
OBVIOUS

-------------------------------------------------------------------------------
\* The initial states satisfy the invariant.
LEMMA InitInv == Init => IInv
<1> SUFFICES ASSUME Init PROVE IInv
    OBVIOUS
<1>1. /\ history \in Seq(Metadata)
      /\ Len(history) = 1
      /\ history[1] = {}
      /\ Versions = {1}
    BY DEF Init, Metadata, Versions
<1>2. NoWork \in Work
    BY MaybeFacts DEF NoWork, Work, Stages, Metadata
<1>3. FirstCache \in Cache
    BY <1>1, MaybeFacts DEF FirstCache, Cache, Metadata
<1>4. TypeOK
    BY <1>1, <1>2, <1>3, MaybeFacts, FaultsAssumption DEF Init, TypeOK, Metadata
<1>5. HistoryInv
    BY <1>1 DEF Init, HistoryInv
<1>6. NoLostUpdate /\ ServesCommitted
    BY <1>1 DEF Init, NoLostUpdate, ServesCommitted, FirstCache
<1>7. ASSUME NEW i \in Instances
      PROVE  ModifyingInv(i) /\ HoldingInv(i) /\ AnnouncingInv(i) /\ OwnRowInv(i) /\ LabelInv(i)
    BY DEF Init, ModifyingInv, HoldingInv, AnnouncingInv, OwnRowInv, LabelInv,
           NoWork, FirstCache, Just, Nothing
<1> QED
    BY <1>4, <1>5, <1>6, <1>7 DEF IInv
-------------------------------------------------------------------------------
\* Next as one list of actions, for the case splits below.
LEMMA NextCases ==
    ASSUME NEW i \in Instances, Request(i) \/ Sync(i) \/ Failure(i), NEW P,
           (\E r \in Requests, v \in Versions : RunMetadataQuery(i, r, v)) => P,
           (\E r \in Requests, v \in Versions : ReplaceMetadata(i, r, v)) => P,
           (\E r \in Requests : RunQuery(i, r)) => P,
           SetMetadata(i) => P, SetMetadataConflict(i) => P,
           NotifySchemaCacheSync(i) => P,
           ListenerPoll(i) => P, ListenerPut(i) => P, ProcessorTake(i) => P,
           AdoptFirst(i) => P, RefreshCurrent(i) => P, RefreshFetch(i) => P,
           RefreshLabelOnly(i) => P, RefreshRebuild(i) => P,
           TransactionFails(i) => P, ListenerFails(i) => P, Crash(i) => P,
           Start(i) => P
    PROVE  P
BY DEF Request, Sync, Failure

\* The types of the parts of a state, as the steps below use them.
LEMMA TypeFacts ==
    ASSUME IInv, NEW i \in Instances
    PROVE  /\ Len(history) \in Nat /\ Len(history) > 0
           /\ db.version = Len(history) /\ db.metadata \in Metadata
           /\ \A v \in Versions : v \in Nat /\ history[v] \in Metadata
           /\ cache[i] \in Cache
           /\ work[i] \in Work
           /\ NoWork \in Work
           /\ Len(history) \in Versions
           /\ row.version \in 0 .. Len(history)
<1>1. history \in Seq(Metadata) /\ Len(history) > 0
    BY DEF IInv, TypeOK, HistoryInv
<1>2. NoWork \in Work
    BY MaybeFacts DEF NoWork, Work, Stages, Metadata
<1> QED
    BY <1>1, <1>2 DEF IInv, TypeOK, HistoryInv, Versions

\* Labelling a cache, and building one, yields a cache.
LEMMA CacheTypes ==
    ASSUME NEW c \in Cache, NEW v \in Versions
    PROVE  /\ Labelled(c, v) \in Cache
           /\ \A m \in Metadata, S \in SUBSET Versions :
                 [label |-> c.label, metadata |-> m, reloaded |-> c.reloaded \cup S] \in Cache
BY MaybeFacts DEF Labelled, Cache

\* So does what the holder of the lock makes of its work.
LEMMA WorkTypes == \A w \in Work, n \in Nat :
    [w EXCEPT !.stage = "announcing", !.version = n] \in Work
BY DEF Work, Stages

\* Every step keeps the types.
LEMMA TypeStep ==
    ASSUME IInv, NEW i \in Instances, Request(i) \/ Sync(i) \/ Failure(i)
    PROVE  TypeOK'
<1>0. TypeOK
    BY DEF IInv
<1>a. /\ Len(history) \in Nat /\ Len(history) > 0
      /\ db.version = Len(history) /\ db.metadata \in Metadata
      /\ \A v \in Versions : v \in Nat /\ history[v] \in Metadata
      /\ cache[i] \in Cache
      /\ work[i] \in Work
      /\ NoWork \in Work
      /\ Len(history) \in Versions
      /\ row.version \in 0 .. Len(history)
    BY TypeFacts
<1> USE <1>a, MaybeFacts
<1>1. ASSUME NEW r \in Requests, NEW v \in Versions,
             RunMetadataQuery(i, r, v) \/ ReplaceMetadata(i, r, v)
      PROVE  TypeOK'
    <2>1. \A m \in Metadata : [stage |-> "modifying", request |-> Just(r), labels |-> TRUE,
                   version |-> v, metadata |-> m \cup {r}] \in Work
        BY DEF Work, Stages, Metadata
    <2>2. PICK m \in Metadata : work' = [work EXCEPT ![i] =
              [stage |-> "modifying", request |-> Just(r), labels |-> TRUE,
               version |-> v, metadata |-> m \cup {r}]]
        BY <1>1 DEF RunMetadataQuery, ReplaceMetadata, Acquire
    <2>3. work' \in [Instances -> Work]
        BY <1>0, <2>1, <2>2 DEF TypeOK
    <2> QED
        BY <1>0, <1>1, <2>3 DEF TypeOK, RunMetadataQuery, ReplaceMetadata, dbVars,
           cacheVars, pollVars, Versions, Cache
<1>2. ASSUME NEW r \in Requests, RunQuery(i, r)
      PROVE  TypeOK'
    <2>1. [stage |-> "modifying", request |-> Just(r), labels |-> FALSE,
           version |-> db.version, metadata |-> db.metadata \cup {r}] \in Work
        BY DEF Work, Stages, Metadata
    <2>2. work' \in [Instances -> Work]
        BY <1>0, <1>2, <2>1 DEF TypeOK, RunQuery, Acquire
    <2> QED
        BY <1>0, <1>2, <2>2 DEF TypeOK, RunQuery, dbVars, cacheVars, pollVars, Versions, Cache
<1>3. CASE SetMetadata(i)
    <2>1. work[i].metadata \in Metadata
        BY DEF Work
    <2>2. /\ history' \in Seq(Metadata)
          /\ Len(history') = Len(history) + 1
          /\ Versions' = 1 .. (Len(history) + 1)
        BY <1>0, <1>3, <2>1, AppendFacts DEF TypeOK, SetMetadata, Versions
    <2>3. Versions \subseteq Versions' /\ 0 .. Len(history) \subseteq 0 .. Len(history')
        BY <2>2 DEF Versions
    <2>4. db' \in [version : Versions', metadata : Metadata]
        BY <1>3, <2>1, <2>2 DEF SetMetadata
    <2>5. \A c \in Cache : c \in Cache'
        BY <2>3 DEF Cache
    <2>6. cache' \in [Instances -> Cache']
        BY <1>0, <1>3, <2>5 DEF TypeOK, SetMetadata, cacheVars
    <2>7. /\ ref' \in [Instances -> Maybe(Versions')]
          /\ polled' \in [Instances -> Maybe(Versions')]
          /\ received' \in [Instances -> Maybe(Versions')]
        BY <1>0, <1>3, <2>3 DEF TypeOK, SetMetadata, pollVars
    <2>8. row' \in [version : 0 .. Len(history'), by : Maybe(Instances)]
        BY <1>0, <1>3, <2>3 DEF TypeOK, SetMetadata
    <2>9. [work[i] EXCEPT !.stage = "announcing", !.version = db.version + 1] \in Work
        <3>1. work[i] \in Work /\ db.version + 1 \in Nat
            OBVIOUS
        <3> QED
            BY <3>1, WorkTypes
    <2>10. work' \in [Instances -> Work]
        BY <1>0, <1>3, <2>9 DEF TypeOK, SetMetadata, Acquire
    <2> QED
        BY <1>0, <1>3, <2>2, <2>4, <2>6, <2>7, <2>8, <2>10 DEF TypeOK, SetMetadata, cacheVars
<1>4. CASE SetMetadataConflict(i)
    BY <1>0, <1>4 DEF TypeOK, SetMetadataConflict, Release, dbVars, cacheVars, pollVars,
       Versions, Cache
<1>5. CASE NotifySchemaCacheSync(i)
    <2>1. /\ work[i].version \in Versions
          /\ work[i].metadata \in Metadata
          /\ work[i].request \subseteq Requests
        BY <1>5 DEF IInv, HoldingInv, NotifySchemaCacheSync, Work
    <2>2. Modified(i) \in Cache
        <3> DEFINE built == [label |-> cache[i].label, metadata |-> work[i].metadata,
                             reloaded |-> cache[i].reloaded \cup {work[i].version}]
        <3>1. built \in Cache
            <4>1. {work[i].version} \in SUBSET Versions
                BY <2>1
            <4> QED
                BY <2>1, <4>1, CacheTypes
        <3>2. Labelled(built, work[i].version) \in Cache
            BY <2>1, <3>1, CacheTypes
        <3> QED
            BY <3>1, <3>2 DEF Modified
    <2>3. Versions' = Versions /\ Cache' = Cache
        BY <1>5 DEF NotifySchemaCacheSync, Versions, Cache
    <2>4. row' \in [version : 0 .. Len(history'), by : Maybe(Instances)]
        BY <1>5, <2>1 DEF NotifySchemaCacheSync, Versions
    <2>5. cache' \in [Instances -> Cache]
        BY <1>0, <1>5, <2>2 DEF TypeOK, NotifySchemaCacheSync
    <2> QED
        BY <1>0, <1>5, <2>1, <2>3, <2>4, <2>5 DEF TypeOK, NotifySchemaCacheSync, Release, pollVars
<1>6. CASE ListenerPoll(i) \/ ListenerPut(i) \/ ProcessorTake(i) \/ ListenerFails(i)
    <2>1. Versions' = Versions /\ Cache' = Cache
        BY <1>6 DEF ListenerPoll, ListenerPut, ProcessorTake, ListenerFails, dbVars,
           Versions, Cache
    <2>2. /\ UNCHANGED <<db, row, history, up, cache, missed, work, pending, acked>>
          /\ faults' \in 0 .. MaxFaults
        BY <1>0, <1>6, FaultsAssumption DEF TypeOK, ListenerPoll, ListenerPut,
           ProcessorTake, ListenerFails, dbVars, cacheVars
    <2>3. /\ ref' \in [Instances -> Maybe(Versions)]
          /\ polled' \in [Instances -> Maybe(Versions)]
          /\ received' \in [Instances -> Maybe(Versions)]
        <3>1. CASE ListenerPoll(i)
            BY <1>0, <3>1 DEF TypeOK, ListenerPoll
        <3>2. CASE ListenerPut(i)
            BY <1>0, <3>2 DEF TypeOK, ListenerPut
        <3>3. CASE ProcessorTake(i)
            BY <1>0, <3>3 DEF TypeOK, ProcessorTake
        <3>4. CASE ListenerFails(i)
            BY <1>0, <3>4 DEF TypeOK, ListenerFails
        <3> QED
            BY <1>6, <3>1, <3>2, <3>3, <3>4
    <2> QED
        BY <1>0, <2>1, <2>2, <2>3 DEF TypeOK
<1>7. CASE AdoptFirst(i)
    <2>1. PICK v \in received[i] :
             /\ cache' = [cache EXCEPT ![i] = Labelled(cache[i], v)]
             /\ missed' = missed \/ missed' = missed \cup {i}
        BY <1>7 DEF AdoptFirst
    <2>2. v \in Versions
        BY <1>0 DEF TypeOK
    <2>3. cache' \in [Instances -> Cache]
        BY <1>0, <2>1, <2>2, CacheTypes DEF TypeOK
    <2>4. Versions' = Versions /\ Cache' = Cache
        BY <1>7 DEF AdoptFirst, Refresh, dbVars, Versions, Cache
    <2> QED
        BY <1>0, <1>7, <2>1, <2>3, <2>4 DEF TypeOK, AdoptFirst, Refresh, dbVars
<1>8. CASE RefreshCurrent(i)
    BY <1>0, <1>8 DEF TypeOK, RefreshCurrent, Refresh, dbVars, cacheVars, Versions, Cache
<1>9. CASE RefreshFetch(i)
    <2>1. [NoWork EXCEPT !.stage = "refreshing", !.version = db.version,
                         !.metadata = db.metadata] \in Work
        BY DEF Work, Stages
    <2>2. work' \in [Instances -> Work]
        BY <1>0, <1>9, <2>1 DEF TypeOK, RefreshFetch, FetchedMetadata, Acquire
    <2> QED
        BY <1>0, <1>9, <2>2 DEF TypeOK, RefreshFetch, Refresh, dbVars, cacheVars, Versions, Cache
<1>10. CASE RefreshLabelOnly(i)
    <2>1. work[i].version \in Versions
        BY <1>10 DEF IInv, HoldingInv, RefreshLabelOnly
    <2>2. cache' \in [Instances -> Cache]
        BY <1>0, <1>10, <2>1, CacheTypes DEF TypeOK, RefreshLabelOnly
    <2>3. Versions' = Versions /\ Cache' = Cache
        BY <1>10 DEF RefreshLabelOnly, dbVars, Versions, Cache
    <2> QED
        BY <1>0, <1>10, <2>2, <2>3 DEF TypeOK, RefreshLabelOnly, Release, dbVars, pollVars
<1>11. CASE RefreshRebuild(i)
    <2>1. work[i].version \in Versions /\ work[i].metadata \in Metadata
        BY <1>11 DEF IInv, HoldingInv, RefreshRebuild, Work
    <2>2. cache[i].label = Just(row.version - 1) => row.version \in Versions
        <3> SUFFICES ASSUME cache[i].label = Just(row.version - 1) PROVE row.version \in Versions
            OBVIOUS
        <3>1. cache[i].label \in Maybe(Versions) /\ row.version - 1 \in cache[i].label
            BY DEF Cache, Just
        <3>2. row.version - 1 \in Versions
            BY <3>1
        <3> QED
            BY <3>2 DEF Versions
    <2>3. Invalidated(i) \subseteq Versions
        BY <2>2 DEF Invalidated
    <2>4. cache' \in [Instances -> Cache]
        BY <1>0, <1>11, <2>1, <2>3, CacheTypes DEF TypeOK, RefreshRebuild
    <2>5. Versions' = Versions /\ Cache' = Cache
        BY <1>11 DEF RefreshRebuild, dbVars, Versions, Cache
    <2> QED
        BY <1>0, <1>11, <2>4, <2>5 DEF TypeOK, RefreshRebuild, Release, dbVars, pollVars
<1>12. CASE TransactionFails(i) \/ Crash(i)
    <2>1. Versions' = Versions /\ Cache' = Cache
        BY <1>12 DEF TransactionFails, Crash, dbVars, Versions, Cache
    <2>2. /\ UNCHANGED <<db, row, history, cache, missed, pending, acked>>
          /\ up' \subseteq up
          /\ faults' \in 0 .. MaxFaults
        BY <1>0, <1>12, FaultsAssumption DEF TypeOK, TransactionFails, Crash, dbVars, cacheVars
    <2>3. /\ ref' \in [Instances -> Maybe(Versions)]
          /\ polled' \in [Instances -> Maybe(Versions)]
          /\ received' \in [Instances -> Maybe(Versions)]
        <3>1. CASE TransactionFails(i)
            BY <1>0, <3>1 DEF TypeOK, TransactionFails, pollVars
        <3>2. CASE Crash(i)
            BY <1>0, <3>2 DEF TypeOK, Crash
        <3> QED
            BY <1>12, <3>1, <3>2
    <2>4. work' \in [Instances -> Work]
        <3>1. work \in [Instances -> Work] /\ work' = [work EXCEPT ![i] = NoWork]
            BY <1>0, <1>12 DEF TypeOK, TransactionFails, Crash, Release
        <3> QED
            BY <3>1
    <2> QED
        BY <1>0, <2>1, <2>2, <2>3, <2>4 DEF TypeOK
<1>13. CASE Start(i)
    <2>1. [label |-> Nothing, metadata |-> db.metadata, reloaded |-> Versions] \in Cache
        BY DEF Cache
    <2>2. Versions' = Versions /\ Cache' = Cache
        BY <1>13 DEF Start, Versions, Cache
    <2>3. cache' \in [Instances -> Cache]
        BY <1>0, <1>13, <2>1 DEF TypeOK, Start
    <2>4. row.by \ {i} \in Maybe(Instances)
        <3>1. row.by = Nothing \/ \E j \in Instances : row.by = Just(j)
            BY <1>0 DEF TypeOK
        <3>2. row.by \ {i} = Nothing \/ row.by \ {i} = row.by
            BY <3>1 DEF Nothing, Just
        <3>3. row.by \in Maybe(Instances) /\ Nothing \in Maybe(Instances)
            BY <1>0 DEF TypeOK
        <3> QED
            BY <3>2, <3>3
    <2> QED
        BY <1>0, <1>13, <2>2, <2>3, <2>4 DEF TypeOK, Start, Release, pollVars
<1> QED
    BY <1>1, <1>2, <1>3, <1>4, <1>5, <1>6, <1>7, <1>8, <1>9, <1>10, <1>11, <1>12,
       <1>13, NextCases
-------------------------------------------------------------------------------
\* The parts of the invariant beyond the types.
Rest == /\ HistoryInv
        /\ NoLostUpdate
        /\ ServesCommitted
        /\ \A i \in Instances : ModifyingInv(i) /\ HoldingInv(i) /\ AnnouncingInv(i)
        /\ \A i \in Instances : OwnRowInv(i) /\ LabelInv(i)

\* Steps that change no cache, and nothing in the database, but may end work.
LEMMA FrameStep ==
    ASSUME IInv, UNCHANGED <<db, row, history, cache, missed, acked>>,
           \A j \in Instances : work'[j] = work[j] \/ work'[j] = NoWork
    PROVE  Rest'
<1>1. HistoryInv' /\ NoLostUpdate' /\ ServesCommitted'
    BY DEF IInv, HistoryInv, NoLostUpdate, ServesCommitted, Versions
<1>2. ASSUME NEW j \in Instances
      PROVE  ModifyingInv(j)' /\ HoldingInv(j)' /\ AnnouncingInv(j)'
    <2>1. CASE work'[j] = work[j]
        BY <2>1 DEF IInv, ModifyingInv, HoldingInv, AnnouncingInv, Versions
    <2>2. CASE work'[j] = NoWork
        BY <2>2 DEF NoWork, ModifyingInv, HoldingInv, AnnouncingInv
    <2> QED
        BY <2>1, <2>2
<1>3. ASSUME NEW j \in Instances PROVE OwnRowInv(j)' /\ LabelInv(j)'
    BY DEF IInv, OwnRowInv, LabelInv, Versions
<1> QED
    BY <1>1, <1>2, <1>3 DEF Rest

\* Steps that leave database and caches alone and let i hold w from now on.
LEMMA AcquireStep ==
    ASSUME IInv, UNCHANGED <<db, row, history, cache, missed, acked>>,
           NEW i \in Instances, NEW w, work' = [work EXCEPT ![i] = w],
           ModifyingInv(i)', HoldingInv(i)', AnnouncingInv(i)'
    PROVE  Rest'
<1>1. HistoryInv' /\ NoLostUpdate' /\ ServesCommitted'
    BY DEF IInv, HistoryInv, NoLostUpdate, ServesCommitted, Versions
<1>2. ASSUME NEW j \in Instances, j # i
      PROVE  ModifyingInv(j)' /\ HoldingInv(j)' /\ AnnouncingInv(j)'
    <2>1. work'[j] = work[j]
        BY <1>2 DEF IInv, TypeOK
    <2> QED
        BY <2>1 DEF IInv, ModifyingInv, HoldingInv, AnnouncingInv, Versions
<1>3. ASSUME NEW j \in Instances PROVE OwnRowInv(j)' /\ LabelInv(j)'
    BY DEF IInv, OwnRowInv, LabelInv, Versions
<1> QED
    BY <1>1, <1>2, <1>3 DEF Rest

\* Steps that release the lock of i and replace the cache of i with one that
\* incorporates at least as much: a version, that of its label or a later one.
LEMMA InstallStep ==
    ASSUME IInv, NEW i \in Instances, NEW c, UNCHANGED <<db, history>>,
           cache' = [cache EXCEPT ![i] = c],
           \A j \in Instances \ {i} : work'[j] = work[j] /\ (j \in missed' <=> j \in missed),
           work'[i] = NoWork,
           \E v \in Versions : c.metadata = history[v],
           acked' \subseteq db.metadata,
           \A j \in Instances \ {i} : row'.by = Just(j) => row' = row,
           OwnRowInv(i)', LabelInv(i)'
    PROVE  Rest'
<1>0. /\ \A j \in Instances \ {i} : cache'[j] = cache[j]
      /\ cache'[i] = c
      /\ Versions' = Versions
    BY DEF IInv, TypeOK, Versions
<1>1. HistoryInv' /\ NoLostUpdate'
    BY DEF IInv, HistoryInv, NoLostUpdate, Versions
<1>2. ServesCommitted'
    BY <1>0 DEF IInv, ServesCommitted
<1>3. ASSUME NEW j \in Instances
      PROVE  ModifyingInv(j)' /\ HoldingInv(j)' /\ AnnouncingInv(j)'
    <2>1. CASE j = i
        BY <2>1 DEF NoWork, ModifyingInv, HoldingInv, AnnouncingInv
    <2>2. CASE j # i
        BY <1>0, <2>2 DEF IInv, ModifyingInv, HoldingInv, AnnouncingInv
    <2> QED
        BY <2>1, <2>2
<1>4. ASSUME NEW j \in Instances \ {i} PROVE OwnRowInv(j)' /\ LabelInv(j)'
    BY <1>0 DEF IInv, OwnRowInv, LabelInv
<1> QED
    BY <1>1, <1>2, <1>3, <1>4 DEF Rest

-------------------------------------------------------------------------------
\* Every step keeps the rest of the invariant.
LEMMA RestStep ==
    ASSUME IInv, NEW i \in Instances, Request(i) \/ Sync(i) \/ Failure(i)
    PROVE  Rest'
<1>0. TypeOK /\ HistoryInv /\ NoLostUpdate /\ ServesCommitted
    BY DEF IInv
<1>a. /\ Len(history) \in Nat /\ Len(history) > 0
      /\ db.version = Len(history) /\ db.metadata \in Metadata
      /\ db.metadata = history[Len(history)]
      /\ \A v \in Versions : v \in Nat /\ history[v] \subseteq db.metadata
      /\ Len(history) \in Versions
      /\ cache[i] \in Cache
      /\ work[i] \in Work
    BY TypeFacts DEF IInv, HistoryInv, Versions
<1>b. \A w : (work' = [work EXCEPT ![i] = w])
          => /\ work'[i] = w
             /\ \A j \in Instances \ {i} : work'[j] = work[j]
    BY <1>0 DEF TypeOK
<1>d. \A v \in cache[i].label : v \in Versions
    BY <1>a, MaybeFacts DEF Cache
<1>c. \A c : (cache' = [cache EXCEPT ![i] = c]) => cache'[i] = c
    BY <1>0 DEF TypeOK
<1>1. ASSUME NEW r \in Requests, NEW v \in Versions,
             RunMetadataQuery(i, r, v) \/ ReplaceMetadata(i, r, v)
      PROVE  Rest'
    <2> DEFINE w(m) == [stage |-> "modifying", request |-> Just(r), labels |-> TRUE,
                        version |-> v, metadata |-> m \cup {r}]
    <2>1. PICK u \in Versions : v <= u /\ work' = [work EXCEPT ![i] = w(history[u])]
        <3>1. v <= Len(history)
            BY <1>a DEF Versions
        <3> QED
            BY <1>a, <1>1, <3>1 DEF RunMetadataQuery, ReplaceMetadata, Acquire
    <2>2. UNCHANGED <<db, row, history, cache, missed, acked>>
        BY <1>1 DEF RunMetadataQuery, ReplaceMetadata, dbVars, cacheVars
    <2>3. work'[i] = w(history[u])
        BY <1>b, <2>1
    <2>4. ModifyingInv(i)' /\ HoldingInv(i)' /\ AnnouncingInv(i)'
        <3>1. /\ work'[i].stage = "modifying"
              /\ work'[i].request = Just(r) /\ Just(r) = {r} /\ Just(r) # Nothing
              /\ work'[i].version = v
              /\ work'[i].metadata = history[u] \cup {r}
            BY <2>3 DEF Just, Nothing
        <3>2. Versions' = Versions
            BY <2>2 DEF Versions
        <3>3. ModifyingInv(i)'
            BY <2>1, <2>2, <3>1, <3>2 DEF ModifyingInv
        <3> QED
            BY <3>1, <3>3 DEF HoldingInv, AnnouncingInv
    <2> HIDE DEF w
    <2> QED
        BY <2>1, <2>2, <2>4, AcquireStep
<1>2. ASSUME NEW r \in Requests, RunQuery(i, r)
      PROVE  Rest'
    <2> DEFINE w == [stage |-> "modifying", request |-> Just(r), labels |-> FALSE,
                     version |-> db.version, metadata |-> db.metadata \cup {r}]
    <2>1. work' = [work EXCEPT ![i] = w]
        BY <1>2 DEF RunQuery, Acquire
    <2>2. UNCHANGED <<db, row, history, cache, missed, acked>>
        BY <1>2 DEF RunQuery, dbVars, cacheVars
    <2>3. work'[i] = w
        BY <1>b, <2>1
    <2>4. ModifyingInv(i)' /\ HoldingInv(i)' /\ AnnouncingInv(i)'
        BY <1>a, <2>2, <2>3 DEF ModifyingInv, HoldingInv, AnnouncingInv, Just, Nothing, Versions
    <2> HIDE DEF w
    <2> QED
        BY <2>1, <2>2, <2>4, AcquireStep
<1>3. CASE SetMetadata(i)
    <2> DEFINE n == Len(history) + 1
    <2>1. PICK u \in Versions : /\ db.version <= u
                                /\ work[i].metadata = history[u] \cup work[i].request
        BY <1>3 DEF IInv, ModifyingInv, SetMetadata, VersionMatches
    <2>2. work[i].metadata = db.metadata \cup work[i].request
        <3>1. u = Len(history)
            BY <1>a, <2>1 DEF Versions
        <3> QED
            BY <1>a, <2>1, <3>1
    <2>3. /\ Len(history') = n
          /\ n \in Nat
          /\ \A v \in Versions : history'[v] = history[v]
          /\ history'[n] = work[i].metadata
          /\ Versions' = Versions \cup {n}
        <3>1. history \in Seq(Metadata) /\ work[i].metadata \in Metadata
            BY <1>0, <1>a DEF TypeOK, Work
        <3>2. history' = Append(history, work[i].metadata)
            BY <1>3 DEF SetMetadata
        <3> QED
            BY <3>1, <3>2, AppendFacts DEF Versions
    <2>4. /\ db' = [version |-> n, metadata |-> work[i].metadata]
          /\ UNCHANGED <<row, cache, missed, acked>>
          /\ work' = [work EXCEPT ![i] = [work[i] EXCEPT !.stage = "announcing", !.version = n]]
        BY <1>a, <1>3 DEF SetMetadata, cacheVars, Acquire
    <2>5. HistoryInv'
        BY <1>a, <2>2, <2>3, <2>4, <1>0 DEF HistoryInv, Versions
    <2>6. NoLostUpdate' /\ ServesCommitted'
        BY <1>0, <2>2, <2>3, <2>4 DEF NoLostUpdate, ServesCommitted
    <2>7. cache[i].metadata \subseteq db.metadata
        BY <1>0, <1>a DEF ServesCommitted
    <2>8. \A v \in cache[i].label : v \in Versions /\ v <= n
        BY <1>a, <1>d DEF Versions
    <2>9. /\ work'[i].stage = "announcing"
          /\ work'[i].version = n
          /\ work'[i].metadata = work[i].metadata
          /\ work'[i].request = work[i].request
        <3> DEFINE w == [work[i] EXCEPT !.stage = "announcing", !.version = n]
        <3>1. work'[i] = w
            BY <1>b, <2>4
        <3>2. work[i] \in [stage : Stages, request : Maybe(Requests), labels : BOOLEAN,
                            version : Nat, metadata : Metadata]
            BY <1>a DEF Work
        <3>3. /\ w.stage = "announcing" /\ w.version = n
              /\ w.metadata = work[i].metadata /\ w.request = work[i].request
            BY <3>2
        <3> QED
            BY <3>1, <3>3
    <2>10. ModifyingInv(i)' /\ HoldingInv(i)' /\ AnnouncingInv(i)'
        <3>1. ModifyingInv(i)'
            BY <2>9 DEF ModifyingInv
        <3>2. /\ n \in Versions'
              /\ history'[n] = work'[i].metadata
              /\ cache'[i].metadata \subseteq work'[i].metadata
              /\ \A v \in cache'[i].label : v <= n
            BY <2>2, <2>3, <2>4, <2>7, <2>8, <2>9
        <3>3. HoldingInv(i)'
            BY <2>9, <3>2 DEF HoldingInv
        <3>4. AnnouncingInv(i)'
            BY <2>2, <2>9 DEF AnnouncingInv
        <3> QED
            BY <3>1, <3>3, <3>4
    <2>11. ASSUME NEW j \in Instances \ {i}
           PROVE  ModifyingInv(j)' /\ HoldingInv(j)' /\ AnnouncingInv(j)'
        <3>1. work'[j] = work[j]
            BY <1>b, <2>4
        <3> QED
            BY <3>1, <2>3, <2>4 DEF IInv, ModifyingInv, HoldingInv, AnnouncingInv
    <2>12. ASSUME NEW j \in Instances PROVE OwnRowInv(j)' /\ LabelInv(j)'
        <3>1. \A v \in cache[j].label : v \in Versions
            BY <1>0, MaybeFacts DEF TypeOK, Cache
        <3> QED
            BY <3>1, <2>3, <2>4 DEF IInv, OwnRowInv, LabelInv
    <2> QED
        BY <2>5, <2>6, <2>10, <2>11, <2>12 DEF Rest
<1>4. CASE NotifySchemaCacheSync(i)
    <2>1. /\ work[i].version \in Versions
          /\ work[i].metadata = history[work[i].version]
          /\ work[i].request \subseteq work[i].metadata
          /\ cache[i].metadata \subseteq work[i].metadata
          /\ \A v \in cache[i].label : v <= work[i].version
        BY <1>4 DEF IInv, HoldingInv, AnnouncingInv, NotifySchemaCacheSync
    <2>2. /\ Modified(i).metadata = work[i].metadata
          /\ \A v \in Modified(i).label : v \in Versions /\ v <= work[i].version
        <3>1. \A v \in cache[i].label : v \in Versions
            BY <1>a, MaybeFacts DEF Cache
        <3> QED
            BY <1>a, <2>1, <3>1 DEF Modified, Labelled, Just
    <2>3. \A v \in Modified(i).label : history[v] \subseteq Modified(i).metadata
        BY <1>0, <2>1, <2>2 DEF HistoryInv
    <2>4. /\ cache' = [cache EXCEPT ![i] = Modified(i)]
          /\ cache'[i] = Modified(i)
          /\ work' = [work EXCEPT ![i] = NoWork]
          /\ row' = [version |-> work[i].version, by |-> Just(i)]
          /\ missed' = missed \ {i}
          /\ acked' = acked \cup work[i].request
          /\ UNCHANGED <<db, history>>
          /\ Versions' = Versions
        BY <1>c, <1>4 DEF NotifySchemaCacheSync, Release, Versions
    <2>5. OwnRowInv(i)' /\ LabelInv(i)'
        BY <2>1, <2>2, <2>3, <2>4 DEF OwnRowInv, LabelInv
    <2>6. acked' \subseteq db.metadata
        BY <1>0, <1>a, <2>1, <2>4 DEF NoLostUpdate
    <2>7. \A j \in Instances \ {i} : row'.by # Just(j)
        BY <2>4 DEF Just
    <2>8. /\ work'[i] = NoWork
          /\ \A j \in Instances \ {i} : work'[j] = work[j] /\ (j \in missed' <=> j \in missed)
        BY <1>b, <2>4
    <2>9. \E v \in Versions : Modified(i).metadata = history[v]
        BY <2>1, <2>2
    <2> QED
        BY <2>4, <2>5, <2>6, <2>7, <2>8, <2>9, InstallStep
<1>5. CASE \/ SetMetadataConflict(i) \/ ListenerPoll(i) \/ ListenerPut(i)
           \/ ProcessorTake(i) \/ RefreshCurrent(i) \/ ListenerFails(i)
           \/ TransactionFails(i) \/ Crash(i)
    <2>1. /\ UNCHANGED <<db, row, history, cache, missed, acked>>
          /\ work' = work \/ work' = [work EXCEPT ![i] = NoWork]
        BY <1>5 DEF SetMetadataConflict, ListenerPoll, ListenerPut, ProcessorTake,
           RefreshCurrent, Refresh, ListenerFails, TransactionFails, Crash, Release,
           dbVars, cacheVars
    <2>2. \A j \in Instances : work'[j] = work[j] \/ work'[j] = NoWork
        BY <1>b, <2>1
    <2> QED
        BY <2>1, <2>2, FrameStep
<1>6. CASE RefreshFetch(i)
    <2> DEFINE w == [NoWork EXCEPT !.stage = "refreshing", !.version = db.version,
                                   !.metadata = db.metadata]
    <2>1. work' = [work EXCEPT ![i] = w]
        BY <1>6 DEF RefreshFetch, FetchedMetadata, Acquire
    <2>2. UNCHANGED <<db, row, history, cache, missed, acked>>
        BY <1>6 DEF RefreshFetch, Refresh, dbVars, cacheVars
    <2>3. /\ work'[i].stage = "refreshing"
          /\ work'[i].version = Len(history)
          /\ work'[i].metadata = db.metadata
        <3>1. work'[i] = w
            BY <1>b, <2>1
        <3> QED
            BY <1>a, <3>1 DEF NoWork
    <2>4. cache[i].metadata \subseteq db.metadata
        BY <1>0, <1>a DEF ServesCommitted
    <2>5. \A v \in cache[i].label : v <= Len(history)
        BY <1>a, <1>d DEF Versions
    <2>6. ModifyingInv(i)' /\ HoldingInv(i)' /\ AnnouncingInv(i)'
        BY <1>a, <2>2, <2>3, <2>4, <2>5 DEF ModifyingInv, HoldingInv, AnnouncingInv, Versions
    <2> HIDE DEF w
    <2> QED
        BY <2>1, <2>2, <2>6, AcquireStep
<1>7. CASE AdoptFirst(i)
    <2>1. PICK v \in received[i] :
             /\ cache' = [cache EXCEPT ![i] = Labelled(cache[i], v)]
             /\ missed' = IF history[v] \subseteq cache[i].metadata
                          THEN missed ELSE missed \cup {i}
        BY <1>7 DEF AdoptFirst
    <2>2. /\ cache'[i] = Labelled(cache[i], v)
          /\ cache'[i].label = Just(v)
          /\ cache'[i].metadata = cache[i].metadata
        <3>1. cache'[i] = Labelled(cache[i], v)
            BY <1>c, <2>1
        <3> QED
            BY <1>a, <3>1 DEF Labelled, Cache
    <2>3. UNCHANGED <<db, row, history, work, acked>> /\ work[i] = NoWork
        BY <1>7 DEF AdoptFirst, Refresh, Unlocked, dbVars
    <2>4. LabelInv(i)'
        BY <2>1, <2>2, <2>3 DEF LabelInv, Just
    <2>5. OwnRowInv(i)'
        BY <2>2, <2>3 DEF IInv, OwnRowInv, Versions
    <2>6. \E u \in Versions : Labelled(cache[i], v).metadata = history[u]
        BY <1>0, <2>2 DEF ServesCommitted
    <2>7. \A j \in Instances \ {i} : j \in missed' <=> j \in missed
        BY <2>1
    <2> QED
        BY <1>0, <2>1, <2>3, <2>4, <2>5, <2>6, <2>7, InstallStep DEF NoLostUpdate
<1>8. CASE RefreshLabelOnly(i)
    <2>1. /\ cache' = [cache EXCEPT ![i] = Labelled(cache[i], work[i].version)]
          /\ missed' = IF Unannounced(i) THEN missed \cup {i} ELSE missed
          /\ work' = [work EXCEPT ![i] = NoWork]
          /\ UNCHANGED <<db, row, history, acked>>
        BY <1>8 DEF RefreshLabelOnly, Release, dbVars
    <2>2. /\ cache'[i].label = Just(work[i].version)
          /\ cache'[i].metadata = cache[i].metadata
          /\ Labelled(cache[i], work[i].version).metadata = cache[i].metadata
        <3>1. cache[i] \in Cache
            BY <1>a
        <3>2. cache'[i] = Labelled(cache[i], work[i].version)
            BY <1>a, <1>c, <2>1
        <3> QED
            BY <3>1, <3>2 DEF Labelled, Cache
    <2>3. /\ work[i].version \in Versions
          /\ \A v \in cache[i].label : v <= work[i].version
        BY <1>8 DEF IInv, HoldingInv, RefreshLabelOnly
    <2>4. ASSUME i \notin missed' PROVE history[work[i].version] \subseteq cache[i].metadata
        <3>1. i \notin missed /\ row.version >= work[i].version
            <4>1. i \notin missed /\ ~ Unannounced(i)
                BY <2>1, <2>4
            <4> QED
                BY <4>1, <2>3, <1>a, TypeFacts DEF Unannounced
        <3>2. CASE row.by = Just(i)
            <4>1. row.version \in Versions /\ history[row.version] \subseteq cache[i].metadata
                BY <3>2 DEF IInv, OwnRowInv
            <4>2. history[work[i].version] \subseteq history[row.version]
                BY <1>0, <2>3, <3>1, <4>1 DEF HistoryInv
            <4> QED
                BY <4>1, <4>2
        <3>3. CASE row.by # Just(i)
            <4>1. PICK v \in cache[i].label : ~ (row.version > v)
                BY <1>8, <3>3 DEF RefreshLabelOnly, Notified
            <4>2. v \in Nat /\ row.version \in Nat /\ work[i].version \in Nat
                BY <1>a, <2>3, TypeFacts, MaybeFacts DEF Cache
            <4>3. v = work[i].version
                BY <2>3, <3>1, <4>1, <4>2
            <4> QED
                BY <3>1, <4>1, <4>3 DEF IInv, LabelInv
        <3> QED
            BY <3>2, <3>3
    <2>5. LabelInv(i)'
        BY <2>1, <2>2, <2>4 DEF LabelInv, Just
    <2>6. OwnRowInv(i)'
        BY <2>1, <2>2 DEF IInv, OwnRowInv, Versions
    <2>7. \E u \in Versions : Labelled(cache[i], work[i].version).metadata = history[u]
        BY <1>0, <2>2 DEF ServesCommitted
    <2>8. /\ work'[i] = NoWork
          /\ \A j \in Instances \ {i} : work'[j] = work[j] /\ (j \in missed' <=> j \in missed)
        BY <1>b, <2>1
    <2> QED
        BY <1>0, <2>1, <2>5, <2>6, <2>7, <2>8, InstallStep DEF NoLostUpdate
<1>9. CASE RefreshRebuild(i)
    <2> DEFINE built == [label |-> cache[i].label, metadata |-> work[i].metadata,
                         reloaded |-> cache[i].reloaded \cup Invalidated(i)]
    <2>1. /\ cache' = [cache EXCEPT ![i] = Labelled(built, work[i].version)]
          /\ missed' = missed \ {i}
          /\ work' = [work EXCEPT ![i] = NoWork]
          /\ UNCHANGED <<db, row, history, acked>>
        BY <1>9 DEF RefreshRebuild, Release, dbVars
    <2>2. /\ cache'[i].label = Just(work[i].version)
          /\ cache'[i].metadata = work[i].metadata
          /\ Labelled(built, work[i].version).metadata = work[i].metadata
        BY <1>c, <2>1 DEF Labelled
    <2>3. /\ work[i].version \in Versions
          /\ work[i].metadata = history[work[i].version]
          /\ cache[i].metadata \subseteq work[i].metadata
        BY <1>9 DEF IInv, HoldingInv, RefreshRebuild
    <2>4. LabelInv(i)'
        BY <2>1, <2>2, <2>3 DEF LabelInv, Just
    <2>5. OwnRowInv(i)'
        BY <2>1, <2>2, <2>3 DEF IInv, OwnRowInv, Versions
    <2>6. \E u \in Versions : Labelled(built, work[i].version).metadata = history[u]
        BY <2>2, <2>3
    <2>7. /\ work'[i] = NoWork
          /\ \A j \in Instances \ {i} : work'[j] = work[j] /\ (j \in missed' <=> j \in missed)
        BY <1>b, <2>1
    <2> HIDE DEF built
    <2> QED
        BY <1>0, <2>1, <2>4, <2>5, <2>6, <2>7, InstallStep DEF NoLostUpdate
<1>10. CASE Start(i)
    <2> DEFINE c == [label |-> Nothing, metadata |-> db.metadata, reloaded |-> Versions]
    <2>1. /\ cache' = [cache EXCEPT ![i] = c]
          /\ row' = [row EXCEPT !.by = @ \ {i}]
          /\ missed' = missed \ {i}
          /\ UNCHANGED <<db, history, acked>>
        BY <1>10 DEF Start
    <2>2. row \in [version : 0 .. Len(history), by : Maybe(Instances)]
        BY <1>0 DEF TypeOK
    <2>3. row'.by # Just(i)
        BY <2>1, <2>2 DEF Just
    <2>4. \A j \in Instances \ {i} : row'.by = Just(j) => row' = row
        <3>1. row.by = Nothing \/ \E k \in Instances : row.by = Just(k)
            BY <2>2, MaybeFacts
        <3>2. row.by \ {i} = Nothing \/ row.by \ {i} = row.by
            BY <3>1 DEF Nothing, Just
        <3>3. row' = [version |-> row.version, by |-> row.by \ {i}]
            BY <2>1, <2>2
        <3>4. row = [version |-> row.version, by |-> row.by]
            BY <2>2
        <3> QED
            BY <3>2, <3>3, <3>4 DEF Nothing, Just
    <2>5. OwnRowInv(i)' /\ LabelInv(i)'
        BY <1>c, <2>1, <2>3 DEF OwnRowInv, LabelInv, Nothing
    <2>6. /\ work'[i] = NoWork
          /\ \A j \in Instances \ {i} : work'[j] = work[j] /\ (j \in missed' <=> j \in missed)
        BY <1>b, <1>10, <2>1 DEF Start, Release
    <2>7. \E v \in Versions : c.metadata = history[v]
        BY <1>a
    <2> HIDE DEF c
    <2> QED
        BY <1>0, <2>1, <2>4, <2>5, <2>6, <2>7, InstallStep DEF NoLostUpdate
<1> QED
    BY <1>1, <1>2, <1>3, <1>4, <1>5, <1>6, <1>7, <1>8, <1>9, <1>10, NextCases

-------------------------------------------------------------------------------
\* The invariant is inductive.
LEMMA StepInv == IInv /\ [Next]_vars => IInv'
<1> SUFFICES ASSUME IInv, [Next]_vars PROVE IInv'
    OBVIOUS
<1>1. CASE Next
    <2>1. PICK i \in Instances : Request(i) \/ Sync(i) \/ Failure(i)
        BY <1>1 DEF Next
    <2> QED
        BY <2>1, TypeStep, RestStep DEF IInv, Rest
<1>2. CASE UNCHANGED vars
    BY <1>2 DEF vars, IInv, TypeOK, Cache, Versions, HistoryInv, NoLostUpdate,
       ServesCommitted, ModifyingInv, HoldingInv, AnnouncingInv, OwnRowInv, LabelInv
<1> QED
    BY <1>1, <1>2

THEOREM InvariantHolds == Spec => []IInv
BY InitInv, StepInv, PTL DEF Spec

\* Versions, labels and the work of the lock's holder are what they should be
\* in every state of every instance (TypeOK of SchemaSync).
THEOREM TypeCorrect == Spec => []TypeOK
<1>1. IInv => TypeOK
    BY DEF IInv
<1> QED
    BY <1>1, InvariantHolds, PTL

\* The conditional update of setMetadataInCatalog: no request that was answered
\* with success is ever lost, whatever requests run at the same time and
\* whatever resource_version clients send.
THEOREM NothingLost == Spec => []NoLostUpdate
<1>1. IInv => NoLostUpdate
    BY DEF IInv
<1> QED
    BY <1>1, InvariantHolds, PTL

\* withSchemaCacheUpdate: no instance serves metadata that was not committed.
THEOREM OnlyCommittedServed == Spec => []ServesCommitted
<1>1. IInv => ServesCommitted
    BY DEF IInv
<1> QED
    BY <1>1, InvariantHolds, PTL

\* refreshSchemaCache: a cache that carries the latest version was built from the
\* latest metadata, unless the instance adopted a version that it could not
\* have been told about.
THEOREM SyncedUnlessMissed == Spec => []InSyncUnlessMissed
<1>1. IInv => InSyncUnlessMissed
    <2> SUFFICES ASSUME IInv, NEW i \in up \ missed, cache[i].label = Just(db.version)
                 PROVE  cache[i].metadata = db.metadata
        BY DEF InSyncUnlessMissed, InSync
    <2>1. i \in Instances
        BY DEF IInv, TypeOK
    <2>2. db.version = Len(history) /\ db.metadata = history[Len(history)]
        BY DEF IInv, HistoryInv
    <2>3. history[Len(history)] \subseteq cache[i].metadata
        BY <2>1, <2>2 DEF IInv, LabelInv, Just
    <2>4. PICK v \in Versions : cache[i].metadata = history[v]
        BY <2>1 DEF IInv, ServesCommitted
    <2>5. history[v] \subseteq history[Len(history)]
        BY <2>4, TypeFacts, <2>1 DEF IInv, HistoryInv, Versions
    <2>6. /\ db.metadata \subseteq cache[i].metadata
          /\ cache[i].metadata \subseteq db.metadata
        BY <2>2, <2>3, <2>4, <2>5
    <2> QED
        BY <2>6
<1> QED
    BY <1>1, InvariantHolds, PTL

\* Both together: what an instance serves is what its label says, and never made up.
THEOREM CachesHold == Spec => []CachesRight
<1>1. ServesCommitted /\ InSyncUnlessMissed => CachesRight
    BY DEF CachesRight
<1> QED
    BY <1>1, OnlyCommittedServed, SyncedUnlessMissed, PTL

-------------------------------------------------------------------------------
\* A step of the instances that changes the history commits one request on top
\* of the latest version, one that changes acked reports what is there, and no
\* step does both: so the instances implement MetadataStore.
LEMMA StoreStep == IInv /\ [Next]_vars => [Store!Next]_Store!vars
<1> SUFFICES ASSUME IInv, [Next]_vars
             PROVE  Store!Next \/ UNCHANGED <<history, acked>>
    BY DEF Store!vars
<1>1. CASE UNCHANGED vars
    BY <1>1 DEF vars
<1>2. CASE Next
    <2>1. PICK i \in Instances : Request(i) \/ Sync(i) \/ Failure(i)
        BY <1>2 DEF Next
    <2>a. /\ work[i] \in Work
          /\ db.version = Len(history) /\ db.metadata = history[Len(history)]
        BY <2>1, TypeFacts DEF IInv, HistoryInv
    <2>b. work[i].request = Nothing \/ \E r \in Requests : work[i].request = Just(r)
        BY <2>a, MaybeFacts DEF Work
    <2>2. CASE SetMetadata(i)
        <3>1. PICK u \in Versions : /\ db.version <= u
                                    /\ work[i].metadata = history[u] \cup work[i].request
            BY <2>1, <2>2 DEF IInv, ModifyingInv, SetMetadata, VersionMatches
        <3>2. u = Len(history)
            BY <2>a, <2>1, <3>1, TypeFacts DEF Versions
        <3>3. history' = Append(history, history[Len(history)] \cup work[i].request)
            BY <2>2, <3>1, <3>2 DEF SetMetadata
        <3>4. PICK r \in Requests : work[i].request = {r}
            BY <2>1, <2>2, <2>b DEF IInv, ModifyingInv, SetMetadata, Just
        <3> QED
            BY <2>2, <3>3, <3>4 DEF SetMetadata, Store!Next, Store!Commit
    <2>3. CASE NotifySchemaCacheSync(i)
        <3>1. work[i].request \subseteq history[Len(history)]
            BY <2>1, <2>3, <2>a, TypeFacts DEF IInv, HoldingInv, AnnouncingInv, HistoryInv,
               NotifySchemaCacheSync, Versions
        <3>2. UNCHANGED history /\ acked' = acked \cup work[i].request
            BY <2>3 DEF NotifySchemaCacheSync
        <3>3. CASE work[i].request = Nothing
            BY <3>2, <3>3 DEF Nothing
        <3>4. CASE \E r \in Requests : work[i].request = Just(r)
            BY <3>1, <3>2, <3>4 DEF Just, Store!Next, Store!Acknowledge
        <3> QED
            BY <2>b, <3>3, <3>4
    <2>4. CASE ~ (SetMetadata(i) \/ NotifySchemaCacheSync(i))
        <3> UNCHANGED <<history, acked>>
            BY <2>1, <2>4, NextCases DEF RunMetadataQuery, ReplaceMetadata, RunQuery,
               SetMetadataConflict, ListenerPoll, ListenerPut, ProcessorTake,
               AdoptFirst, RefreshCurrent, RefreshFetch, Refresh, RefreshLabelOnly,
               RefreshRebuild, TransactionFails, ListenerFails, Crash, Start, dbVars
        <3> QED
            OBVIOUS
    <2> QED
        BY <2>2, <2>3, <2>4
<1> QED
    BY <1>1, <1>2

\* runMetadataQuery and runQuery with setMetadataInCatalog: the metadata API of
\* any number of instances implements MetadataStore, in which every request
\* takes effect at one point, on the latest version (ImplementsStore).
THEOREM StoreImplemented == Spec => ImplementsStore
<1>1. Init => Store!Init
    BY DEF Init, Store!Init
<1> QED
    BY <1>1, StoreStep, InvariantHolds, PTL DEF Spec, ImplementsStore, Store!Spec

-------------------------------------------------------------------------------
\* No step of i takes the cache of an instance that keeps running back.
LEMMA ForwardStep ==
    ASSUME IInv, NEW i \in Instances, Request(i) \/ Sync(i) \/ Failure(i),
           NEW j \in up, j \in up'
    PROVE  NeverGoesBack(j)
<1>0. j \in Instances /\ cache[j] \in Cache /\ cache[i] \in Cache
    BY DEF IInv, TypeOK
<1>1. \A v, w \in cache[j].label : v <= w
    <2>1. cache[j].label \in Maybe(Versions)
        BY <1>0 DEF Cache
    <2>2. \A v, w \in cache[j].label : v = w /\ v \in Versions
        BY <2>1 DEF Maybe, Nothing, Just
    <2> QED
        BY <2>2 DEF Versions
<1>2. CASE cache'[j] = cache[j]
    BY <1>1, <1>2 DEF NeverGoesBack
<1>3. \A c : cache' = [cache EXCEPT ![i] = c] => IF j = i THEN cache'[j] = c ELSE cache'[j] = cache[j]
    BY <1>0 DEF IInv, TypeOK
<1>4. CASE RefreshLabelOnly(i) \/ RefreshRebuild(i) \/ NotifySchemaCacheSync(i)
    <2>1. /\ cache[i].metadata \subseteq work[i].metadata
          /\ \A v \in cache[i].label : v <= work[i].version
        BY <1>4 DEF IInv, HoldingInv, RefreshLabelOnly, RefreshRebuild, NotifySchemaCacheSync
    <2>2. PICK c : /\ cache' = [cache EXCEPT ![i] = c]
                   /\ c.metadata = cache[i].metadata \/ c.metadata = work[i].metadata
                   /\ c.label = cache[i].label \/ c.label = {work[i].version}
        <3>1. CASE RefreshLabelOnly(i)
            <4>1. /\ Labelled(cache[i], work[i].version).metadata = cache[i].metadata
                  /\ Labelled(cache[i], work[i].version).label = {work[i].version}
                BY <1>0 DEF Labelled, Just, Cache
            <4> QED
                BY <3>1, <4>1 DEF RefreshLabelOnly
        <3>2. CASE RefreshRebuild(i)
            <4> DEFINE built == [label |-> cache[i].label, metadata |-> work[i].metadata,
                                 reloaded |-> cache[i].reloaded \cup Invalidated(i)]
            <4>1. /\ Labelled(built, work[i].version).metadata = work[i].metadata
                  /\ Labelled(built, work[i].version).label = {work[i].version}
                BY DEF Labelled, Just
            <4>2. cache' = [cache EXCEPT ![i] = Labelled(built, work[i].version)]
                BY <3>2 DEF RefreshRebuild
            <4> HIDE DEF built
            <4> QED
                BY <4>1, <4>2
        <3>3. CASE NotifySchemaCacheSync(i)
            <4>1. /\ Modified(i).metadata = work[i].metadata
                  /\ \/ Modified(i).label = cache[i].label
                     \/ Modified(i).label = {work[i].version}
                BY DEF Modified, Labelled, Just
            <4> QED
                BY <3>3, <4>1 DEF NotifySchemaCacheSync
        <3> QED
            BY <1>4, <3>1, <3>2, <3>3
    <2>3. CASE j = i
        <3>1. cache'[i] = c
            BY <1>3, <2>2, <2>3
        <3> QED
            BY <1>1, <2>1, <2>2, <2>3, <3>1 DEF NeverGoesBack
    <2> QED
        BY <1>2, <1>3, <2>2, <2>3
<1>5. CASE AdoptFirst(i)
    <2>1. PICK v \in received[i] : cache' = [cache EXCEPT ![i] = Labelled(cache[i], v)]
        BY <1>5 DEF AdoptFirst
    <2>2. CASE j = i
        <3>1. cache'[i].metadata = cache[i].metadata
            BY <1>0, <1>3, <2>1, <2>2 DEF Labelled, Cache
        <3>2. cache[i].label = {}
            BY <1>5 DEF AdoptFirst, Nothing
        <3> QED
            BY <2>2, <3>1, <3>2 DEF NeverGoesBack
    <2> QED
        BY <1>2, <1>3, <2>1, <2>2
<1>6. CASE Start(i)
    BY <1>2, <1>3, <1>6 DEF Start
<1>7. CASE ~ (\/ RefreshLabelOnly(i) \/ RefreshRebuild(i) \/ NotifySchemaCacheSync(i)
              \/ AdoptFirst(i) \/ Start(i))
    <2>1. UNCHANGED cache
        BY <1>7, NextCases DEF RunMetadataQuery, ReplaceMetadata, RunQuery, SetMetadata,
           SetMetadataConflict, ListenerPoll, ListenerPut, ProcessorTake, RefreshCurrent,
           RefreshFetch, Refresh, TransactionFails, ListenerFails, Crash, cacheVars
    <2> QED
        BY <1>2, <2>1
<1> QED
    BY <1>4, <1>5, <1>6, <1>7

\* withSchemaCacheUpdate: requests and refreshes take the lock before they fetch
\* the metadata, so no instance goes back to an older cache or version.
THEOREM NeverBack == Spec => CacheNeverGoesBack
<1>1. IInv /\ [Next]_vars => [\A i \in up : i \in up' => NeverGoesBack(i)]_vars
    BY ForwardStep DEF Next
<1> QED
    BY <1>1, InvariantHolds, PTL DEF Spec, CacheNeverGoesBack
===============================================================================
