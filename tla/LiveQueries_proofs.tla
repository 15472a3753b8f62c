-------------------------- MODULE LiveQueries_proofs ---------------------------
(*****************************************************************************)
(* Proofs that no cohort, poller or thread of LiveQueries outlives its last   *)
(* subscriber, and that LiveQueries implements SubscriptionRegistry, for any   *)
(* subscribers, keys, poller objects, values and number of disturbances.      *)
(*                                                                           *)
(* The steps of a poll change no membership: what they do to the cohorts is   *)
(* covered by lemmas about maps of cohorts.                                   *)
(*****************************************************************************)
EXTENDS LiveQueries, TLAPS

\* A subscriber is registered from the transaction of addLiveQuery on until that of
\* removeLiveQuery.
Registered(s) == pc[s] \in {"forking", "putting", "active"}

\* The cohorts of a poller: each has members, and only such as belong there.
In(cs, s) == CohortOf[s] \in DOMAIN cs /\ s \in Members(cs[CohortOf[s]])
CohortsOK(cs) ==
    \A c \in DOMAIN cs : Members(cs[c]) # {} /\ \A s \in Members(cs[c]) : CohortOf[s] = c

\* Exactly the registered subscribers are in the cohorts of the poller of their key.
Placed ==
    /\ \A p \in Pollers : /\ CohortsOK(cohorts[p])
                          /\ \A s \in Subs :
                               In(cohorts[p], s) <=> Registered(s) /\ lqMap[PollerOf[s]] = p
    /\ \A s \in Subs : Registered(s) => lqMap[PollerOf[s]] # Nobody
    /\ \A k, l \in PollerKeys : lqMap[k] = lqMap[l] /\ lqMap[k] # Nobody => k = l
    /\ \A k \in PollerKeys : lqMap[k] # Nobody => DOMAIN cohorts[lqMap[k]] # {}

\* The poller that a call forks or stops: a new one stays in the map, and its handle is
\* missing, no longer than until the call is done; an old one is not in the map any more.
CallsOwn ==
    /\ \A s \in Subs :
          /\ pc[s] \in {"forking", "putting"} => mine[s] = lqMap[PollerOf[s]]
          /\ pc[s] = "stopping" => mine[s] \in Pollers /\ ~InMap(mine[s])
    /\ \A p \in Pollers : InMap(p) /\ ~ioState[p] =>
          \E s \in Subs : mine[s] = p /\ pc[s] \in {"forking", "putting"}

\* A poll works on cohorts that exist.
PollsKnown ==
    \A p \in Pollers :
        listed[p] \subseteq DOMAIN cohorts[p] /\ DOMAIN snaps[p] \subseteq DOMAIN cohorts[p]

IInv == TypeOK /\ Placed /\ CallsOwn /\ PollsKnown /\ ThreadsAttended

-------------------------------------------------------------------------------
(* Finite maps *)

LEMMA RestrictMap ==
    ASSUME NEW S, NEW T, NEW f, IsMap(f, S, T), NEW D \in SUBSET DOMAIN f
    PROVE  /\ IsMap(Restrict(f, D), S, T)
           /\ DOMAIN Restrict(f, D) = D
           /\ \A y \in D : Restrict(f, D)[y] = f[y]
BY DEF IsMap, Restrict

LEMMA ExceptMap ==
    ASSUME NEW S, NEW T, NEW f, IsMap(f, S, T), NEW x \in DOMAIN f, NEW v \in T
    PROVE  IsMap([f EXCEPT ![x] = v], S, T)
BY DEF IsMap

LEMMA NoMapIsMap == ASSUME NEW S, NEW T PROVE IsMap(NoMap, S, T) /\ DOMAIN NoMap = {}
BY DEF IsMap, NoMap

LEMMA EmptyMap ==
    ASSUME NEW S, NEW T, NEW f, IsMap(f, S, T)
    PROVE  f = NoMap <=> DOMAIN f = {}
<1>1. f = [x \in DOMAIN f |-> f[x]]
  BY DEF IsMap
<1>2. ASSUME DOMAIN f = {} PROVE f = NoMap
  BY <1>1, <1>2 DEF NoMap
<1> QED
  BY <1>2 DEF NoMap

-------------------------------------------------------------------------------
(* The cohorts of one poller *)

IsCohorts(cs) == IsMap(cs, CohortKeys, Cohort)

LEMMA WithSubscriberIn ==
    ASSUME NEW cs, IsCohorts(cs), CohortsOK(cs), NEW s \in Subs
    PROVE  LET new == WithSubscriber(cs, s) IN
           /\ IsCohorts(new) /\ CohortsOK(new)
           /\ DOMAIN cs \subseteq DOMAIN new /\ DOMAIN new # {}
           /\ \A t \in Subs : In(new, t) <=> In(cs, t) \/ t = s
<1> DEFINE new == WithSubscriber(cs, s)
           k   == CohortOf[s]
<1> SUFFICES /\ IsCohorts(new) /\ CohortsOK(new)
             /\ DOMAIN cs \subseteq DOMAIN new /\ DOMAIN new # {}
             /\ \A t \in Subs : In(new, t) <=> In(cs, t) \/ t = s
  OBVIOUS
<1>1. k \in CohortKeys
  BY LiveQueriesAssumption
<1>2. CASE k \in DOMAIN cs
  <2> DEFINE joined == [cs[k] EXCEPT !.new = @ \cup {s}]
  <2>1. cs[k] \in Cohort
    BY <1>2 DEF IsCohorts, IsMap
  <2>2. joined \in Cohort /\ Members(joined) = Members(cs[k]) \cup {s}
    BY <2>1 DEF Cohort, Members
  <2>3. new = [cs EXCEPT ![k] = joined]
    BY <1>2 DEF WithSubscriber
  <2> HIDE DEF joined
  <2>4. /\ DOMAIN new = DOMAIN cs /\ new[k] = joined
        /\ \A c \in DOMAIN cs : c # k => new[c] = cs[c]
    BY <1>2, <2>3
  <2>5. IsCohorts(new)
    <3>1. IsMap(cs, CohortKeys, Cohort)
      BY DEF IsCohorts
    <3>2. IsMap([cs EXCEPT ![k] = joined], CohortKeys, Cohort)
      BY <1>2, <2>2, <3>1, ExceptMap
    <3> QED
      BY <2>3, <3>2 DEF IsCohorts
  <2> HIDE DEF new
  <2> QED
    BY <1>2, <2>2, <2>4, <2>5 DEF CohortsOK, In
<1>3. CASE k \notin DOMAIN cs
  <2>1. NewCohort(s) \in Cohort /\ Members(NewCohort(s)) = {s}
    BY DEF NewCohort, Cohort, Members
  <2>2. new = Put(cs, k, NewCohort(s))
    BY <1>3 DEF WithSubscriber
  <2>3. /\ IsCohorts(new) /\ DOMAIN new = DOMAIN cs \cup {k} /\ new[k] = NewCohort(s)
        /\ \A c \in DOMAIN cs : c # k => new[c] = cs[c]
    <3>1. IsMap(cs, CohortKeys, Cohort)
      BY DEF IsCohorts
    <3> DEFINE v == NewCohort(s)
               put == Put(cs, k, v)
    <3> HIDE DEF k, v
    <3>2. /\ IsMap(put, CohortKeys, Cohort) /\ DOMAIN put = DOMAIN cs \cup {k} /\ put[k] = v
          /\ \A c \in DOMAIN cs : c # k => put[c] = cs[c]
      <4>1. v \in Cohort
        BY <2>1 DEF v
      <4> QED
        BY <1>1, <3>1, <4>1 DEF Put, IsMap
    <3> USE DEF v
    <3> QED
      BY <2>2, <3>2 DEF IsCohorts
  <2> HIDE DEF new
  <2> QED
    BY <1>3, <2>1, <2>3 DEF CohortsOK, In
<1> QED
  BY <1>2, <1>3

LEMMA CohortsWithoutIn ==
    ASSUME NEW cs, IsCohorts(cs), CohortsOK(cs), NEW s \in Subs, In(cs, s)
    PROVE  LET new == CohortsWithout(cs, s) IN
           /\ IsCohorts(new) /\ CohortsOK(new) /\ DOMAIN new \subseteq DOMAIN cs
           /\ \A t \in Subs : In(new, t) <=> In(cs, t) /\ t # s
<1> DEFINE new  == CohortsWithout(cs, s)
           k    == CohortOf[s]
           left == Without(cs[k], s)
<1> SUFFICES /\ IsCohorts(new) /\ CohortsOK(new) /\ DOMAIN new \subseteq DOMAIN cs
             /\ \A t \in Subs : In(new, t) <=> In(cs, t) /\ t # s
  OBVIOUS
<1>1. k \in DOMAIN cs /\ cs[k] \in Cohort
  BY DEF In, IsCohorts, IsMap
<1>2. left \in Cohort /\ Members(left) = Members(cs[k]) \ {s}
  BY <1>1 DEF Without, Cohort, Members
<1>3. CASE Members(left) = {}
  <2>1. new = Restrict(cs, DOMAIN cs \ {k})
    BY <1>3 DEF CohortsWithout, IsEmpty, Delete
  <2>2. /\ IsCohorts(new) /\ DOMAIN new = DOMAIN cs \ {k}
        /\ \A c \in DOMAIN cs \ {k} : new[c] = cs[c]
    BY <2>1, RestrictMap DEF IsCohorts
  <2> HIDE DEF new, left
  <2> QED
    BY <1>1, <1>2, <1>3, <2>2 DEF CohortsOK, In
<1>4. CASE Members(left) # {}
  <2>1. new = [cs EXCEPT ![k] = left]
    BY <1>4 DEF CohortsWithout, IsEmpty
  <2>2. /\ DOMAIN new = DOMAIN cs /\ new[k] = left
        /\ \A c \in DOMAIN cs : c # k => new[c] = cs[c]
    BY <1>1, <2>1
  <2>3. IsCohorts(new)
    <3>1. IsMap(cs, CohortKeys, Cohort)
      BY DEF IsCohorts
    <3> HIDE DEF left
    <3>2. IsMap([cs EXCEPT ![k] = left], CohortKeys, Cohort)
      BY <1>1, <1>2, <3>1, ExceptMap
    <3> QED
      BY <2>1, <3>2 DEF IsCohorts
  <2> HIDE DEF new, left
  <2> QED
    BY <1>1, <1>2, <1>4, <2>2, <2>3 DEF CohortsOK, In
<1> QED
  BY <1>3, <1>4

\* What a poll does to a cohort: its members stay the same.
LEMMA SameMembersIn ==
    ASSUME NEW cs, IsCohorts(cs), CohortsOK(cs), NEW k \in DOMAIN cs,
           NEW cohort \in Cohort, Members(cohort) = Members(cs[k])
    PROVE  LET new == [cs EXCEPT ![k] = cohort] IN
           /\ IsCohorts(new) /\ CohortsOK(new) /\ DOMAIN new = DOMAIN cs
           /\ \A t \in Subs : In(new, t) <=> In(cs, t)
<1> DEFINE new == [cs EXCEPT ![k] = cohort]
<1> SUFFICES /\ IsCohorts(new) /\ CohortsOK(new) /\ DOMAIN new = DOMAIN cs
             /\ \A t \in Subs : In(new, t) <=> In(cs, t)
  OBVIOUS
<1>1. IsCohorts(new)
  BY ExceptMap DEF IsCohorts
<1>2. /\ DOMAIN new = DOMAIN cs /\ new[k] = cohort
      /\ \A c \in DOMAIN cs : c # k => new[c] = cs[c]
  OBVIOUS
<1> HIDE DEF new
<1>3. \A c \in DOMAIN cs : Members(new[c]) = Members(cs[c])
  BY <1>2
<1> QED
  BY <1>1, <1>2, <1>3 DEF CohortsOK, In

LEMMA NoMapIn == CohortsOK(NoMap) /\ \A t \in Subs : ~In(NoMap, t)
BY NoMapIsMap DEF CohortsOK, In

\* Whoever is in no cohorts leaves none.
LEMMA NobodyIn ==
    ASSUME NEW cs, IsCohorts(cs), CohortsOK(cs)
    PROVE  DOMAIN cs = {} <=> \A s \in Subs : ~In(cs, s)
<1>1. ASSUME NEW c \in DOMAIN cs
      PROVE  \E s \in Subs : In(cs, s)
  <2>1. cs[c] \in Cohort
    BY DEF IsCohorts, IsMap
  <2>2. PICK s : s \in Members(cs[c])
    BY DEF CohortsOK
  <2>3. s \in Subs /\ CohortOf[s] = c
    BY <2>1, <2>2 DEF Members, Cohort, CohortsOK
  <2> QED
    BY <2>2, <2>3 DEF In
<1> QED
  BY <1>1 DEF In

-------------------------------------------------------------------------------
(* Types *)

LEMMA InitInv == Init => IInv
<1> SUFFICES ASSUME Init PROVE IInv
  OBVIOUS
<1>1. TypeOK
  <2>1. \A p \in Pollers : IsMap(cohorts[p], CohortKeys, Cohort) /\ IsMap(snaps[p], CohortKeys, Snapshot)
    BY NoMapIsMap DEF Init
  <2>2. data \in [PollerKeys -> [CohortKeys -> Values]]
    BY LiveQueriesAssumption DEF Init
  <2>3. changes \in 0 .. MaxChanges /\ errors \in 0 .. MaxErrors /\ deaths \in 0 .. MaxDeaths
    BY LiveQueriesAssumption DEF Init
  <2> QED
    BY <2>1, <2>2, <2>3 DEF Init, TypeOK
<1>2. Placed
  BY NoMapIn, LiveQueriesAssumption DEF Init, Placed, Registered
<1>3. \A p \in Pollers : ~InMap(p)
  BY LiveQueriesAssumption DEF Init, InMap
<1>4. CallsOwn /\ ThreadsAttended
  BY <1>3 DEF Init, CallsOwn, ThreadsAttended
<1>5. PollsKnown
  BY NoMapIsMap DEF Init, PollsKnown
<1> QED
  BY <1>1, <1>2, <1>4, <1>5 DEF IInv

LEMMA PollerOfActive ==
    ASSUME IInv, NEW s \in Subs, Registered(s)
    PROVE  /\ lqMap[PollerOf[s]] \in Pollers /\ InMap(lqMap[PollerOf[s]])
           /\ PollerOf[s] \in PollerKeys
           /\ In(cohorts[lqMap[PollerOf[s]]], s)
BY LiveQueriesAssumption DEF IInv, Placed, InMap, TypeOK

\* The steps of addLiveQuery.
LEMMA AddType ==
    ASSUME IInv, NEW s \in Subs, AddStep(s)
    PROVE  TypeOK'
<1> USE DEF mapVars, pollVars, budgets
<1>1. PollerOf[s] \in PollerKeys
  BY LiveQueriesAssumption
<1>2. CASE JoinPoller(s)
  <2> DEFINE p == lqMap[PollerOf[s]]
  <2>1. p \in Pollers
    BY <1>1, <1>2 DEF JoinPoller, IInv, TypeOK
  <2>2. IsCohorts(WithSubscriber(cohorts[p], s))
    BY <2>1, WithSubscriberIn DEF IInv, TypeOK, Placed, IsCohorts
  <2>3. DOMAIN cohorts' = Pollers /\ \A q \in Pollers : IsMap(cohorts'[q], CohortKeys, Cohort)
    BY <1>2, <2>1, <2>2 DEF JoinPoller, IInv, TypeOK, IsCohorts
  <2> QED
    BY <1>2, <2>3 DEF JoinPoller, IInv, TypeOK
<1>3. ASSUME NEW p \in Pollers, CreatePoller(s, p)
      PROVE  TypeOK'
  <2>1. IsCohorts(NoMap) /\ CohortsOK(NoMap)
    BY NoMapIsMap, NoMapIn DEF IsCohorts
  <2>2. IsCohorts(WithSubscriber(NoMap, s))
    BY <2>1, WithSubscriberIn
  <2>3. DOMAIN cohorts' = Pollers /\ \A q \in Pollers : IsMap(cohorts'[q], CohortKeys, Cohort)
    BY <1>3, <2>2 DEF CreatePoller, IInv, TypeOK, IsCohorts
  <2> QED
    BY <1>3, <2>3 DEF CreatePoller, IInv, TypeOK
<1>4. CASE Fork(s)
  BY <1>4 DEF Fork, ForkThread, IInv, TypeOK
<1>5. CASE PutTMVar(s)
  BY <1>5 DEF PutTMVar, IInv, TypeOK
<1> QED
  BY <1>2, <1>3, <1>4, <1>5 DEF AddStep

LEMMA ForgetDeletedType ==
    ASSUME TypeOK, NEW p \in Pollers, NEW cs, ForgetDeleted(p, cs)
    PROVE  /\ listed' \in [Pollers -> SUBSET CohortKeys]
           /\ DOMAIN snaps' = Pollers
           /\ \A q \in Pollers : IsMap(snaps'[q], CohortKeys, Snapshot)
           /\ \A q \in Pollers : q # p => listed'[q] = listed[q] /\ snaps'[q] = snaps[q]
           /\ listed'[p] = listed[p] \cap DOMAIN cs
           /\ DOMAIN snaps'[p] = DOMAIN snaps[p] \cap DOMAIN cs
<1> DEFINE D == DOMAIN snaps[p] \cap DOMAIN cs
           m == Restrict(snaps[p], D)
<1>1. IsMap(m, CohortKeys, Snapshot) /\ DOMAIN m = D
  BY RestrictMap DEF TypeOK
<1>2. snaps' = [snaps EXCEPT ![p] = m] /\ listed' = [listed EXCEPT ![p] = @ \cap DOMAIN cs]
  BY DEF ForgetDeleted
<1> HIDE DEF m
<1> QED
  BY <1>1, <1>2 DEF TypeOK

LEMMA RemoveType ==
    ASSUME IInv, NEW s \in Subs, RemoveStep(s)
    PROVE  TypeOK'
<1> USE DEF mapVars, pollVars, budgets
<1> DEFINE p    == lqMap[PollerOf[s]]
           left == CohortsWithout(cohorts[p], s)
<1>1. ASSUME Registered(s)
      PROVE  p \in Pollers /\ PollerOf[s] \in PollerKeys /\ IsCohorts(left)
  BY <1>1, PollerOfActive, CohortsWithoutIn DEF IInv, TypeOK, Placed, IsCohorts
<1>2. CASE RemoveOne(s)
  <2>1. p \in Pollers /\ IsCohorts(left)
    BY <1>1, <1>2 DEF RemoveOne, Registered
  <2>2. ForgetDeleted(p, left) /\ cohorts' = [cohorts EXCEPT ![p] = left]
    BY <1>2 DEF RemoveOne
  <2> HIDE DEF left, p
  <2>3. DOMAIN cohorts' = Pollers /\ \A q \in Pollers : IsMap(cohorts'[q], CohortKeys, Cohort)
    BY <2>1, <2>2 DEF IInv, TypeOK, IsCohorts
  <2> QED
    BY <1>2, <2>1, <2>2, <2>3, ForgetDeletedType DEF RemoveOne, IInv, TypeOK
<1>3. CASE RemoveLast(s)
  <2>1. p \in Pollers /\ IsCohorts(left) /\ PollerOf[s] \in PollerKeys
    BY <1>1, <1>3 DEF RemoveLast, Registered
  <2>2. ForgetDeleted(p, left) /\ cohorts' = [cohorts EXCEPT ![p] = NoMap]
    BY <1>3 DEF RemoveLast
  <2>3. /\ lqMap' \in [PollerKeys -> Pollers \cup {Nobody}]
        /\ pc' \in [Subs -> {"idle", "forking", "putting", "active", "stopping", "reporting", "gone"}]
        /\ mine' \in [Subs -> Pollers \cup {Nobody}]
    BY <1>3, <2>1 DEF RemoveLast, IInv, TypeOK
  <2> HIDE DEF left, p
  <2>4. DOMAIN cohorts' = Pollers /\ \A q \in Pollers : IsMap(cohorts'[q], CohortKeys, Cohort)
    BY <2>1, <2>2, NoMapIsMap DEF IInv, TypeOK
  <2> QED
    BY <1>3, <2>1, <2>2, <2>3, <2>4, ForgetDeletedType DEF RemoveLast, IInv, TypeOK
<1>4. CASE StopThread(s)
  <2>1. mine[s] \in Pollers
    BY <1>4 DEF StopThread, IInv, CallsOwn
  <2>2. DOMAIN snaps' = Pollers /\ \A q \in Pollers : IsMap(snaps'[q], CohortKeys, Snapshot)
    BY <1>4, <2>1, NoMapIsMap DEF StopThread, ThreadToStop, IInv, TypeOK
  <2> QED
    BY <1>4, <2>1, <2>2 DEF StopThread, ThreadToStop, IInv, TypeOK
<1> QED
  BY <1>2, <1>3, <1>4 DEF RemoveStep

\* The steps of a poll: the types, the cohorts it works on, and the members of cohorts,
\* which stay the same.
SameMembers ==
    \A p \in Pollers :
        /\ IsCohorts(cohorts'[p]) /\ DOMAIN cohorts'[p] = DOMAIN cohorts[p]
        /\ CohortsOK(cohorts[p]) => CohortsOK(cohorts'[p])
        /\ \A t \in Subs : In(cohorts'[p], t) <=> In(cohorts[p], t)

\* A poll writes to one snapshot.
LEMMA SnapshotType ==
    ASSUME IInv, NEW p \in Pollers, NEW c \in DOMAIN snaps[p], NEW snap \in Snapshot,
           snaps' = [snaps EXCEPT ![p] = [@ EXCEPT ![c] = snap]]
    PROVE  /\ DOMAIN snaps' = Pollers
           /\ \A q \in Pollers : /\ IsMap(snaps'[q], CohortKeys, Snapshot)
                                 /\ DOMAIN snaps'[q] = DOMAIN snaps[q]
<1>1. IsMap(snaps[p], CohortKeys, Snapshot)
  BY DEF IInv, TypeOK
<1> DEFINE m == [snaps[p] EXCEPT ![c] = snap]
<1>2. IsMap(m, CohortKeys, Snapshot) /\ DOMAIN m = DOMAIN snaps[p]
  BY <1>1, ExceptMap
<1>3. snaps' = [snaps EXCEPT ![p] = m]
  OBVIOUS
<1> HIDE DEF m
<1> QED
  BY <1>2, <1>3 DEF IInv, TypeOK

\* A poll writes to one cohort.
LEMMA CohortType ==
    ASSUME IInv, NEW p \in Pollers, NEW c \in DOMAIN cohorts[p], NEW cohort \in Cohort,
           Members(cohort) = Members(cohorts[p][c]),
           cohorts' = [cohorts EXCEPT ![p] = [@ EXCEPT ![c] = cohort]]
    PROVE  DOMAIN cohorts' = Pollers /\ SameMembers
<1>1. IsCohorts(cohorts[p]) /\ CohortsOK(cohorts[p])
  BY DEF IInv, TypeOK, Placed, IsCohorts
<1> DEFINE m == [cohorts[p] EXCEPT ![c] = cohort]
<1>2. /\ IsCohorts(m) /\ CohortsOK(m) /\ DOMAIN m = DOMAIN cohorts[p]
      /\ \A t \in Subs : In(m, t) <=> In(cohorts[p], t)
  BY <1>1, SameMembersIn
<1>3. cohorts' = [cohorts EXCEPT ![p] = m]
  OBVIOUS
<1> HIDE DEF m
<1>4. /\ DOMAIN cohorts' = Pollers /\ cohorts'[p] = m
      /\ \A q \in Pollers : q # p => cohorts'[q] = cohorts[q]
  BY <1>3 DEF IInv, TypeOK
<1>5. \A q \in Pollers : IsCohorts(cohorts[q])
  BY DEF IInv, TypeOK, IsCohorts
<1> QED
  BY <1>2, <1>4, <1>5 DEF SameMembers

LEMMA SameCohorts ==
    ASSUME IInv, cohorts' = cohorts
    PROVE  DOMAIN cohorts' = Pollers /\ SameMembers
BY DEF IInv, TypeOK, SameMembers, IsCohorts

LEMMA PollType ==
    ASSUME IInv, NEW p \in Pollers,
           PollStep(p) \/ PollDies(p) \/ \E c \in CohortKeys : RunDBSubscriptionFails(p, c)
    PROVE  TypeOK' /\ SameMembers /\ PollsKnown'
<1> USE DEF mapVars, pollVars, budgets
<1>1. CASE StartPoll(p)
  BY <1>1, SameCohorts DEF StartPoll, IInv, TypeOK, PollsKnown, IsMap
<1>2. CASE FinishPoll(p) \/ PollDies(p)
  <2>1. /\ DOMAIN snaps' = Pollers
        /\ \A q \in Pollers : IsMap(snaps'[q], CohortKeys, Snapshot)
        /\ \A q \in Pollers : DOMAIN snaps'[q] \subseteq DOMAIN snaps[q]
    <3>1. snaps' = [snaps EXCEPT ![p] = NoMap]
      BY <1>2 DEF FinishPoll, PollDies
    <3>2. IsMap(NoMap, CohortKeys, Snapshot) /\ DOMAIN NoMap = {}
      BY NoMapIsMap
    <3>3. DOMAIN snaps = Pollers /\ \A q \in Pollers : IsMap(snaps[q], CohortKeys, Snapshot)
      BY DEF IInv, TypeOK
    <3> QED
      BY <3>1, <3>2, <3>3
  <2>2. deaths' \in 0 .. MaxDeaths
    BY <1>2, LiveQueriesAssumption DEF FinishPoll, PollDies, Disturb, IInv, TypeOK
  <2>3. missed' \subseteq Subs
    <3>1. \A c \in DOMAIN snaps[p] : snaps[p][c].to \subseteq Subs /\ snaps[p][c].new \subseteq Subs
      BY DEF IInv, TypeOK, IsMap, Snapshot
    <3> QED
      BY <1>2, <3>1 DEF FinishPoll, PollDies, IInv, TypeOK
  <2>4. thread' \in [Pollers -> {"none", "sleeping", "polling", "stopped"}]
    BY <1>2 DEF FinishPoll, PollDies, IInv, TypeOK
  <2>5. /\ listed' \in [Pollers -> SUBSET CohortKeys]
        /\ \A q \in Pollers : listed'[q] \subseteq listed[q]
    BY <1>2 DEF FinishPoll, PollDies, IInv, TypeOK
  <2>6. cohorts' = cohorts
    BY <1>2 DEF FinishPoll, PollDies
  <2>7. TypeOK'
    BY <1>2, <2>1, <2>2, <2>3, <2>4, <2>5, <2>6 DEF FinishPoll, PollDies, IInv, TypeOK
  <2> QED
    BY <2>1, <2>5, <2>6, <2>7, SameCohorts DEF IInv, PollsKnown
<1>3. ASSUME NEW c \in CohortKeys, GetCohortSnapshot(p, c)
      PROVE  TypeOK' /\ SameMembers /\ PollsKnown'
  <2> DEFINE cohort == cohorts[p][c]
             snap   == [cur |-> cohort.existing, new |-> cohort.new, result |-> "none",
                        compared |-> FALSE, to |-> {}]
             m      == Put(snaps[p], c, snap)
  <2>1. c \in DOMAIN cohorts[p] /\ c \in listed[p]
    BY <1>3 DEF GetCohortSnapshot, IInv, PollsKnown
  <2>2. cohort \in Cohort
    BY <2>1 DEF IInv, TypeOK, IsMap
  <2>3. MovesNew(cohort) \in Cohort /\ Members(MovesNew(cohort)) = Members(cohort)
    BY <2>2 DEF MovesNew, Members, Cohort
  <2>4. snap \in Snapshot
    BY <2>2 DEF Cohort, Snapshot
  <2>5. DOMAIN cohorts' = Pollers /\ SameMembers
    BY <1>3, <2>1, <2>3, CohortType DEF GetCohortSnapshot
  <2>6. IsMap(m, CohortKeys, Snapshot) /\ DOMAIN m = DOMAIN snaps[p] \cup {c}
    <3>1. IsMap(snaps[p], CohortKeys, Snapshot)
      BY DEF IInv, TypeOK
    <3> HIDE DEF snap
    <3>2. IsMap(Put(snaps[p], c, snap), CohortKeys, Snapshot)
          /\ DOMAIN Put(snaps[p], c, snap) = DOMAIN snaps[p] \cup {c}
      BY <2>4, <3>1 DEF Put, IsMap
    <3> QED
      BY <3>2
  <2>7. snaps' = [snaps EXCEPT ![p] = m] /\ listed' = [listed EXCEPT ![p] = @ \ {c}]
    BY <1>3 DEF GetCohortSnapshot
  <2> HIDE DEF m
  <2>8. /\ DOMAIN snaps' = Pollers /\ snaps'[p] = m /\ listed'[p] = listed[p] \ {c}
        /\ \A q \in Pollers : q # p => snaps'[q] = snaps[q] /\ listed'[q] = listed[q]
        /\ listed' \in [Pollers -> SUBSET CohortKeys]
    BY <2>7 DEF IInv, TypeOK
  <2>9. TypeOK'
    BY <1>3, <2>5, <2>6, <2>8 DEF GetCohortSnapshot, IInv, TypeOK, SameMembers, IsCohorts
  <2>10. PollsKnown'
    BY <2>1, <2>5, <2>6, <2>8 DEF IInv, PollsKnown, SameMembers
  <2> QED
    BY <2>5, <2>9, <2>10
<1>4. ASSUME NEW c \in CohortKeys, RunDBSubscription(p, c) \/ RunDBSubscriptionFails(p, c)
      PROVE  TypeOK' /\ SameMembers /\ PollsKnown'
  <2>1. PICK r \in Values \cup {"error"} : snaps' = [snaps EXCEPT ![p][c].result = r]
    <3>1. CASE RunDBSubscriptionFails(p, c)
      BY <3>1 DEF RunDBSubscriptionFails
    <3>2. CASE RunDBSubscription(p, c)
      <4>1. PICK k \in PollerKeys : snaps' = [snaps EXCEPT ![p][c].result = data[k][c]]
        BY <3>2 DEF RunDBSubscription
      <4>2. data[k][c] \in Values
        BY DEF IInv, TypeOK
      <4> QED
        BY <4>1, <4>2
    <3> QED
      BY <1>4, <3>1, <3>2
  <2>2. c \in DOMAIN snaps[p] /\ snaps[p][c] \in Snapshot
    BY <1>4 DEF RunDBSubscription, RunDBSubscriptionFails, Asks, IInv, TypeOK, IsMap
  <2> DEFINE snap == [snaps[p][c] EXCEPT !.result = r]
  <2>3. snap \in Snapshot
    <3>1. r \in Values \cup {"none", "error"}
      OBVIOUS
    <3> QED
      BY <2>2, <3>1 DEF Snapshot
  <2>4. snaps' = [snaps EXCEPT ![p] = [@ EXCEPT ![c] = snap]]
    BY <2>1
  <2> HIDE DEF snap
  <2>5. /\ DOMAIN snaps' = Pollers
        /\ \A q \in Pollers : /\ IsMap(snaps'[q], CohortKeys, Snapshot)
                              /\ DOMAIN snaps'[q] = DOMAIN snaps[q]
    BY <2>2, <2>3, <2>4, SnapshotType
  <2>6. errors' \in 0 .. MaxErrors /\ cohorts' = cohorts /\ listed' = listed
    BY <1>4, LiveQueriesAssumption DEF RunDBSubscription, RunDBSubscriptionFails, Disturb, IInv, TypeOK
  <2>7. TypeOK'
    BY <1>4, <2>5, <2>6 DEF RunDBSubscription, RunDBSubscriptionFails, IInv, TypeOK
  <2> QED
    BY <2>5, <2>6, <2>7, SameCohorts DEF IInv, PollsKnown
<1>5. ASSUME NEW c \in CohortKeys, PushResultToCohort(p, c)
      PROVE  TypeOK' /\ SameMembers /\ PollsKnown'
  <2> DEFINE to     == SubscribersToPush(cohorts[p][c], snaps[p][c])
             snap   == [snaps[p][c] EXCEPT !.compared = TRUE, !.to = to]
             cohort == [cohorts[p][c] EXCEPT !.hash = HashOf(snaps[p][c].result)]
  <2>1. /\ c \in DOMAIN snaps[p] /\ snaps[p][c] \in Snapshot
        /\ c \in DOMAIN cohorts[p] /\ cohorts[p][c] \in Cohort
    BY <1>5 DEF PushResultToCohort, IInv, TypeOK, IsMap, PollsKnown
  <2>2. to \subseteq Subs
    BY <2>1 DEF SubscribersToPush, Snapshot
  <2>3. snap \in Snapshot
    <3> HIDE DEF to
    <3> QED
      BY <2>1, <2>2 DEF Snapshot
  <2>4. cohort \in Cohort /\ Members(cohort) = Members(cohorts[p][c])
    <3>1. HashOf(snaps[p][c].result) \in Values \cup {"none"}
      BY <1>5, <2>1 DEF HashOf, Snapshot, PushResultToCohort
    <3> QED
      BY <2>1, <3>1 DEF Cohort, Members
  <2>5. /\ snaps' = [snaps EXCEPT ![p] = [@ EXCEPT ![c] = snap]]
        /\ cohorts' = [cohorts EXCEPT ![p] = [@ EXCEPT ![c] = cohort]]
        /\ listed' = listed
    BY <1>5, <2>1 DEF PushResultToCohort, IInv, TypeOK
  <2> HIDE DEF snap, cohort
  <2>6. /\ DOMAIN snaps' = Pollers
        /\ \A q \in Pollers : /\ IsMap(snaps'[q], CohortKeys, Snapshot)
                              /\ DOMAIN snaps'[q] = DOMAIN snaps[q]
    BY <2>1, <2>3, <2>5, SnapshotType
  <2>7. DOMAIN cohorts' = Pollers /\ SameMembers
    BY <2>1, <2>4, <2>5, CohortType
  <2>8. TypeOK'
    BY <1>5, <2>6, <2>7 DEF PushResultToCohort, IInv, TypeOK, SameMembers, IsCohorts
  <2> QED
    BY <2>5, <2>6, <2>7, <2>8 DEF IInv, PollsKnown, SameMembers
<1>6. ASSUME NEW c \in CohortKeys, NEW s \in Subs, PushResultToSubscriber(p, c, s)
      PROVE  TypeOK' /\ SameMembers /\ PollsKnown'
  <2> DEFINE snap == [snaps[p][c] EXCEPT !.to = @ \ {s}]
  <2>1. c \in DOMAIN snaps[p] /\ snaps[p][c] \in Snapshot
    BY <1>6 DEF PushResultToSubscriber, IInv, TypeOK, IsMap
  <2>2. snap \in Snapshot /\ snaps[p][c].result \in Values \cup {"none", "error"}
    BY <2>1 DEF Snapshot
  <2>3. snaps' = [snaps EXCEPT ![p] = [@ EXCEPT ![c] = snap]] /\ listed' = listed /\ cohorts' = cohorts
    BY <1>6 DEF PushResultToSubscriber
  <2> HIDE DEF snap
  <2>4. /\ DOMAIN snaps' = Pollers
        /\ \A q \in Pollers : /\ IsMap(snaps'[q], CohortKeys, Snapshot)
                              /\ DOMAIN snaps'[q] = DOMAIN snaps[q]
    BY <2>1, <2>2, <2>3, SnapshotType
  <2>5. last' \in [Subs -> Values \cup {"none", "error"}]
    BY <1>6, <2>2 DEF PushResultToSubscriber, IInv, TypeOK
  <2>6. TypeOK'
    BY <1>6, <2>4, <2>5 DEF PushResultToSubscriber, IInv, TypeOK
  <2> QED
    BY <2>3, <2>4, <2>6, SameCohorts DEF IInv, PollsKnown
<1> QED
  BY <1>1, <1>2, <1>3, <1>4, <1>5, <1>6 DEF PollStep

-------------------------------------------------------------------------------
(* Memberships and threads *)

\* A poller that is not in the map has no cohorts.
LEMMA OutOfMap ==
    ASSUME IInv, NEW p \in Pollers, ~InMap(p)
    PROVE  DOMAIN cohorts[p] = {}
<1>1. \A s \in Subs : ~In(cohorts[p], s)
  BY LiveQueriesAssumption DEF IInv, Placed, InMap
<1> QED
  BY <1>1, NobodyIn DEF IInv, TypeOK, Placed, IsCohorts

LEMMA JoinKeeps ==
    ASSUME IInv, NEW s \in Subs, JoinPoller(s)
    PROVE  Placed' /\ CallsOwn' /\ PollsKnown' /\ ThreadsAttended'
<1> USE DEF pollVars, budgets
<1> DEFINE p   == lqMap[PollerOf[s]]
           new == WithSubscriber(cohorts[p], s)
<1>1. p \in Pollers /\ PollerOf[s] \in PollerKeys
  BY LiveQueriesAssumption DEF JoinPoller, IInv, TypeOK
<1>2. /\ CohortsOK(new) /\ DOMAIN cohorts[p] \subseteq DOMAIN new /\ DOMAIN new # {}
      /\ \A t \in Subs : In(new, t) <=> In(cohorts[p], t) \/ t = s
  BY <1>1, WithSubscriberIn DEF IInv, TypeOK, Placed, IsCohorts
<1>3. cohorts'[p] = new /\ \A q \in Pollers : q # p => cohorts'[q] = cohorts[q]
  BY <1>1 DEF JoinPoller, IInv, TypeOK
<1>4. /\ pc[s] = "idle" /\ p # Nobody /\ pc' = [pc EXCEPT ![s] = "active"]
      /\ lqMap' = lqMap /\ ioState' = ioState /\ thread' = thread /\ mine' = mine
      /\ listed' = listed /\ snaps' = snaps
  BY DEF JoinPoller
<1> HIDE DEF new
<1>5. \A t \in Subs : Registered(t)' <=> Registered(t) \/ t = s
  BY <1>4 DEF Registered, IInv, TypeOK
<1>6. Placed'
  <2>1. \A q \in Pollers : CohortsOK(cohorts'[q])
    BY <1>2, <1>3 DEF IInv, Placed
  <2>2. ASSUME NEW q \in Pollers, NEW t \in Subs
        PROVE  In(cohorts'[q], t) <=> Registered(t)' /\ lqMap'[PollerOf[t]] = q
    <3>1. ~Registered(s)
      BY <1>4 DEF Registered
    <3> QED
      BY <1>2, <1>3, <1>4, <1>5, <3>1 DEF IInv, Placed
  <2>3. \A k \in PollerKeys : lqMap'[k] # Nobody => DOMAIN cohorts'[lqMap'[k]] # {}
    BY <1>2, <1>3, <1>4 DEF IInv, Placed, TypeOK
  <2> QED
    BY <1>4, <1>5, <2>1, <2>2, <2>3 DEF IInv, Placed
<1>7. \A q : InMap(q)' <=> InMap(q)
  BY <1>4 DEF InMap
<1>8. CallsOwn' /\ ThreadsAttended'
  BY <1>4, <1>7 DEF IInv, TypeOK, CallsOwn, ThreadsAttended
<1>9. PollsKnown'
  BY <1>2, <1>3, <1>4 DEF IInv, PollsKnown
<1> QED
  BY <1>6, <1>8, <1>9

LEMMA CreateKeeps ==
    ASSUME IInv, NEW s \in Subs, NEW p \in Pollers, CreatePoller(s, p)
    PROVE  Placed' /\ CallsOwn' /\ PollsKnown' /\ ThreadsAttended'
<1> USE DEF pollVars, budgets
<1> DEFINE k   == PollerOf[s]
           new == WithSubscriber(NoMap, s)
<1>1. k \in PollerKeys
  BY LiveQueriesAssumption
<1>2. CohortsOK(new) /\ DOMAIN new # {} /\ \A t \in Subs : In(new, t) <=> t = s
  <2>1. IsCohorts(NoMap) /\ CohortsOK(NoMap) /\ \A t \in Subs : ~In(NoMap, t)
    BY NoMapIsMap, NoMapIn DEF IsCohorts
  <2> QED
    BY <2>1, WithSubscriberIn
<1>3. cohorts'[p] = new /\ \A q \in Pollers : q # p => cohorts'[q] = cohorts[q]
  BY DEF CreatePoller, IInv, TypeOK
<1>4. /\ pc[s] = "idle" /\ lqMap[k] = Nobody /\ Garbage(p) /\ pc' = [pc EXCEPT ![s] = "forking"]
      /\ lqMap' = [lqMap EXCEPT ![k] = p] /\ mine' = [mine EXCEPT ![s] = p]
      /\ ioState' = [ioState EXCEPT ![p] = FALSE] /\ thread' = [thread EXCEPT ![p] = "none"]
      /\ listed' = listed /\ snaps' = snaps
  BY DEF CreatePoller
<1> HIDE DEF new
<1>5. \A t \in Subs : Registered(t)' <=> Registered(t) \/ t = s
  BY <1>4 DEF Registered, IInv, TypeOK
<1>6. /\ lqMap'[k] = p /\ \A l \in PollerKeys : l # k => lqMap'[l] = lqMap[l]
      /\ p # Nobody /\ \A l \in PollerKeys : lqMap[l] # p
  BY <1>1, <1>4, LiveQueriesAssumption DEF IInv, TypeOK, Garbage, InMap
<1>7. \A t \in Subs : PollerOf[t] \in PollerKeys /\ (Registered(t) => PollerOf[t] # k)
  BY <1>4, LiveQueriesAssumption DEF IInv, Placed
<1>8. Placed'
  <2>1. \A q \in Pollers : CohortsOK(cohorts'[q])
    BY <1>2, <1>3 DEF IInv, Placed
  <2>2. ASSUME NEW q \in Pollers, NEW t \in Subs
        PROVE  In(cohorts'[q], t) <=> Registered(t)' /\ lqMap'[PollerOf[t]] = q
    <3>1. ~Registered(s)
      BY <1>4 DEF Registered
    <3>2. CASE q = p
      BY <1>2, <1>3, <1>5, <1>6, <1>7, <3>2
    <3>3. CASE q # p
      BY <1>3, <1>5, <1>6, <1>7, <3>1, <3>3 DEF IInv, Placed
    <3> QED
      BY <3>2, <3>3
  <2>3. ASSUME NEW l \in PollerKeys, lqMap'[l] # Nobody
        PROVE  DOMAIN cohorts'[lqMap'[l]] # {}
    <3>1. CASE l = k
      BY <1>2, <1>3, <1>6, <3>1
    <3>2. CASE l # k
      <4>1. lqMap'[l] = lqMap[l] /\ lqMap[l] \in Pollers /\ lqMap[l] # p
        BY <1>6, <2>3, <3>2 DEF IInv, TypeOK
      <4>2. cohorts'[lqMap[l]] = cohorts[lqMap[l]] /\ DOMAIN cohorts[lqMap[l]] # {}
        BY <1>3, <2>3, <4>1 DEF IInv, Placed
      <4> QED
        BY <4>1, <4>2
    <3> QED
      BY <3>1, <3>2
  <2>4. \A t \in Subs : Registered(t)' => lqMap'[PollerOf[t]] # Nobody
    BY <1>5, <1>6, <1>7 DEF IInv, Placed
  <2>5. \A l, m \in PollerKeys : lqMap'[l] = lqMap'[m] /\ lqMap'[l] # Nobody => l = m
    BY <1>6 DEF IInv, Placed
  <2> QED
    BY <2>1, <2>2, <2>3, <2>4, <2>5 DEF Placed
<1>9. \A q \in Pollers : InMap(q)' <=> InMap(q) \/ q = p
  BY <1>1, <1>4, <1>6, LiveQueriesAssumption DEF InMap
<1>10. /\ pc'[s] = "forking" /\ mine'[s] = p
       /\ \A t \in Subs : t # s => pc'[t] = pc[t] /\ mine'[t] = mine[t]
       /\ thread'[p] = "none" /\ ~ioState'[p]
       /\ \A q \in Pollers : q # p => thread'[q] = thread[q] /\ ioState'[q] = ioState[q]
       /\ \A t \in Subs : mine[t] # p
  BY <1>4 DEF IInv, TypeOK, Garbage
<1>11. CallsOwn'
  <2>1. \A t \in Subs : pc'[t] \in {"forking", "putting"} => mine'[t] = lqMap'[PollerOf[t]]
    BY <1>6, <1>7, <1>10 DEF IInv, CallsOwn, Registered
  <2>2. \A t \in Subs : pc'[t] = "stopping" => mine'[t] \in Pollers /\ ~InMap(mine[t])'
    BY <1>9, <1>10 DEF IInv, CallsOwn
  <2>3. \A t \in Subs : pc'[t] = "stopping" => mine'[t] = mine[t]
    BY <1>10
  <2>4. ASSUME NEW q \in Pollers, InMap(q)', ~ioState'[q]
        PROVE  \E t \in Subs : mine'[t] = q /\ pc'[t] \in {"forking", "putting"}
    BY <1>4, <1>9, <1>10, <2>4 DEF IInv, CallsOwn
  <2> QED
    BY <2>1, <2>2, <2>3, <2>4 DEF CallsOwn, InMap
<1>12. ThreadsAttended'
  BY <1>4, <1>9, <1>10 DEF IInv, ThreadsAttended
<1>13. PollsKnown'
  <2>1. DOMAIN cohorts[p] = {}
    BY <1>4, OutOfMap DEF Garbage
  <2> QED
    BY <1>3, <1>4, <2>1 DEF IInv, PollsKnown
<1> QED
  BY <1>8, <1>11, <1>12, <1>13

\* The steps that leave the map and the cohorts alone.
LEMMA ForkKeeps ==
    ASSUME IInv, NEW s \in Subs, Fork(s) \/ PutTMVar(s) \/ StopThread(s)
    PROVE  Placed' /\ CallsOwn' /\ PollsKnown' /\ ThreadsAttended'
<1> USE DEF mapVars, pollVars, budgets
<1>1. lqMap' = lqMap /\ cohorts' = cohorts
  BY DEF Fork, PutTMVar, StopThread
<1>2. \A t \in Subs : Registered(t)' <=> Registered(t)
  BY DEF Fork, ForkThread, PutTMVar, StopThread, Registered, IInv, TypeOK
<1>3. Placed'
  BY <1>1, <1>2 DEF IInv, Placed, In, CohortsOK
<1>4. \A q : InMap(q)' <=> InMap(q)
  BY <1>1 DEF InMap
<1>5. mine[s] \in Pollers
  <2>1. CASE Fork(s) \/ PutTMVar(s)
    BY <2>1, PollerOfActive DEF Fork, PutTMVar, Registered, IInv, CallsOwn
  <2>2. CASE StopThread(s)
    BY <2>2 DEF StopThread, IInv, CallsOwn
  <2> QED
    BY <2>1, <2>2
<1>6. CASE Fork(s)
  <2>1. /\ pc[s] = "forking" /\ pc' = [pc EXCEPT ![s] = "putting"] /\ mine' = mine
        /\ thread' = [thread EXCEPT ![mine[s]] = "sleeping"] /\ ioState' = ioState
        /\ listed' = listed /\ snaps' = snaps
    BY <1>6 DEF Fork, ForkThread
  <2>2. InMap(mine[s])
    BY <2>1, PollerOfActive DEF Registered, IInv, CallsOwn
  <2>3. CallsOwn'
    BY <1>1, <1>4, <2>1 DEF IInv, TypeOK, CallsOwn
  <2>4. ThreadsAttended'
    BY <1>4, <1>5, <2>1, <2>2 DEF IInv, TypeOK, ThreadsAttended
  <2> QED
    BY <1>1, <1>3, <2>1, <2>3, <2>4 DEF IInv, PollsKnown
<1>7. CASE PutTMVar(s)
  <2>1. /\ pc[s] = "putting" /\ pc' = [pc EXCEPT ![s] = "active"] /\ mine' = [mine EXCEPT ![s] = Nobody]
        /\ thread' = thread /\ ioState' = [ioState EXCEPT ![mine[s]] = TRUE]
        /\ listed' = listed /\ snaps' = snaps
    BY <1>7 DEF PutTMVar
  <2>2. /\ pc'[s] = "active" /\ \A t \in Subs : t # s => pc'[t] = pc[t] /\ mine'[t] = mine[t]
        /\ ioState'[mine[s]] /\ \A q \in Pollers : q # mine[s] => ioState'[q] = ioState[q]
    BY <1>5, <2>1 DEF IInv, TypeOK
  <2>3. CallsOwn'
    BY <1>1, <1>4, <2>1, <2>2 DEF IInv, CallsOwn
  <2>4. ThreadsAttended'
    BY <1>4, <2>1, <2>2 DEF IInv, ThreadsAttended
  <2> QED
    BY <1>1, <1>3, <2>1, <2>3, <2>4 DEF IInv, PollsKnown
<1>8. CASE StopThread(s)
  <2> DEFINE p == mine[s]
  <2>1. /\ pc[s] = "stopping" /\ pc' = [pc EXCEPT ![s] = "gone"] /\ mine' = [mine EXCEPT ![s] = Nobody]
        /\ thread' = [thread EXCEPT ![p] = "stopped"] /\ ioState' = ioState
        /\ listed' = [listed EXCEPT ![p] = {}] /\ snaps' = [snaps EXCEPT ![p] = NoMap]
    BY <1>8 DEF StopThread, ThreadToStop
  <2>2. ~InMap(p)
    BY <2>1 DEF IInv, CallsOwn
  <2>3. /\ pc'[s] = "gone" /\ \A t \in Subs : t # s => pc'[t] = pc[t] /\ mine'[t] = mine[t]
        /\ thread'[p] = "stopped" /\ \A q \in Pollers : q # p => thread'[q] = thread[q]
    BY <1>5, <2>1 DEF IInv, TypeOK
  <2>4. CallsOwn'
    BY <1>1, <1>4, <2>1, <2>3 DEF IInv, CallsOwn
  <2>5. ThreadsAttended'
    BY <1>4, <2>1, <2>2, <2>3 DEF IInv, ThreadsAttended
  <2>6. PollsKnown'
    <3>1. DOMAIN NoMap = {}
      BY NoMapIsMap
    <3> QED
      BY <1>1, <1>5, <2>1, <3>1 DEF IInv, TypeOK, PollsKnown
  <2> QED
    BY <1>3, <2>4, <2>5, <2>6
<1> QED
  BY <1>6, <1>7, <1>8

\* A poll changes no membership and hands no poller to anybody.
LEMMA PollKeeps ==
    ASSUME IInv, SameMembers, lqMap' = lqMap, ioState' = ioState, pc' = pc, mine' = mine,
           \A p \in Pollers :
               thread'[p] \in {"sleeping", "polling"} <=> thread[p] \in {"sleeping", "polling"}
    PROVE  Placed' /\ CallsOwn' /\ ThreadsAttended'
<1>1. \A q : InMap(q)' <=> InMap(q)
  BY DEF InMap
<1>2. CallsOwn'
  BY <1>1 DEF IInv, CallsOwn
<1>3. ThreadsAttended'
  BY <1>1 DEF IInv, ThreadsAttended
<1>4. Placed'
  <2>1. \A t \in Subs : Registered(t)' <=> Registered(t)
    BY DEF Registered
  <2>2. \A p \in Pollers : /\ CohortsOK(cohorts'[p]) /\ DOMAIN cohorts'[p] = DOMAIN cohorts[p]
                           /\ \A t \in Subs : In(cohorts'[p], t) <=> In(cohorts[p], t)
    BY DEF IInv, Placed, SameMembers
  <2>3. \A k \in PollerKeys : lqMap'[k] # Nobody => DOMAIN cohorts'[lqMap'[k]] # {}
    BY <2>2 DEF IInv, Placed, TypeOK
  <2> QED
    BY <2>1, <2>2, <2>3 DEF IInv, Placed
<1> QED
  BY <1>2, <1>3, <1>4

\* What a subscriber leaves behind in the poller it is removed from.
LEMMA LeftBehind ==
    ASSUME IInv, NEW s \in Subs, Registered(s)
    PROVE  LET p    == lqMap[PollerOf[s]]
               left == CohortsWithout(cohorts[p], s)
           IN  /\ p \in Pollers /\ InMap(p) /\ PollerOf[s] \in PollerKeys
               /\ CohortsOK(left) /\ (left = NoMap <=> DOMAIN left = {})
               /\ \A t \in Subs : In(left, t) <=> In(cohorts[p], t) /\ t # s
               /\ DOMAIN left = {} => \A t \in Subs : In(cohorts[p], t) => t = s
<1> DEFINE p    == lqMap[PollerOf[s]]
           left == CohortsWithout(cohorts[p], s)
<1> SUFFICES /\ p \in Pollers /\ InMap(p) /\ PollerOf[s] \in PollerKeys
             /\ CohortsOK(left) /\ (left = NoMap <=> DOMAIN left = {})
             /\ \A t \in Subs : In(left, t) <=> In(cohorts[p], t) /\ t # s
             /\ DOMAIN left = {} => \A t \in Subs : In(cohorts[p], t) => t = s
  OBVIOUS
<1>1. p \in Pollers /\ InMap(p) /\ PollerOf[s] \in PollerKeys /\ In(cohorts[p], s)
  BY PollerOfActive
<1>2. /\ IsCohorts(left) /\ CohortsOK(left)
      /\ \A t \in Subs : In(left, t) <=> In(cohorts[p], t) /\ t # s
  BY <1>1, CohortsWithoutIn DEF IInv, TypeOK, Placed, IsCohorts
<1> HIDE DEF left
<1>3. left = NoMap <=> DOMAIN left = {}
  BY <1>2, EmptyMap DEF IsCohorts
<1>4. DOMAIN left = {} => \A t \in Subs : In(cohorts[p], t) => t = s
  BY <1>2, NobodyIn
<1> QED
  BY <1>1, <1>2, <1>3, <1>4

LEMMA RemoveOneKeeps ==
    ASSUME IInv, NEW s \in Subs, RemoveOne(s)
    PROVE  Placed' /\ CallsOwn' /\ PollsKnown' /\ ThreadsAttended'
<1> USE DEF budgets
<1> DEFINE p    == lqMap[PollerOf[s]]
           left == CohortsWithout(cohorts[p], s)
<1>1. /\ p \in Pollers /\ CohortsOK(left) /\ DOMAIN left # {}
      /\ \A t \in Subs : In(left, t) <=> In(cohorts[p], t) /\ t # s
  BY LeftBehind DEF RemoveOne, Registered
<1>2. cohorts'[p] = left /\ \A q \in Pollers : q # p => cohorts'[q] = cohorts[q]
  BY <1>1 DEF RemoveOne, IInv, TypeOK
<1>3. /\ pc[s] = "active" /\ pc' = [pc EXCEPT ![s] = "gone"] /\ ForgetDeleted(p, left)
      /\ lqMap' = lqMap /\ ioState' = ioState /\ thread' = thread /\ mine' = mine
  BY DEF RemoveOne
<1> HIDE DEF left
<1>4. \A t \in Subs : Registered(t)' <=> Registered(t) /\ t # s
  BY <1>3 DEF Registered, IInv, TypeOK
<1>5. Placed'
  <2>1. \A q \in Pollers : CohortsOK(cohorts'[q])
    BY <1>1, <1>2 DEF IInv, Placed
  <2>2. ASSUME NEW q \in Pollers, NEW t \in Subs
        PROVE  In(cohorts'[q], t) <=> Registered(t)' /\ lqMap'[PollerOf[t]] = q
    BY <1>1, <1>2, <1>3, <1>4 DEF IInv, Placed
  <2>3. \A k \in PollerKeys : lqMap'[k] # Nobody => DOMAIN cohorts'[lqMap'[k]] # {}
    BY <1>1, <1>2, <1>3 DEF IInv, Placed, TypeOK
  <2> QED
    BY <1>3, <1>4, <2>1, <2>2, <2>3 DEF IInv, Placed
<1>6. \A q : InMap(q)' <=> InMap(q)
  BY <1>3 DEF InMap
<1>7. pc'[s] = "gone" /\ \A t \in Subs : t # s => pc'[t] = pc[t]
  BY <1>3 DEF IInv, TypeOK
<1>8. CallsOwn' /\ ThreadsAttended'
  BY <1>3, <1>6, <1>7 DEF IInv, CallsOwn, ThreadsAttended
<1>9. PollsKnown'
  BY <1>1, <1>2, <1>3, ForgetDeletedType DEF IInv, PollsKnown
<1> QED
  BY <1>5, <1>8, <1>9

\* The handle of the thread is there: a call that is about to put it belongs to a
\* subscriber of the same poller, who stays behind.
LEMMA RemoveLastKeeps ==
    ASSUME IInv, NEW s \in Subs, RemoveLast(s)
    PROVE  Placed' /\ CallsOwn' /\ PollsKnown' /\ ThreadsAttended'
<1> USE DEF budgets
<1> DEFINE k    == PollerOf[s]
           p    == lqMap[k]
           left == CohortsWithout(cohorts[p], s)
<1>1. /\ p \in Pollers /\ InMap(p) /\ k \in PollerKeys /\ DOMAIN left = {}
      /\ \A t \in Subs : In(cohorts[p], t) => t = s
  <2>1. left = NoMap /\ Registered(s)
    BY DEF RemoveLast, Registered
  <2>2. /\ p \in Pollers /\ InMap(p) /\ k \in PollerKeys /\ (left = NoMap <=> DOMAIN left = {})
        /\ DOMAIN left = {} => \A t \in Subs : In(cohorts[p], t) => t = s
    BY <2>1, LeftBehind
  <2> QED
    BY <2>1, <2>2
<1>2. /\ pc[s] = "active" /\ ForgetDeleted(p, left)
      /\ lqMap' = [lqMap EXCEPT ![k] = Nobody] /\ cohorts' = [cohorts EXCEPT ![p] = NoMap]
      /\ ioState' = ioState /\ thread' = thread
  BY DEF RemoveLast
<1>3. ioState[p]
  <2>1. SUFFICES ASSUME ~ioState[p] PROVE FALSE
    OBVIOUS
  <2>2. PICK t \in Subs : mine[t] = p /\ pc[t] \in {"forking", "putting"}
    BY <1>1, <2>1 DEF IInv, CallsOwn
  <2>3. Registered(t) /\ lqMap[PollerOf[t]] = p
    BY <2>2 DEF Registered, IInv, CallsOwn
  <2>4. In(cohorts[p], t)
    BY <1>1, <2>3 DEF IInv, Placed
  <2> QED
    BY <1>1, <1>2, <2>2, <2>4
<1>4. pc' = [pc EXCEPT ![s] = "stopping"] /\ mine' = [mine EXCEPT ![s] = p]
  BY <1>3 DEF RemoveLast
<1> HIDE DEF left
<1>5. \A t \in Subs : Registered(t)' <=> Registered(t) /\ t # s
  BY <1>2, <1>4 DEF Registered, IInv, TypeOK
<1>6. \A t \in Subs : PollerOf[t] \in PollerKeys
  BY LiveQueriesAssumption
<1>7. /\ lqMap'[k] = Nobody /\ \A l \in PollerKeys : l # k => lqMap'[l] = lqMap[l] /\ lqMap[l] # p
      /\ p # Nobody
  BY <1>1, <1>2, LiveQueriesAssumption DEF IInv, TypeOK, Placed
<1>8. cohorts'[p] = NoMap /\ \A q \in Pollers : q # p => cohorts'[q] = cohorts[q]
  BY <1>1, <1>2 DEF IInv, TypeOK
<1>9. ASSUME NEW t \in Subs, Registered(t), t # s
      PROVE  PollerOf[t] # k
  BY <1>1, <1>9 DEF IInv, Placed
<1>10. Placed'
  <2>1. \A q \in Pollers : CohortsOK(cohorts'[q])
    BY <1>8, NoMapIn DEF IInv, Placed
  <2>2. ASSUME NEW q \in Pollers, NEW t \in Subs
        PROVE  In(cohorts'[q], t) <=> Registered(t)' /\ lqMap'[PollerOf[t]] = q
    <3>1. CASE q = p
      BY <1>6, <1>7, <1>8, <3>1, NoMapIn
    <3>2. CASE q # p
      BY <1>5, <1>6, <1>7, <1>8, <1>9, <3>2, LiveQueriesAssumption DEF IInv, Placed
    <3> QED
      BY <3>1, <3>2
  <2>3. ASSUME NEW l \in PollerKeys, lqMap'[l] # Nobody
        PROVE  DOMAIN cohorts'[lqMap'[l]] # {}
    <3>1. lqMap'[l] = lqMap[l] /\ lqMap[l] # p /\ lqMap[l] \in Pollers
      BY <1>7, <2>3 DEF IInv, TypeOK
    <3>2. cohorts'[lqMap[l]] = cohorts[lqMap[l]] /\ DOMAIN cohorts[lqMap[l]] # {}
      BY <1>8, <2>3, <3>1 DEF IInv, Placed
    <3> QED
      BY <3>1, <3>2
  <2>4. \A t \in Subs : Registered(t)' => lqMap'[PollerOf[t]] # Nobody
    BY <1>5, <1>6, <1>7, <1>9 DEF IInv, Placed
  <2>5. \A l, m \in PollerKeys : lqMap'[l] = lqMap'[m] /\ lqMap'[l] # Nobody => l = m
    BY <1>7 DEF IInv, Placed
  <2> QED
    BY <2>1, <2>2, <2>3, <2>4, <2>5 DEF Placed
<1>11. \A q \in Pollers : InMap(q)' <=> InMap(q) /\ q # p
  BY <1>1, <1>7, LiveQueriesAssumption DEF InMap
<1>12. /\ pc'[s] = "stopping" /\ mine'[s] = p
       /\ \A t \in Subs : t # s => pc'[t] = pc[t] /\ mine'[t] = mine[t]
  BY <1>2, <1>4 DEF IInv, TypeOK
<1>13. CallsOwn'
  <2>1. ASSUME NEW t \in Subs, pc'[t] \in {"forking", "putting"}
        PROVE  mine'[t] = lqMap'[PollerOf[t]]
    <3>1. t # s /\ Registered(t) /\ mine'[t] = mine[t] /\ mine[t] = lqMap[PollerOf[t]]
      BY <1>12, <2>1 DEF Registered, IInv, CallsOwn
    <3> QED
      BY <1>6, <1>7, <1>9, <3>1
  <2>2. ASSUME NEW t \in Subs, pc'[t] = "stopping"
        PROVE  mine'[t] \in Pollers /\ ~InMap(mine[t])'
    <3>1. CASE t = s
      BY <1>1, <1>11, <1>12, <3>1 DEF InMap
    <3>2. CASE t # s
      BY <1>11, <1>12, <2>2, <3>2 DEF IInv, CallsOwn, InMap
    <3> QED
      BY <3>1, <3>2
  <2>3. ASSUME NEW q \in Pollers, InMap(q)', ~ioState'[q]
        PROVE  \E t \in Subs : mine'[t] = q /\ pc'[t] \in {"forking", "putting"}
    BY <1>2, <1>11, <1>12, <2>3 DEF IInv, CallsOwn
  <2> QED
    BY <2>1, <2>2, <2>3 DEF CallsOwn
<1>14. ThreadsAttended'
  BY <1>2, <1>11, <1>12 DEF IInv, ThreadsAttended
<1>15. PollsKnown'
  <2>1. DOMAIN NoMap = {}
    BY NoMapIsMap
  <2> QED
    BY <1>1, <1>2, <1>8, <2>1, ForgetDeletedType DEF IInv, PollsKnown
<1> QED
  BY <1>10, <1>13, <1>14, <1>15

LEMMA InvStep == IInv /\ [Next]_vars => IInv'
<1> SUFFICES ASSUME IInv, [Next]_vars PROVE IInv'
  OBVIOUS
<1>1. ASSUME NEW s \in Subs, AddStep(s)
      PROVE  IInv'
  BY <1>1, AddType, JoinKeeps, CreateKeeps, ForkKeeps DEF AddStep, IInv
<1>2. ASSUME NEW s \in Subs, RemoveStep(s)
      PROVE  IInv'
  BY <1>2, RemoveType, RemoveOneKeeps, RemoveLastKeeps, ForkKeeps DEF RemoveStep, IInv
<1>3. ASSUME NEW p \in Pollers,
             PollStep(p) \/ PollDies(p) \/ \E c \in CohortKeys : RunDBSubscriptionFails(p, c)
      PROVE  IInv'
  <2>1. TypeOK' /\ SameMembers /\ PollsKnown'
    BY <1>3, PollType
  <2>2. lqMap' = lqMap /\ ioState' = ioState /\ pc' = pc /\ mine' = mine
    BY <1>3 DEF PollStep, StartPoll, FinishPoll, PollDies, GetCohortSnapshot, RunDBSubscription,
                RunDBSubscriptionFails, PushResultToCohort, PushResultToSubscriber, mapVars
  <2>3. \A q \in Pollers :
           thread'[q] \in {"sleeping", "polling"} <=> thread[q] \in {"sleeping", "polling"}
    BY <1>3 DEF PollStep, StartPoll, FinishPoll, PollDies, GetCohortSnapshot, RunDBSubscription,
                RunDBSubscriptionFails, PushResultToCohort, PushResultToSubscriber, mapVars, IInv, TypeOK
  <2> QED
    BY <2>1, <2>2, <2>3, PollKeeps DEF IInv
<1>4. ASSUME NEW k \in PollerKeys, NEW c \in CohortKeys, NEW v \in Values, Change(k, c, v)
      PROVE  IInv'
  <2>1. changes' \in 0 .. MaxChanges
    BY <1>4, LiveQueriesAssumption DEF Change, Disturb, IInv, TypeOK
  <2>2. data' \in [PollerKeys -> [CohortKeys -> Values]]
    BY <1>4 DEF Change, IInv, TypeOK
  <2>3. UNCHANGED <<lqMap, cohorts, ioState, thread, listed, snaps, pc, mine, last, missed,
                    errors, deaths>>
    BY <1>4 DEF Change, mapVars, pollVars
  <2>4. TypeOK'
    BY <2>1, <2>2, <2>3 DEF IInv, TypeOK
  <2>5. SameMembers /\ PollsKnown'
    BY <2>3, SameCohorts DEF IInv, PollsKnown
  <2> QED
    BY <2>3, <2>4, <2>5, PollKeeps DEF IInv
<1>5. CASE UNCHANGED vars
  <2>1. UNCHANGED <<lqMap, cohorts, ioState, thread, listed, snaps, pc, mine, last, data, missed,
                    changes, errors, deaths>>
    BY <1>5 DEF vars
  <2>2. TypeOK' /\ PollsKnown' /\ SameMembers
    BY <2>1, SameCohorts DEF IInv, TypeOK, PollsKnown
  <2> QED
    BY <2>1, <2>2, PollKeeps DEF IInv
<1> QED
  BY <1>1, <1>2, <1>3, <1>4, <1>5 DEF Next

\* The registered subscribers are exactly those in the cohorts of the pollers in the map.
THEOREM InvariantHolds == Spec => []IInv
BY InitInv, InvStep, PTL DEF Spec

\* The states of all actions have their types.
THEOREM TypesHold == Spec => []TypeOK
<1>1. IInv => TypeOK
  BY DEF IInv
<1> QED
  BY <1>1, InvariantHolds, PTL

\* No cohort is without subscribers, no poller without cohorts, no thread without a poller
\* or a call that stops it, whatever the order of addLiveQuery, removeLiveQuery and polls,
\* and removeLiveQuery always finds the handle of the thread.
THEOREM NothingOutlivedHolds == Spec => []NothingOutlived
<1>1. IInv => NothingOutlived
  <2>1. SUFFICES ASSUME IInv PROVE NothingEmpty
    BY DEF NothingOutlived, IInv
  <2>2. ASSUME NEW k \in PollerKeys, lqMap[k] # Nobody
        PROVE  /\ DOMAIN cohorts[lqMap[k]] # {}
               /\ \A c \in DOMAIN cohorts[lqMap[k]] : ~IsEmpty(cohorts[lqMap[k]][c])
    <3>1. lqMap[k] \in Pollers
      BY <2>1, <2>2 DEF IInv, TypeOK
    <3> QED
      BY <2>1, <2>2, <3>1 DEF IInv, Placed, CohortsOK, IsEmpty
  <2> QED
    BY <2>2 DEF NothingEmpty
<1> QED
  BY <1>1, InvariantHolds, PTL

-------------------------------------------------------------------------------
(* The registry *)

Live == UNION {Served(lqMap[k]) : k \in {k \in PollerKeys : lqMap[k] # Nobody}}
Closed == {s \in Subs : pc[s] \in {"stopping", "reporting", "gone"}}

\* The pollers in the map serve exactly the registered subscribers.
LEMMA LiveRegistered == IInv => Live = {s \in Subs : Registered(s)}
<1> SUFFICES ASSUME IInv PROVE Live = {s \in Subs : Registered(s)}
  OBVIOUS
<1>1. ASSUME NEW p \in Pollers
      PROVE  \A t : t \in Served(p) <=> t \in Subs /\ In(cohorts[p], t)
  <2>1. \A c \in DOMAIN cohorts[p] : cohorts[p][c] \in Cohort
    BY DEF IInv, TypeOK, IsMap
  <2>2. \A c \in DOMAIN cohorts[p] : Members(cohorts[p][c]) \subseteq Subs
    BY <2>1 DEF Members, Cohort
  <2> QED
    BY <2>2 DEF Served, In, IInv, Placed, CohortsOK
<1>2. ASSUME NEW t, t \in Live
      PROVE  t \in Subs /\ Registered(t)
  <2>1. PICK k \in PollerKeys : lqMap[k] # Nobody /\ t \in Served(lqMap[k])
    BY <1>2 DEF Live
  <2>2. lqMap[k] \in Pollers
    BY <2>1 DEF IInv, TypeOK
  <2> QED
    BY <1>1, <2>1, <2>2 DEF IInv, Placed
<1>3. ASSUME NEW t \in Subs, Registered(t)
      PROVE  t \in Live
  <2>1. /\ lqMap[PollerOf[t]] \in Pollers /\ PollerOf[t] \in PollerKeys
        /\ lqMap[PollerOf[t]] # Nobody /\ t \in Served(lqMap[PollerOf[t]])
    BY <1>1, <1>3, PollerOfActive, LiveQueriesAssumption
  <2> QED
    BY <2>1 DEF Live
<1> QED
  BY <1>2, <1>3

\* A transaction of addLiveQuery adds its subscriber, one of removeLiveQuery removes it,
\* and all other steps change nothing of the registry.
LEMMA RegistryStep == IInv /\ IInv' /\ [Next]_vars => [Registry!Next]_(Registry!vars)
<1> SUFFICES ASSUME IInv, IInv', [Next]_vars
             PROVE  \/ \E s \in Subs : Registry!Add(s) \/ Registry!Remove(s)
                    \/ Live' = Live /\ Closed' = Closed
  BY DEF Registry!Next, Registry!vars, Live, Closed
<1>1. Live = {s \in Subs : Registered(s)} /\ Live' = {s \in Subs : Registered(s)'}
  <2>1. (IInv => Live = {s \in Subs : Registered(s)})'
    BY LiveRegistered, PTL
  <2> QED
    BY <2>1, LiveRegistered
<1>2. ASSUME pc' = pc
      PROVE  Live' = Live /\ Closed' = Closed
  BY <1>1, <1>2 DEF Registered, Closed
<1>3. ASSUME NEW s \in Subs, pc[s] = "idle",
             pc' = [pc EXCEPT ![s] = "active"] \/ pc' = [pc EXCEPT ![s] = "forking"]
      PROVE  Registry!Add(s)
  <2>1. s \notin Live \cup Closed /\ Live' = Live \cup {s} /\ Closed' = Closed
    BY <1>1, <1>3 DEF Registered, Closed, IInv, TypeOK
  <2> QED
    BY <2>1 DEF Registry!Add, Live, Closed
<1>4. ASSUME NEW s \in Subs, pc[s] = "active",
             pc' = [pc EXCEPT ![s] = "gone"] \/ pc' = [pc EXCEPT ![s] = "stopping"]
                                        \/ pc' = [pc EXCEPT ![s] = "reporting"]
      PROVE  Registry!Remove(s)
  <2>1. s \in Live /\ Live' = Live \ {s} /\ Closed' = Closed \cup {s}
    BY <1>1, <1>4 DEF Registered, Closed, IInv, TypeOK
  <2> QED
    BY <2>1 DEF Registry!Remove, Live, Closed
<1>5. ASSUME NEW s \in Subs,
             \/ pc[s] = "forking" /\ pc' = [pc EXCEPT ![s] = "putting"]
             \/ pc[s] = "putting" /\ pc' = [pc EXCEPT ![s] = "active"]
             \/ pc[s] = "stopping" /\ pc' = [pc EXCEPT ![s] = "gone"]
      PROVE  Live' = Live /\ Closed' = Closed
  BY <1>1, <1>5 DEF Registered, Closed, IInv, TypeOK
<1>6. CASE \E s \in Subs : AddStep(s)
  BY <1>3, <1>5, <1>6 DEF AddStep, JoinPoller, CreatePoller, Fork, ForkThread, PutTMVar
<1>7. CASE \E s \in Subs : RemoveStep(s)
  BY <1>4, <1>5, <1>7 DEF RemoveStep, RemoveOne, RemoveLast, StopThread
<1>8. ASSUME NEW p \in Pollers,
             PollStep(p) \/ PollDies(p) \/ \E c \in CohortKeys : RunDBSubscriptionFails(p, c)
      PROVE  Live' = Live /\ Closed' = Closed
  <2>1. pc' = pc
    BY <1>8 DEF PollStep, StartPoll, FinishPoll, PollDies, GetCohortSnapshot, RunDBSubscription,
                RunDBSubscriptionFails, PushResultToCohort, PushResultToSubscriber
  <2> QED
    BY <1>2, <2>1
<1>9. CASE \E k \in PollerKeys, c \in CohortKeys, v \in Values : Change(k, c, v)
  BY <1>2, <1>9 DEF Change
<1>10. CASE UNCHANGED vars
  BY <1>2, <1>10 DEF vars
<1> QED
  BY <1>6, <1>7, <1>8, <1>9, <1>10 DEF Next

\* addLiveQuery and removeLiveQuery, in all their steps and beside the polls, implement
\* the registry that the websocket connections rely on.
THEOREM RegistryHolds == Spec => ImplementsRegistry
<1>1. Init => Registry!Init
  <2>1. ASSUME Init PROVE Live = {} /\ Closed = {}
    BY <2>1, InitInv, LiveRegistered DEF Init, Registered, Closed
  <2> QED
    BY <2>1 DEF Registry!Init, Live, Closed
<1> QED
  BY <1>1, RegistryStep, InvariantHolds, PTL DEF Spec, ImplementsRegistry, Registry!Spec
================================================================================
