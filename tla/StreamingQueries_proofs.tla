------------------------ MODULE StreamingQueries_proofs ------------------------
(*****************************************************************************)
(* Proofs that subscribers of StreamingQueries are sent their rows in order,  *)
(* that removeStreamingQuery locates them, and that none comes back, for any  *)
(* subscribers, initial values, batch size, rows and number of disturbances.  *)
(*                                                                           *)
(* Everything is about subscribers that are followed, in cohorts with an id   *)
(* that was not split: what the others receive is not known.                  *)
(*****************************************************************************)
EXTENDS StreamingQueries, TLAPS

Followed(s) == pc[s] = "active" /\ s \notin tainted
Pushed(c)   == c \in DOMAIN ops /\ ops[c].pushed
Attached(c) == c \in DOMAIN snaps /\ snaps[c].attached
\* The subscribers that a snapshot has.
Seen(c) == snaps[c].cur \cup snaps[c].new

\* What a poll has at each of its stages.
Staged ==
    /\ listed \subseteq DOMAIN cohorts
    /\ stage = "sleeping" => DOMAIN snaps = {} /\ listed = {}
    /\ stage # "pushing" => DOMAIN ops = {}
    /\ stage = "pushing" => DOMAIN ops = DOMAIN snaps /\ listed = {}

\* A result has the rows next to the key it was asked for, and goes to a snapshot with the
\* same id.  It is compared before it is pushed, and is empty if it has not changed, since
\* the rows of the previous response came before.
Asked ==
    \A c \in DOMAIN ops :
        /\ ops[c].snap \in DOMAIN snaps /\ snaps[ops[c].snap].id = snaps[c].id
        /\ ops[c].result = Nothing \/ \E m \in Keys : ops[c].result = Just(c + 1 .. m)
        /\ ops[c].changed = Nothing => ~ops[c].pushed
        /\ snaps[c].id \notin split /\ ops[c].changed = Just(FALSE) => ops[c].result = Just({})
HashesOld == \A i \in Subs : \A R \in refs[i].hash : \A r \in R : r <= refs[i].cursor

\* Whoever has not come yet is nowhere, and its references are those of a new cohort.
Untouched ==
    \A s \in Subs : pc[s] = "idle" =>
        /\ s \notin split /\ got[s] = StartOf[s] /\ refs[s].cursor = StartOf[s]
        /\ \A c \in DOMAIN cohorts : s \notin Members(cohorts[c]) /\ cohorts[c].id # s
        /\ \A c \in DOMAIN snaps : s \notin Seen(c) /\ snaps[c].id # s

\* Cohorts are told apart by their ids, and so are snapshots; a cohort and a snapshot
\* with the same id belong together.
ToldApart ==
    /\ \A c, d \in DOMAIN cohorts : cohorts[c].id = cohorts[d].id /\ cohorts[c].id \notin split => c = d
    /\ \A c, d \in DOMAIN snaps : snaps[c].id = snaps[d].id /\ snaps[c].id \notin split => c = d
    /\ \A c \in DOMAIN snaps :
          /\ snaps[c].attached => c \in DOMAIN cohorts /\ cohorts[c].id = snaps[c].id
          /\ \A d \in DOMAIN cohorts :
                snaps[c].id = cohorts[d].id /\ snaps[c].id \notin split => c = d /\ snaps[c].attached

\* The cursor reference of a cohort is its key, from the push of its result on the key
\* that it is about to get.
Reached(c) == IF Pushed(c) THEN CursorAfter(ops[c]) ELSE c
Cursors ==
    /\ \A c \in DOMAIN cohorts :
          cohorts[c].id \notin split /\ ~Attached(c) => refs[cohorts[c].id].cursor = c
    /\ \A c \in DOMAIN snaps :
          snaps[c].id \notin split => refs[snaps[c].id].cursor = Reached(c)

SplitTainted ==
    \A c \in DOMAIN cohorts : cohorts[c].id \in split => Members(cohorts[c]) \subseteq tainted

\* A followed subscriber is in one cohort, where it is either new or existing, and
\* in no snapshot but that of this cohort.  It has received the rows up to the key, or
\* those of the result as well if it was in the snapshot.
IsIn(s, c) ==
    /\ s \in Members(cohorts[c]) /\ ~(s \in cohorts[c].existing /\ s \in cohorts[c].new)
    /\ \A d \in DOMAIN cohorts : s \in Members(cohorts[d]) => d = c
    /\ \A d \in DOMAIN snaps : s \in Seen(d) => d = c /\ snaps[d].attached
    /\ c \in DOMAIN snaps => /\ s \in snaps[c].cur <=> s \in cohorts[c].existing
                             /\ s \in snaps[c].new => s \in cohorts[c].new
    /\ got[s] = IF c \in DOMAIN snaps /\ s \in Seen(c) THEN Reached(c) ELSE c
Placed == \A s \in Subs : Followed(s) => \E c \in DOMAIN cohorts : IsIn(s, c)

Inv  == /\ Staged /\ Asked /\ HashesOld /\ Untouched /\ ToldApart /\ Cursors /\ SplitTainted
        /\ Placed /\ InOrderUnlessSplit
IInv == TypeOK /\ Inv

-------------------------------------------------------------------------------
(* Results, finite maps and the parts of a rebuilt map *)

LEMMA Bounds ==
    /\ MaxRows \in Nat /\ BatchSize \in Nat /\ BatchSize > 0
    /\ \A s \in Subs : StartOf[s] \in Keys
    /\ Keys \subseteq Nat /\ \A k \in Keys : k <= MaxRows
BY StreamingAssumption DEF Keys

LEMMA RowsInARow ==
    ASSUME NEW c \in Nat, NEW m \in Nat, c < m
    PROVE  c + 1 .. m # {} /\ Max(c + 1 .. m) = m /\ Min(c + 1 .. m) = c + 1
<1> DEFINE R == c + 1 .. m
<1>1. m \in R /\ c + 1 \in R /\ R \subseteq Int /\ \A r \in R : c + 1 <= r /\ r <= m
  OBVIOUS
<1> HIDE DEF R
<1>2. \A x \in R : (\A y \in R : x >= y) <=> x = m
  BY <1>1
<1>3. \A x \in R : (\A y \in R : x =< y) <=> x = c + 1
  BY <1>1
<1>4. Max(R) = m
  BY <1>1, <1>2 DEF Max
<1>5. Min(R) = c + 1
  BY <1>1, <1>3 DEF Min
<1> USE DEF R
<1> QED
  BY <1>1, <1>4, <1>5

\* The query for a key returns the rows next to it.
LEMMA RowsAfterKey ==
    ASSUME TypeOK, NEW c \in Keys
    PROVE  \E m \in Keys : RowsAfter(c) = c + 1 .. m
<1> DEFINE m == IF rows <= c + BatchSize THEN rows ELSE c + BatchSize
<1>1. rows \in Nat /\ rows <= MaxRows /\ c \in Nat /\ c <= MaxRows
  BY Bounds DEF TypeOK, Keys
<1>2. m \in Keys
  BY <1>1, Bounds DEF Keys
<1>3. RowsAfter(c) = c + 1 .. m
  BY <1>1, Bounds DEF RowsAfter
<1> QED
  BY <1>2, <1>3

\* The cursor moves to the last row of a result that has rows.
LEMMA CursorAfterRows ==
    ASSUME NEW op, NEW c \in Keys, NEW m \in Keys, op.result = Just(c + 1 .. m)
    PROVE  /\ c < m => CursorAfter(op) = m /\ op.result \notin {Nothing, Just({})}
           /\ ~(c < m) => CursorAfter(op) = op.snap /\ op.result = Just({})
           /\ (CHOOSE R \in op.result : TRUE) = c + 1 .. m
<1> DEFINE R == c + 1 .. m
<1>1. c \in Nat /\ m \in Nat
  BY Bounds
<1>2. op.result = {R}
  BY DEF Just
<1>3. (CHOOSE S \in op.result : TRUE) = R
  BY <1>2
<1>4. ASSUME c < m PROVE R # {} /\ Max(R) = m
  BY <1>1, <1>4, RowsInARow
<1>5. ASSUME ~(c < m) PROVE R = {}
  BY <1>1, <1>5
<1> HIDE DEF R
<1>6. ASSUME c < m PROVE CursorAfter(op) = m /\ op.result \notin {Nothing, Just({})}
  BY <1>2, <1>3, <1>4, <1>6 DEF CursorAfter, Nothing, Just
<1>7. ASSUME ~(c < m) PROVE CursorAfter(op) = op.snap /\ op.result = Just({})
  BY <1>2, <1>5, <1>7 DEF CursorAfter, Nothing, Just
<1>8. (CHOOSE S \in op.result : TRUE) = c + 1 .. m
  BY <1>3 DEF R
<1> QED
  BY <1>6, <1>7, <1>8

LEMMA CursorAfterSame ==
    ASSUME NEW op, NEW new, new.snap = op.snap, new.result = op.result
    PROVE  CursorAfter(new) = CursorAfter(op)
BY DEF CursorAfter

LEMMA CursorAfterNothing ==
    ASSUME NEW op, op.result = Nothing PROVE CursorAfter(op) = op.snap
BY DEF CursorAfter

LEMMA CursorAfterType ==
    ASSUME TypeOK, Asked, NEW c \in DOMAIN ops PROVE CursorAfter(ops[c]) \in Keys
<1>1. c \in Keys /\ ops[c].snap \in Keys
  BY DEF TypeOK, IsMap, Operation
<1>2. CASE ops[c].result = Nothing
  BY <1>1, <1>2, CursorAfterNothing
<1>3. CASE \E m \in Keys : ops[c].result = Just(c + 1 .. m)
  <2> PICK m \in Keys : ops[c].result = Just(c + 1 .. m)
    BY <1>3
  <2> QED
    BY <1>1, CursorAfterRows
<1> QED
  BY <1>2, <1>3 DEF Asked

\* An operation belongs to its own snapshot, unless the id was split.
LEMMA OwnSnapshot ==
    ASSUME Staged, Asked, ToldApart, NEW c \in DOMAIN ops
    PROVE  /\ c \in DOMAIN snaps /\ ops[c].snap \in DOMAIN snaps
           /\ snaps[ops[c].snap].id = snaps[c].id
           /\ snaps[c].id \notin split => ops[c].snap = c
<1>1. c \in DOMAIN snaps
  BY DEF Staged
<1> QED
  BY <1>1 DEF Asked, ToldApart

LEMMA PutMap ==
    ASSUME NEW S, NEW T, NEW f, IsMap(f, S, T), NEW x \in S, NEW v \in T, NEW g, g = Put(f, x, v)
    PROVE  /\ IsMap(g, S, T) /\ DOMAIN g = DOMAIN f \cup {x} /\ g[x] = v
           /\ \A y \in DOMAIN f : y # x => g[y] = f[y]
BY DEF Put, IsMap

LEMMA NoMapIsMap == ASSUME NEW S, NEW T PROVE IsMap(NoMap, S, T) /\ DOMAIN NoMap = {}
BY DEF IsMap, NoMap

LEMMA InitInv == Init => IInv
<1> SUFFICES ASSUME Init PROVE IInv
  OBVIOUS
<1>1. TypeOK
  <2>1. IsMap(cohorts, Keys, Cohort) /\ IsMap(snaps, Keys, Snapshot) /\ IsMap(ops, Keys, Operation)
    BY NoMapIsMap DEF Init
  <2>2. refs \in [Subs -> [hash : Responses, cursor : Keys]] /\ got \in [Subs -> Keys]
    BY StreamingAssumption DEF Init, Responses, Maybe, Keys
  <2>3. rows \in 0 .. MaxRows /\ errors \in 0 .. MaxErrors
    BY StreamingAssumption DEF Init
  <2> QED
    BY <2>1, <2>2, <2>3 DEF Init, TypeOK
<1>2. DOMAIN cohorts = {} /\ DOMAIN snaps = {} /\ DOMAIN ops = {}
  BY NoMapIsMap DEF Init
<1>3. HashesOld
  BY DEF Init, HashesOld, Nothing
<1>4. Staged /\ Asked /\ Untouched /\ ToldApart /\ Cursors /\ SplitTainted
  BY <1>2 DEF Init, Staged, Asked, Untouched, ToldApart, Cursors, SplitTainted
<1>5. Placed /\ InOrderUnlessSplit
  BY DEF Init, Placed, Followed, InOrderUnlessSplit
<1> QED
  BY <1>1, <1>3, <1>4, <1>5 DEF IInv, Inv

-------------------------------------------------------------------------------
(* Types *)

LEMMA AddToCohortType ==
    ASSUME TypeOK, NEW s \in Subs, AddToCohort(s) PROVE TypeOK'
<1> DEFINE v == StartOf[s]
           joined == [cohorts[v] EXCEPT !.new = @ \cup {s}]
<1>1. v \in DOMAIN cohorts /\ cohorts[v] \in Cohort /\ IsMap(cohorts, Keys, Cohort)
  BY DEF AddToCohort, TypeOK, IsMap
<1>2. joined \in Cohort
  BY <1>1 DEF Cohort
<1>3. cohorts' = [cohorts EXCEPT ![v] = joined]
  BY DEF AddToCohort
<1> HIDE DEF joined
<1>4. IsMap(cohorts', Keys, Cohort)
  BY <1>1, <1>2, <1>3 DEF IsMap
<1>5. myRef' \in [Subs -> Subs] /\ tainted' \subseteq Subs
  BY <1>1 DEF AddToCohort, TypeOK, Cohort
<1> QED
  BY <1>4, <1>5 DEF AddToCohort, TypeOK, pollVars

LEMMA AddToPollerType ==
    ASSUME TypeOK, NEW s \in Subs, AddToPoller(s) PROVE TypeOK'
<1> DEFINE made == [id |-> s, existing |-> {}, new |-> {s}]
<1>1. made \in Cohort /\ cohorts' = Put(cohorts, StartOf[s], made)
  BY DEF Cohort, AddToPoller
<1> HIDE DEF made
<1>2. IsMap(cohorts', Keys, Cohort)
  BY <1>1, Bounds, PutMap DEF TypeOK
<1> QED
  BY <1>2 DEF AddToPoller, TypeOK, pollVars, histVars

\* What removeStreamingQuery does to the cohorts: whoever else is in one stays there.
LEMMA WithoutOthers ==
    ASSUME NEW cs, IsMap(cs, Keys, Cohort), NEW v \in DOMAIN cs, NEW s,
           NEW new, new = CohortsWithout(cs, v, s)
    PROVE  /\ IsMap(new, Keys, Cohort) /\ DOMAIN new \subseteq DOMAIN cs
           /\ \A c \in DOMAIN new : /\ new[c].id = cs[c].id
                                    /\ new[c].existing \subseteq cs[c].existing
                                    /\ new[c].new \subseteq cs[c].new
           /\ \A c \in DOMAIN cs : \A t : t # s =>
                 /\ t \in Members(cs[c]) => c \in DOMAIN new
                 /\ c \in DOMAIN new => /\ t \in new[c].existing <=> t \in cs[c].existing
                                        /\ t \in new[c].new <=> t \in cs[c].new
<1> DEFINE left == Without(cs[v], s)
<1>1. cs[v] \in Cohort
  BY DEF IsMap
<1>2. /\ left \in Cohort /\ left.id = cs[v].id
      /\ left.existing = cs[v].existing \ {s} /\ left.new = cs[v].new \ {s}
  BY <1>1 DEF Without, Cohort
<1>3. CASE Members(left) = {}
  <2>1. new = Delete(cs, v)
    BY <1>3 DEF CohortsWithout
  <2>2. /\ IsMap(new, Keys, Cohort) /\ DOMAIN new = DOMAIN cs \ {v}
        /\ \A y \in DOMAIN new : new[y] = cs[y]
    BY <2>1 DEF Delete, Restrict, IsMap
  <2>3. \A t : t # s => t \notin Members(cs[v])
    BY <1>2, <1>3 DEF Members
  <2> HIDE DEF left
  <2> QED
    BY <2>2, <2>3
<1>4. CASE Members(left) # {}
  <2>1. new = [cs EXCEPT ![v] = left]
    BY <1>4 DEF CohortsWithout
  <2> HIDE DEF left
  <2>2. /\ DOMAIN new = DOMAIN cs /\ new[v] = left
        /\ \A c \in DOMAIN cs : c # v => new[c] = cs[c]
    BY <2>1
  <2>3. IsMap(new, Keys, Cohort)
    BY <1>2, <2>1 DEF IsMap
  <2> QED
    BY <1>2, <2>2, <2>3
<1> QED
  BY <1>3, <1>4

\* The same, whether the cohort is found or not.
LEMMA RemovedOthers ==
    ASSUME TypeOK, NEW s \in Subs, RemoveStreamingQuery(s)
    PROVE  /\ IsMap(cohorts', Keys, Cohort) /\ DOMAIN cohorts' \subseteq DOMAIN cohorts
           /\ \A c \in DOMAIN cohorts' : /\ cohorts'[c].id = cohorts[c].id
                                         /\ cohorts'[c].existing \subseteq cohorts[c].existing
                                         /\ cohorts'[c].new \subseteq cohorts[c].new
           /\ \A c \in DOMAIN cohorts : \A t : t # s =>
                 /\ t \in Members(cohorts[c]) => c \in DOMAIN cohorts'
                 /\ c \in DOMAIN cohorts' => /\ t \in cohorts'[c].existing <=> t \in cohorts[c].existing
                                             /\ t \in cohorts'[c].new <=> t \in cohorts[c].new
           /\ \/ /\ cohorts' = NoMap /\ stage' = "sleeping" /\ listed' = {}
                 /\ snaps' = NoMap /\ ops' = NoMap
              \/ /\ stage' = stage /\ ops' = ops /\ listed' = listed \cap DOMAIN cohorts'
                 /\ IsMap(snaps', Keys, Snapshot) /\ DOMAIN snaps' = DOMAIN snaps
                 /\ \A c \in DOMAIN snaps :
                       /\ snaps'[c].id = snaps[c].id
                       /\ snaps'[c].cur = snaps[c].cur /\ snaps'[c].new = snaps[c].new
                       /\ snaps'[c].attached <=> snaps[c].attached /\ c \in DOMAIN cohorts'
<1> DEFINE v == refs[myRef[s]].cursor
           left == IF v \in DOMAIN cohorts THEN CohortsWithout(cohorts, v, s) ELSE cohorts
           marked == [c \in DOMAIN snaps |->
                         [snaps[c] EXCEPT !.attached = @ /\ c \in DOMAIN left]]
<1>1. IsMap(cohorts, Keys, Cohort)
  BY DEF TypeOK
<1>2. cohorts' = left
  BY DEF RemoveStreamingQuery
<1>3. /\ IsMap(left, Keys, Cohort) /\ DOMAIN left \subseteq DOMAIN cohorts
      /\ \A c \in DOMAIN left : /\ left[c].id = cohorts[c].id
                                /\ left[c].existing \subseteq cohorts[c].existing
                                /\ left[c].new \subseteq cohorts[c].new
      /\ \A c \in DOMAIN cohorts : \A t : t # s =>
            /\ t \in Members(cohorts[c]) => c \in DOMAIN left
            /\ c \in DOMAIN left => /\ t \in left[c].existing <=> t \in cohorts[c].existing
                                    /\ t \in left[c].new <=> t \in cohorts[c].new
  <2>1. CASE v \in DOMAIN cohorts
    <3>1. left = CohortsWithout(cohorts, v, s)
      BY <2>1
    <3> HIDE DEF left, v
    <3> QED
      BY <1>1, <2>1, <3>1, WithoutOthers
  <2>2. CASE v \notin DOMAIN cohorts
    BY <1>1, <2>2
  <2> QED
    BY <2>1, <2>2
<1>4. \/ /\ left = NoMap /\ stage' = "sleeping" /\ listed' = {}
         /\ snaps' = NoMap /\ ops' = NoMap
      \/ /\ stage' = stage /\ ops' = ops /\ listed' = listed \cap DOMAIN left
         /\ snaps' = marked
  BY DEF RemoveStreamingQuery
<1>5. \A c \in DOMAIN snaps : snaps[c] \in Snapshot
  BY DEF TypeOK, IsMap
<1> HIDE DEF left
<1>6. /\ DOMAIN marked = DOMAIN snaps
      /\ \A c \in DOMAIN snaps :
            /\ marked[c] \in Snapshot
            /\ marked[c].id = snaps[c].id
            /\ marked[c].cur = snaps[c].cur /\ marked[c].new = snaps[c].new
            /\ marked[c].attached <=> snaps[c].attached /\ c \in DOMAIN left
  BY <1>5 DEF Snapshot
<1>7. IsMap(marked, Keys, Snapshot)
  BY <1>6 DEF TypeOK, IsMap
<1> HIDE DEF marked
<1> QED
  BY <1>2, <1>3, <1>4, <1>6, <1>7

LEMMA RemoveType ==
    ASSUME TypeOK, NEW s \in Subs, RemoveStreamingQuery(s) PROVE TypeOK'
<1>1. IsMap(cohorts', Keys, Cohort) /\ IsMap(snaps', Keys, Snapshot) /\ IsMap(ops', Keys, Operation)
  BY RemovedOthers, NoMapIsMap DEF TypeOK
<1>2. stage' \in {"sleeping", "snapshotting", "pushing"} /\ listed' \subseteq Keys
  BY RemovedOthers DEF TypeOK
<1>3. got' \in [Subs -> Keys] /\ pc' \in [Subs -> {"idle", "active", "gone"}]
  BY Bounds DEF RemoveStreamingQuery, TypeOK
<1> QED
  BY <1>1, <1>2, <1>3 DEF RemoveStreamingQuery, TypeOK, histVars

LEMMA SnapshotType ==
    ASSUME TypeOK, Staged, NEW c \in Keys, GetCohortSnapshot(c) PROVE TypeOK'
<1> DEFINE snap == [attached |-> TRUE, id |-> cohorts[c].id,
                    cur |-> cohorts[c].existing, new |-> cohorts[c].new]
<1>1. cohorts[c] \in Cohort
  BY DEF GetCohortSnapshot, Staged, TypeOK, IsMap
<1>2. snap \in Snapshot /\ snaps' = Put(snaps, c, snap)
  BY <1>1 DEF Snapshot, Cohort, GetCohortSnapshot
<1> HIDE DEF snap
<1>3. IsMap(snaps', Keys, Snapshot)
  BY <1>2, PutMap DEF TypeOK
<1> QED
  BY <1>3 DEF GetCohortSnapshot, TypeOK, histVars

LEMMA OperationType ==
    ASSUME NEW k \in Keys, NEW R \in Responses, NEW b \in Maybe(BOOLEAN), NEW p \in BOOLEAN
    PROVE  [snap |-> k, result |-> R, changed |-> b, pushed |-> p] \in Operation
BY DEF Operation

\* The operations of a poll: nothing has been compared or pushed yet.
LEMMA RunType ==
    ASSUME TypeOK, NEW w \in Winners, ops' = Operations(w)
    PROVE  /\ IsMap(ops', Keys, Operation) /\ DOMAIN ops' = DOMAIN snaps
           /\ \A c \in DOMAIN snaps :
                 /\ ops'[c].snap \in DOMAIN snaps /\ snaps[ops'[c].snap].id = snaps[c].id
                 /\ \E m \in Keys : ops'[c].result = Just(c + 1 .. m)
                 /\ ops'[c].changed = Nothing /\ ops'[c].pushed = FALSE
<1>1. ASSUME NEW c \in DOMAIN snaps
      PROVE  /\ w[snaps[c].id] \in DOMAIN snaps /\ snaps[w[snaps[c].id]].id = snaps[c].id
  BY DEF Winners
<1>2. ASSUME NEW c \in DOMAIN snaps
      PROVE  /\ ops'[c] = [snap |-> w[snaps[c].id], result |-> Just(RowsAfter(c)),
                           changed |-> Nothing, pushed |-> FALSE]
             /\ c \in Keys
  BY DEF Operations, TypeOK, IsMap
<1>3. ASSUME NEW c \in DOMAIN snaps
      PROVE  \E m \in Keys : ops'[c].result = Just(c + 1 .. m)
  <2>1. PICK m \in Keys : RowsAfter(c) = c + 1 .. m
    BY <1>2, RowsAfterKey
  <2> DEFINE k == w[snaps[c].id]
             R == Just(RowsAfter(c))
             op == [snap |-> k, result |-> R, changed |-> Nothing, pushed |-> FALSE]
  <2>2. ops'[c] = op
    BY <1>2
  <2> HIDE DEF k, R
  <2>3. op.result = R
    OBVIOUS
  <2> HIDE DEF op
  <2>4. ops'[c].result = R
    BY <2>2, <2>3
  <2> USE DEF R
  <2> QED
    BY <2>1, <2>4
<1>4. DOMAIN ops' = DOMAIN snaps /\ ops' = [c \in DOMAIN ops' |-> ops'[c]]
  BY DEF Operations
<1>5. ASSUME NEW c \in DOMAIN snaps PROVE ops'[c] \in Operation
  <2>1. RowsAfter(c) \subseteq 1 .. MaxRows
    BY Bounds DEF RowsAfter, TypeOK
  <2>2. Just(RowsAfter(c)) \in Responses /\ Nothing \in Maybe(BOOLEAN)
    BY <2>1 DEF Responses, Maybe
  <2>3. w[snaps[c].id] \in Keys
    BY <1>1 DEF TypeOK, IsMap
  <2>4. FALSE \in BOOLEAN
    OBVIOUS
  <2>5. [snap |-> w[snaps[c].id], result |-> Just(RowsAfter(c)), changed |-> Nothing, pushed |-> FALSE]
           \in Operation
    BY <2>2, <2>3, <2>4, OperationType
  <2> QED
    BY <1>2, <2>5
<1>6. IsMap(ops', Keys, Operation)
  <2>1. DOMAIN ops' \subseteq Keys
    BY <1>4 DEF TypeOK, IsMap
  <2> QED
    BY <1>4, <1>5, <2>1 DEF IsMap
<1> QED
  BY <1>1, <1>2, <1>3, <1>4, <1>6

LEMMA FailsType ==
    ASSUME TypeOK, RunDBStreamingSubscriptionFails
    PROVE  /\ TypeOK' /\ DOMAIN ops' = DOMAIN snaps
           /\ \A c \in DOMAIN snaps :
                 /\ ops'[c].snap = c /\ ops'[c].result = Nothing
                 /\ ops'[c].changed = Nothing /\ ops'[c].pushed = FALSE
<1>1. /\ DOMAIN ops' = DOMAIN snaps /\ ops' = [c \in DOMAIN ops' |-> ops'[c]]
      /\ \A c \in DOMAIN snaps : ops'[c] = [snap |-> c, result |-> Nothing,
                                           changed |-> Nothing, pushed |-> FALSE]
  BY DEF RunDBStreamingSubscriptionFails
<1>2. DOMAIN snaps \subseteq Keys
  BY DEF TypeOK, IsMap
<1>3. Nothing \in Responses /\ Nothing \in Maybe(BOOLEAN)
  BY DEF Responses, Maybe
<1>4. ASSUME NEW c \in DOMAIN snaps PROVE ops'[c] \in Operation
  <2>1. c \in Keys /\ FALSE \in BOOLEAN
    BY <1>2
  <2>2. [snap |-> c, result |-> Nothing, changed |-> Nothing, pushed |-> FALSE] \in Operation
    BY <1>3, <2>1, OperationType
  <2> QED
    BY <1>1, <2>2
<1>5. IsMap(ops', Keys, Operation)
  BY <1>1, <1>2, <1>4 DEF IsMap
<1>6. errors' \in 0 .. MaxErrors
  BY StreamingAssumption DEF RunDBStreamingSubscriptionFails, TypeOK
<1>7. TypeOK'
  BY <1>5, <1>6 DEF RunDBStreamingSubscriptionFails, TypeOK, histVars
<1> QED
  BY <1>1, <1>7

\* A comparison writes its own field only, and finds the same response or another.
LEMMA ReadOps ==
    ASSUME TypeOK, Staged, Asked, NEW c \in Keys, ReadPreviousResponse(c)
    PROVE  /\ IsMap(ops', Keys, Operation) /\ DOMAIN ops' = DOMAIN ops
           /\ \A d \in DOMAIN ops : /\ ops'[d].snap = ops[d].snap /\ ops'[d].result = ops[d].result
                                    /\ ops'[d].pushed = ops[d].pushed
                                    /\ d # c => ops'[d] = ops[d]
           /\ ops[c].changed = Nothing
           /\ ops'[c].changed = Just(FALSE) =>
                 ops[c].result # Nothing /\ ops[c].result = refs[snaps[ops[c].snap].id].hash
<1> DEFINE b == ops[c].result = Nothing \/ ops[c].result # refs[snaps[ops[c].snap].id].hash
           op == [ops[c] EXCEPT !.changed = Just(b)]
<1>1. /\ c \in DOMAIN ops /\ ops[c].changed = Nothing
      /\ ops' = [ops EXCEPT ![c] = op]
  BY DEF ReadPreviousResponse
<1>2. ops[c] \in Operation
  BY <1>1 DEF TypeOK, IsMap
<1>3. b \in BOOLEAN
  OBVIOUS
<1>4. b = FALSE => ops[c].result # Nothing /\ ops[c].result = refs[snaps[ops[c].snap].id].hash
  OBVIOUS
<1> HIDE DEF b
<1>5. Just(b) \in Maybe(BOOLEAN) /\ (Just(b) = Just(FALSE) => b = FALSE)
  BY <1>3 DEF Just, Maybe
<1> DEFINE ch == Just(b)
<1> HIDE DEF ch
<1>6. /\ op \in Operation /\ op.snap = ops[c].snap /\ op.result = ops[c].result
      /\ op.pushed = ops[c].pushed /\ op.changed = ch
  <2>1. ch \in Maybe(BOOLEAN) /\ op = [ops[c] EXCEPT !.changed = ch]
    BY <1>5 DEF ch
  <2> HIDE DEF op
  <2> QED
    BY <1>2, <2>1 DEF Operation
<1> HIDE DEF op
<1>7. IsMap(ops', Keys, Operation) /\ DOMAIN ops' = DOMAIN ops
  BY <1>1, <1>6 DEF TypeOK, IsMap
<1>8. ops'[c] = op /\ \A d \in DOMAIN ops : d # c => ops'[d] = ops[d]
  BY <1>1
<1>9. ops'[c].changed = Just(FALSE) => b = FALSE
  BY <1>5, <1>6, <1>8 DEF ch
<1> QED
  BY <1>1, <1>4, <1>6, <1>7, <1>8, <1>9

\* A push marks its operation.
LEMMA PushOps ==
    ASSUME TypeOK, NEW c \in Keys, PushResultToCohort(c)
    PROVE  /\ IsMap(ops', Keys, Operation) /\ DOMAIN ops' = DOMAIN ops
           /\ \A d \in DOMAIN ops : /\ ops'[d].snap = ops[d].snap /\ ops'[d].result = ops[d].result
                                    /\ ops'[d].changed = ops[d].changed
                                    /\ d # c => ops'[d] = ops[d]
           /\ c \in DOMAIN ops /\ ~ops[c].pushed /\ ops'[c].pushed
<1> DEFINE op == [ops[c] EXCEPT !.pushed = TRUE]
<1>1. c \in DOMAIN ops /\ ~ops[c].pushed /\ ops' = [ops EXCEPT ![c] = op]
  BY DEF PushResultToCohort
<1>2. ops[c] \in Operation
  BY <1>1 DEF TypeOK, IsMap
<1>3. /\ op \in Operation /\ op.snap = ops[c].snap /\ op.result = ops[c].result
      /\ op.changed = ops[c].changed /\ op.pushed
  BY <1>2 DEF Operation
<1> HIDE DEF op
<1>4. IsMap(ops', Keys, Operation) /\ DOMAIN ops' = DOMAIN ops
  BY <1>1, <1>3 DEF TypeOK, IsMap
<1>5. ops'[c] = op /\ \A d \in DOMAIN ops : d # c => ops'[d] = ops[d]
  BY <1>1
<1> QED
  BY <1>1, <1>3, <1>4, <1>5

\* A comparison that says FALSE is not also one that says TRUE.
LEMMA ChangedOrNot ==
    ASSUME TypeOK, NEW c \in DOMAIN ops, ops[c].changed # Nothing
    PROVE  ops[c].changed = Just(TRUE) \/ ops[c].changed = Just(FALSE)
<1>1. ops[c].changed \in Maybe(BOOLEAN)
  BY DEF TypeOK, IsMap, Operation
<1> QED
  BY <1>1 DEF Maybe

\* What a push does to the references, and to what the subscribers have received.
LEMMA PushEffects ==
    ASSUME TypeOK, Staged, Asked, NEW c \in Keys, PushResultToCohort(c)
    PROVE  LET op == ops[c]
               i  == snaps[op.snap].id
               to == IF op.changed = Just(TRUE) THEN Seen(op.snap) ELSE snaps[op.snap].new
           IN
           /\ i \in Subs /\ DOMAIN refs' = Subs
           /\ refs' \in [Subs -> [hash : Responses, cursor : Keys]]
           /\ \A j \in Subs : j # i => refs'[j] = refs[j]
           /\ refs'[i] = IF op.changed = Just(TRUE)
                         THEN [hash |-> op.result, cursor |-> CursorAfter(op)] ELSE refs[i]
           /\ got' \in [Subs -> Keys] /\ garbled' \subseteq Subs
           /\ \/ op.result \in {Nothing, Just({})} /\ got' = got /\ garbled' = garbled
              \/ /\ op.result \notin {Nothing, Just({})}
                 /\ \E m \in Keys :
                       /\ c < m /\ op.result = Just(c + 1 .. m) /\ CursorAfter(op) = m
                       /\ \A s \in Subs :
                             /\ got'[s] = IF s \in to /\ Followed(s) /\ got[s] = c THEN m ELSE got[s]
                             /\ s \in garbled' =>
                                   s \in garbled \/ (s \in to /\ Followed(s) /\ got[s] # c)
<1> DEFINE op == ops[c]
           i  == snaps[op.snap].id
           to == IF op.changed = Just(TRUE) THEN Seen(op.snap) ELSE snaps[op.snap].new
           ref == [hash |-> op.result, cursor |-> CursorAfter(op)]
<1>1. c \in DOMAIN ops /\ op.snap \in DOMAIN snaps
  BY DEF PushResultToCohort, Asked
<1>2. op \in Operation /\ snaps[op.snap] \in Snapshot
  BY <1>1 DEF TypeOK, IsMap
<1>3. i \in Subs /\ to \subseteq Subs
  BY <1>2 DEF Snapshot, Seen
<1>4. /\ op.changed = Just(TRUE) => refs' = [refs EXCEPT ![i] = ref]
      /\ op.changed # Just(TRUE) => refs' = refs
  BY DEF PushResultToCohort, NewRefs
<1>5. ref \in [hash : Responses, cursor : Keys]
  BY <1>1, <1>2, CursorAfterType DEF Operation
<1>6. DOMAIN refs = Subs
  BY DEF TypeOK
<1>7. /\ DOMAIN refs' = Subs
      /\ refs' \in [Subs -> [hash : Responses, cursor : Keys]]
      /\ \A j \in Subs : j # i => refs'[j] = refs[j]
      /\ refs'[i] = IF op.changed = Just(TRUE) THEN ref ELSE refs[i]
  <2> HIDE DEF op, i, ref
  <2>1. refs \in [Subs -> [hash : Responses, cursor : Keys]]
    BY DEF TypeOK
  <2>2. ASSUME op.changed = Just(TRUE)
        PROVE  refs' = [refs EXCEPT ![i] = ref]
    BY <1>4, <2>2
  <2>3. CASE op.changed = Just(TRUE)
    BY <1>3, <1>5, <2>1, <2>2, <2>3
  <2>4. CASE op.changed # Just(TRUE)
    BY <1>4, <1>6, <2>1, <2>4
  <2> QED
    BY <2>3, <2>4
<1>8. /\ op.result \in {Nothing, Just({})} => got' = got /\ garbled' = garbled
      /\ op.result \notin {Nothing, Just({})} => Receive(to, CHOOSE R \in op.result : TRUE)
  <2>1. to = IF op.changed = Just(TRUE) THEN snaps[op.snap].new \cup snaps[op.snap].cur
             ELSE snaps[op.snap].new
    BY DEF Seen
  <2> QED
    BY <2>1 DEF PushResultToCohort
<1>9. ASSUME op.result \notin {Nothing, Just({})}
      PROVE  /\ got' \in [Subs -> Keys] /\ garbled' \subseteq Subs
             /\ \E m \in Keys :
                   /\ c < m /\ op.result = Just(c + 1 .. m) /\ CursorAfter(op) = m
                   /\ \A s \in Subs :
                         /\ got'[s] = IF s \in to /\ Followed(s) /\ got[s] = c THEN m ELSE got[s]
                         /\ s \in garbled' =>
                               s \in garbled \/ (s \in to /\ Followed(s) /\ got[s] # c)
  <2>1. PICK m \in Keys : op.result = Just(c + 1 .. m)
    BY <1>1, <1>9 DEF Asked
  <2>2. c < m /\ CursorAfter(op) = m /\ (CHOOSE R \in op.result : TRUE) = c + 1 .. m
    BY <1>9, <2>1, CursorAfterRows
  <2>3. Max(c + 1 .. m) = m /\ Min(c + 1 .. m) = c + 1
    BY <2>2, Bounds, RowsInARow
  <2> DEFINE listening == {s \in to : pc[s] = "active" /\ s \notin tainted}
             inOrder   == {s \in listening : c + 1 = got[s] + 1}
  <2>4. /\ got' = [s \in Subs |-> IF s \in inOrder THEN m ELSE got[s]]
        /\ garbled' = garbled \cup (listening \ inOrder)
    <3> HIDE DEF op, to
    <3> QED
      BY <1>8, <1>9, <2>2, <2>3 DEF Receive
  <2>5. \A s \in Subs : got[s] \in Nat /\ got[s] \in Keys
    BY Bounds DEF TypeOK
  <2>6. c \in Nat
    BY Bounds
  <2>7. \A s \in Subs : s \in inOrder <=> s \in to /\ Followed(s) /\ got[s] = c
    <3> HIDE DEF op, to
    <3> QED
      BY <2>5, <2>6 DEF Followed
  <2>8. \A s \in Subs : s \in listening \ inOrder => s \in to /\ Followed(s) /\ got[s] # c
    <3> HIDE DEF op, to
    <3> QED
      BY <2>5, <2>6 DEF Followed
  <2>9. listening \subseteq Subs
    BY <1>3
  <2> HIDE DEF op, to, listening, inOrder
  <2>10. got' \in [Subs -> Keys] /\ garbled' \subseteq Subs
    BY <2>4, <2>5, <2>9 DEF TypeOK
  <2>11. \A s \in Subs :
            /\ got'[s] = IF s \in to /\ Followed(s) /\ got[s] = c THEN m ELSE got[s]
            /\ s \in garbled' => s \in garbled \/ (s \in to /\ Followed(s) /\ got[s] # c)
    <3> TAKE s \in Subs
    <3>1. got'[s] = IF s \in inOrder THEN m ELSE got[s]
      BY <2>4
    <3>2. got'[s] = IF s \in to /\ Followed(s) /\ got[s] = c THEN m ELSE got[s]
      BY <2>7, <3>1
    <3>3. s \in garbled' => s \in garbled \/ s \in listening \ inOrder
      BY <2>4
    <3>4. s \in garbled' => s \in garbled \/ (s \in to /\ Followed(s) /\ got[s] # c)
      <4>1. ASSUME s \in listening \ inOrder PROVE s \in to /\ Followed(s) /\ got[s] # c
        BY <2>8, <4>1
      <4> QED
        BY <3>3, <4>1
    <3> QED
      BY <3>2, <3>4
  <2> QED
    BY <2>1, <2>2, <2>10, <2>11
<1>10. got \in [Subs -> Keys] /\ garbled \subseteq Subs
  BY DEF TypeOK
<1> HIDE DEF op, to
<1>11. /\ got' \in [Subs -> Keys] /\ garbled' \subseteq Subs
       /\ \/ op.result \in {Nothing, Just({})} /\ got' = got /\ garbled' = garbled
          \/ /\ op.result \notin {Nothing, Just({})}
             /\ \E m \in Keys :
                   /\ c < m /\ op.result = Just(c + 1 .. m) /\ CursorAfter(op) = m
                   /\ \A s \in Subs :
                         /\ got'[s] = IF s \in to /\ Followed(s) /\ got[s] = c THEN m ELSE got[s]
                         /\ s \in garbled' =>
                               s \in garbled \/ (s \in to /\ Followed(s) /\ got[s] # c)
  BY <1>8, <1>9, <1>10
<1> USE DEF op, to
<1> QED
  BY <1>3, <1>7, <1>11

LEMMA ReadType ==
    ASSUME TypeOK, Staged, Asked, NEW c \in Keys, ReadPreviousResponse(c) PROVE TypeOK'
BY ReadOps DEF ReadPreviousResponse, TypeOK, histVars

LEMMA PushType ==
    ASSUME TypeOK, Staged, Asked, NEW c \in Keys, PushResultToCohort(c) PROVE TypeOK'
<1>1. IsMap(ops', Keys, Operation)
  BY PushOps
<1>2. /\ refs' \in [Subs -> [hash : Responses, cursor : Keys]]
      /\ got' \in [Subs -> Keys] /\ garbled' \subseteq Subs
  BY PushEffects
<1> QED
  BY <1>1, <1>2 DEF PushResultToCohort, TypeOK, histVars

-------------------------------------------------------------------------------
(* The rebuild *)

Parts(last) == UNION {Rebuilt(c, last) : c \in DOMAIN cohorts}
Rebuilds == RebuildCohortMap /\ Staged /\ Asked /\ ToldApart

\* Last operations are operations of the poll, and that of a snapshot whose id was not
\* split is its own.
LEMMA LastOperation ==
    ASSUME TypeOK, Rebuilds, NEW last \in LastOperations
    PROVE  /\ \A c \in DOMAIN last :
                 c \in DOMAIN snaps /\ last[c] \in DOMAIN ops /\ ops[last[c]].snap = c
           /\ \A c \in DOMAIN snaps : snaps[c].id \notin split => c \in DOMAIN last /\ last[c] = c
<1> DEFINE done == {ops[c].snap : c \in DOMAIN ops}
<1>1. last \in [done -> DOMAIN ops] /\ \A c \in done : ops[last[c]].snap = c
  BY DEF LastOperations
<1>2. \A c \in DOMAIN last : last[c] \in DOMAIN ops /\ ops[last[c]].snap = c
  BY <1>1
<1>3. \A d \in DOMAIN ops : /\ ops[d].snap \in DOMAIN snaps
                            /\ snaps[ops[d].snap].id = snaps[d].id
                            /\ snaps[d].id \notin split => ops[d].snap = d
  BY OwnSnapshot DEF Rebuilds
<1>4. DOMAIN ops = DOMAIN snaps
  BY DEF Rebuilds, RebuildCohortMap, Staged
<1>5. ASSUME NEW c \in DOMAIN snaps, snaps[c].id \notin split
      PROVE  c \in DOMAIN last /\ last[c] = c
  <2>1. ops[c].snap = c /\ c \in done
    BY <1>3, <1>4, <1>5
  <2>2. c \in DOMAIN last /\ last[c] \in DOMAIN ops /\ ops[last[c]].snap = c
    BY <1>1, <1>2, <2>1
  <2>3. snaps[c].id = snaps[last[c]].id
    BY <1>3, <2>2
  <2> QED
    BY <1>3, <1>5, <2>2, <2>3
<1>6. \A c \in DOMAIN last : c \in DOMAIN snaps
  BY <1>2, <1>3
<1> QED
  BY <1>2, <1>5, <1>6

\* The three kinds of parts: a cohort that was not processed, the new subscribers that stay
\* behind, and the processed cohort, which has them as well.
IsKept(x, c) ==
    x.at = c /\ x.id = cohorts[c].id /\ x.existing = cohorts[c].existing /\ x.new = cohorts[c].new
IsAdded(x, c) ==
    /\ x.at = c /\ x.id = cohorts[c].id /\ x.existing = {}
    /\ x.new = cohorts[c].new \ snaps[c].new /\ x.new # {}
IsProcessed(x, c, last) ==
    /\ x.at = CursorAfter(ops[last[c]]) /\ x.id = snaps[c].id
    /\ snaps[c].attached => /\ x.existing = cohorts[c].existing \cup (cohorts[c].new \cap snaps[c].new)
                            /\ x.new = cohorts[c].new \ snaps[c].new
    /\ ~snaps[c].attached => x.existing = {} /\ x.new = {}

LEMMA AtFields ==
    ASSUME NEW v, NEW cohort
    PROVE  /\ At(v, cohort).at = v /\ At(v, cohort).id = cohort.id
           /\ At(v, cohort).existing = cohort.existing /\ At(v, cohort).new = cohort.new
BY DEF At

LEMMA UpdatedFields ==
    ASSUME NEW cohort \in Cohort, NEW S
    PROVE  LET new == UpdateCohortSubscribers(cohort, S) IN
           /\ new.id = cohort.id /\ new.existing = cohort.existing \cup (cohort.new \cap S)
           /\ new.new = cohort.new \ S
BY DEF UpdateCohortSubscribers, Cohort

LEMMA PartKinds ==
    ASSUME TypeOK, Rebuilds, NEW last \in LastOperations, NEW c \in DOMAIN cohorts
    PROVE  /\ \A x \in Rebuilt(c, last) :
                 \/ c \notin DOMAIN last /\ IsKept(x, c)
                 \/ c \in DOMAIN last /\ (IsAdded(x, c) \/ IsProcessed(x, c, last))
           /\ c \notin DOMAIN last => \E x \in Rebuilt(c, last) : IsKept(x, c)
           /\ c \in DOMAIN last => \E x \in Rebuilt(c, last) : IsProcessed(x, c, last)
           /\ c \in DOMAIN last /\ Added(c) # {} => \E x \in Rebuilt(c, last) : IsAdded(x, c)
           /\ Added(c) = cohorts[c].new \ snaps[c].new
<1> DEFINE v == CursorAfter(ops[last[c]])
           stay == [id |-> cohorts[c].id, existing |-> {}, new |-> Added(c)]
<1>1. cohorts[c] \in Cohort
  BY DEF TypeOK, IsMap
<1>2. Added(c) = cohorts[c].new \ snaps[c].new
  BY <1>1, UpdatedFields DEF Added
<1>3. IsKept(At(c, cohorts[c]), c)
  BY AtFields DEF IsKept
<1>4. ASSUME Added(c) # {} PROVE IsAdded(At(c, stay), c)
  <2>1. stay.id = cohorts[c].id /\ stay.existing = {} /\ stay.new = Added(c)
    OBVIOUS
  <2> HIDE DEF stay
  <2>2. /\ At(c, stay).at = c /\ At(c, stay).id = stay.id
        /\ At(c, stay).existing = stay.existing /\ At(c, stay).new = stay.new
    BY AtFields
  <2> QED
    BY <1>2, <1>4, <2>1, <2>2 DEF IsAdded
<1>5. ASSUME c \in DOMAIN last PROVE IsProcessed(At(v, Processed(c)), c, last)
  <2>1. c \in DOMAIN snaps
    BY <1>5, LastOperation
  <2>2. snaps[c].attached => cohorts[c].id = snaps[c].id
    BY <2>1 DEF Rebuilds, ToldApart
  <2>3. /\ Processed(c).id = snaps[c].id
        /\ snaps[c].attached =>
              /\ Processed(c).existing = cohorts[c].existing \cup (cohorts[c].new \cap snaps[c].new)
              /\ Processed(c).new = cohorts[c].new \ snaps[c].new
        /\ ~snaps[c].attached => Processed(c).existing = {} /\ Processed(c).new = {}
    <3>1. CASE snaps[c].attached
      <4>1. Processed(c) = UpdateCohortSubscribers(cohorts[c], snaps[c].new)
        BY <3>1 DEF Processed
      <4> QED
        BY <1>1, <2>2, <3>1, <4>1, UpdatedFields
    <3>2. CASE ~snaps[c].attached
      BY <3>2 DEF Processed
    <3> QED
      BY <3>1, <3>2
  <2> DEFINE p == Processed(c)
             x == At(v, p)
  <2>4. p.id = snaps[c].id
    BY <2>3
  <2> HIDE DEF p, v
  <2>5. x.at = v /\ x.id = p.id /\ x.existing = p.existing /\ x.new = p.new
    BY AtFields
  <2> HIDE DEF x
  <2>6. IsProcessed(x, c, last)
    BY <2>3, <2>5 DEF IsProcessed, p, v
  <2> QED
    BY <2>6 DEF x, p
<1>6. CASE c \notin DOMAIN last
  <2>1. Rebuilt(c, last) = {At(c, cohorts[c])}
    BY <1>6 DEF Rebuilt, Kept
  <2> QED
    BY <1>2, <1>3, <1>6, <2>1
<1>7. CASE c \in DOMAIN last
  <2>1. Rebuilt(c, last) =
           (IF Added(c) = {} THEN {} ELSE {At(c, stay)}) \cup {At(v, Processed(c))}
    BY <1>7 DEF Rebuilt
  <2> HIDE DEF stay, v
  <2>2. \A x \in Rebuilt(c, last) : IsAdded(x, c) \/ IsProcessed(x, c, last)
    BY <1>4, <1>5, <1>7, <2>1
  <2>3. \E x \in Rebuilt(c, last) : IsProcessed(x, c, last)
    BY <1>5, <1>7, <2>1
  <2>4. Added(c) # {} => \E x \in Rebuilt(c, last) : IsAdded(x, c)
    BY <1>4, <2>1
  <2> QED
    BY <1>2, <1>7, <2>2, <2>3, <2>4
<1> QED
  BY <1>6, <1>7

\* Every part comes from a cohort, whose members it has.
LEMMA PartTypes ==
    ASSUME TypeOK, Rebuilds, NEW last \in LastOperations, NEW x \in Parts(last)
    PROVE  /\ x.at \in Keys /\ x.id \in Subs /\ x.existing \subseteq Subs /\ x.new \subseteq Subs
           /\ \E c \in DOMAIN cohorts :
                 x \in Rebuilt(c, last) /\ Members(x) \subseteq Members(cohorts[c])
<1>1. PICK c \in DOMAIN cohorts : x \in Rebuilt(c, last)
  BY DEF Parts
<1>2. c \in Keys /\ cohorts[c].id \in Subs /\ Members(cohorts[c]) \subseteq Subs
  BY DEF TypeOK, IsMap, Cohort, Members
<1>3. \/ c \notin DOMAIN last /\ IsKept(x, c)
      \/ c \in DOMAIN last /\ (IsAdded(x, c) \/ IsProcessed(x, c, last))
  BY <1>1, PartKinds
<1>4. ASSUME c \in DOMAIN last
      PROVE  CursorAfter(ops[last[c]]) \in Keys /\ snaps[c].id \in Subs
  BY <1>4, LastOperation, CursorAfterType DEF Rebuilds, TypeOK, IsMap, Snapshot
<1>5. x.at \in Keys /\ x.id \in Subs
  BY <1>2, <1>3, <1>4 DEF IsKept, IsAdded, IsProcessed
<1>6. x.existing \subseteq cohorts[c].existing \cup cohorts[c].new /\ x.new \subseteq cohorts[c].new
  BY <1>3 DEF IsKept, IsAdded, IsProcessed
<1> QED
  BY <1>1, <1>2, <1>5, <1>6 DEF Members

LEMMA RebuildEffects ==
    ASSUME TypeOK, Rebuilds
    PROVE  \E last \in LastOperations :
              /\ \A v \in DOMAIN cohorts' : \E x \in Parts(last) : x.at = v /\ x.id = cohorts'[v].id
              /\ \A x \in Parts(last) : /\ x.at \in DOMAIN cohorts'
                                        /\ x.existing \subseteq cohorts'[x.at].existing
                                        /\ x.new \subseteq cohorts'[x.at].new
              /\ \A v \in DOMAIN cohorts' : \A s :
                    /\ s \in cohorts'[v].existing => \E x \in Parts(last) : x.at = v /\ s \in x.existing
                    /\ s \in cohorts'[v].new => \E x \in Parts(last) : x.at = v /\ s \in x.new
              /\ IsMap(cohorts', Keys, Cohort)
              /\ split' = split \cup {cohorts[c].id : c \in SplitKeys(last)}
              /\ tainted' = tainted \cup MembersUnder(cohorts', split')
                                    \cup UNION {Members(cohorts[c]) : c \in SplitKeys(last)}
<1>1. PICK last \in LastOperations :
         \E id \in [{x.at : x \in Parts(last)} -> {x.id : x \in Parts(last)}] :
            /\ \A v \in DOMAIN id : \E x \in Parts(last) : x.at = v /\ x.id = id[v]
            /\ cohorts' = Merged(Parts(last), id)
            /\ split' = split \cup {cohorts[c].id : c \in SplitKeys(last)}
            /\ tainted' = tainted \cup MembersUnder(cohorts', split')
                                  \cup UNION {Members(cohorts[c]) : c \in SplitKeys(last)}
  BY DEF Rebuilds, RebuildCohortMap, Parts
<1> DEFINE parts == Parts(last)
<1>2. PICK id \in [{x.at : x \in parts} -> {x.id : x \in parts}] :
         /\ \A v \in DOMAIN id : \E x \in parts : x.at = v /\ x.id = id[v]
         /\ cohorts' = Merged(parts, id)
  BY <1>1
<1>3. \A x \in parts :
         x.at \in Keys /\ x.id \in Subs /\ x.existing \subseteq Subs /\ x.new \subseteq Subs
  BY PartTypes
<1> HIDE DEF parts
<1>4. /\ DOMAIN cohorts' = {x.at : x \in parts} /\ cohorts' = [v \in DOMAIN cohorts' |-> cohorts'[v]]
      /\ \A v \in DOMAIN cohorts' :
            /\ cohorts'[v] = [id |-> id[v], existing |-> cohorts'[v].existing, new |-> cohorts'[v].new]
            /\ cohorts'[v].id = id[v]
            /\ cohorts'[v].existing = UNION {x.existing : x \in {x \in parts : x.at = v}}
            /\ cohorts'[v].new = UNION {x.new : x \in {x \in parts : x.at = v}}
  <2>1. cohorts' = Merged(parts, id)
    BY <1>2
  <2> QED
    BY <2>1 DEF Merged
<1>5. DOMAIN id = DOMAIN cohorts'
  BY <1>2, <1>4
<1>6. ASSUME NEW v \in DOMAIN cohorts', NEW s
      PROVE  /\ s \in cohorts'[v].existing <=> \E x \in parts : x.at = v /\ s \in x.existing
             /\ s \in cohorts'[v].new <=> \E x \in parts : x.at = v /\ s \in x.new
  <2>1. cohorts'[v].existing = UNION {x.existing : x \in {x \in parts : x.at = v}}
    BY <1>4
  <2>2. cohorts'[v].new = UNION {x.new : x \in {x \in parts : x.at = v}}
    BY <1>4
  <2> DEFINE E == cohorts'[v].existing
             N == cohorts'[v].new
  <2> HIDE DEF E, N
  <2>3. s \in E <=> \E x \in parts : x.at = v /\ s \in x.existing
    BY <2>1 DEF E
  <2>4. s \in N <=> \E x \in parts : x.at = v /\ s \in x.new
    BY <2>2 DEF N
  <2> QED
    BY <2>3, <2>4 DEF E, N
<1>7. ASSUME NEW v \in DOMAIN cohorts'
      PROVE  cohorts'[v].existing \subseteq Subs /\ cohorts'[v].new \subseteq Subs
  BY <1>3, <1>6
<1>8. IsMap(cohorts', Keys, Cohort)
  <2>1. DOMAIN cohorts' \subseteq Keys
    BY <1>3, <1>4
  <2>2. ASSUME NEW v \in DOMAIN cohorts' PROVE cohorts'[v] \in Cohort
    <3>1. id[v] \in Subs
      BY <1>2, <1>3, <1>5
    <3>2. cohorts'[v] = [id |-> id[v], existing |-> cohorts'[v].existing, new |-> cohorts'[v].new]
      BY <1>4
    <3> QED
      BY <1>7, <3>1, <3>2 DEF Cohort
  <2> QED
    BY <1>4, <2>1, <2>2 DEF IsMap
<1>9. \A v \in DOMAIN cohorts' : \E x \in parts : x.at = v /\ x.id = cohorts'[v].id
  <2> TAKE v \in DOMAIN cohorts'
  <2>1. cohorts'[v].id = id[v]
    BY <1>4
  <2>2. \E x \in parts : x.at = v /\ x.id = id[v]
    BY <1>2, <1>5
  <2> QED
    BY <2>1, <2>2
<1>10. \A x \in parts : /\ x.at \in DOMAIN cohorts'
                       /\ x.existing \subseteq cohorts'[x.at].existing
                       /\ x.new \subseteq cohorts'[x.at].new
  <2> TAKE x \in parts
  <2>1. x.at \in DOMAIN cohorts'
    BY <1>4
  <2> QED
    BY <1>6, <2>1
<1>11. \A v \in DOMAIN cohorts' : \A s :
          /\ s \in cohorts'[v].existing => \E x \in parts : x.at = v /\ s \in x.existing
          /\ s \in cohorts'[v].new => \E x \in parts : x.at = v /\ s \in x.new
  BY <1>6
<1> USE DEF parts
<1> QED
  BY <1>1, <1>8, <1>9, <1>10, <1>11

LEMMA RebuildType == ASSUME TypeOK, Rebuilds PROVE TypeOK'
<1>1. PICK last \in LastOperations :
         /\ IsMap(cohorts', Keys, Cohort)
         /\ split' = split \cup {cohorts[c].id : c \in SplitKeys(last)}
         /\ tainted' = tainted \cup MembersUnder(cohorts', split')
                               \cup UNION {Members(cohorts[c]) : c \in SplitKeys(last)}
  BY RebuildEffects
<1>2. \A c \in DOMAIN cohorts : cohorts[c].id \in Subs /\ Members(cohorts[c]) \subseteq Subs
  BY DEF TypeOK, IsMap, Cohort, Members
<1>3. \A c \in DOMAIN cohorts' : Members(cohorts'[c]) \subseteq Subs
  BY <1>1 DEF IsMap, Cohort, Members
<1>4. MembersUnder(cohorts', split') \subseteq Subs
  BY <1>3 DEF MembersUnder
<1>5. SplitKeys(last) \subseteq DOMAIN cohorts
  BY DEF SplitKeys
<1>6. split' \subseteq Subs /\ tainted' \subseteq Subs
  BY <1>1, <1>2, <1>4, <1>5 DEF TypeOK
<1>7. IsMap(snaps', Keys, Snapshot) /\ IsMap(ops', Keys, Operation)
  BY NoMapIsMap DEF Rebuilds, RebuildCohortMap
<1> QED
  BY <1>1, <1>6, <1>7 DEF Rebuilds, RebuildCohortMap, TypeOK

LEMMA TypeNext == IInv /\ [Next]_vars => TypeOK'
<1> SUFFICES ASSUME IInv, [Next]_vars PROVE TypeOK'
  OBVIOUS
<1>1. TypeOK /\ Staged /\ Asked /\ ToldApart
  BY DEF IInv, Inv
<1>2. ASSUME NEW s \in Subs, AddToCohort(s) \/ AddToPoller(s) \/ RemoveStreamingQuery(s)
      PROVE  TypeOK'
  BY <1>1, <1>2, AddToCohortType, AddToPollerType, RemoveType
<1>3. ASSUME StartPoll PROVE TypeOK'
  <2>1. DOMAIN cohorts \subseteq Keys
    BY <1>1 DEF TypeOK, IsMap
  <2> QED
    BY <1>1, <1>3, <2>1 DEF StartPoll, TypeOK, histVars
<1>4. ASSUME RunDBStreamingSubscription PROVE TypeOK'
  <2>1. IsMap(ops', Keys, Operation)
    BY <1>1, <1>4, RunType DEF RunDBStreamingSubscription
  <2> QED
    BY <1>1, <1>4, <2>1 DEF RunDBStreamingSubscription, TypeOK, histVars
<1>5. ASSUME RebuildCohortMap PROVE TypeOK'
  BY <1>1, <1>5, RebuildType DEF Rebuilds
<1>6. ASSUME NEW c \in Keys,
             GetCohortSnapshot(c) \/ ReadPreviousResponse(c) \/ PushResultToCohort(c)
      PROVE  TypeOK'
  BY <1>1, <1>6, SnapshotType, ReadType, PushType
<1>7. ASSUME RunDBStreamingSubscriptionFails PROVE TypeOK'
  BY <1>1, <1>7, FailsType
<1>8. ASSUME InsertRow PROVE TypeOK'
  <2>1. rows' \in 0 .. MaxRows
    BY <1>1, <1>8, Bounds DEF InsertRow, TypeOK
  <2> QED
    BY <1>1, <1>8, <2>1 DEF InsertRow, TypeOK, pollVars, histVars
<1>9. ASSUME UNCHANGED vars PROVE TypeOK'
  BY <1>1, <1>9 DEF TypeOK, vars
<1> QED
  BY <1>2, <1>3, <1>4, <1>5, <1>6, <1>7, <1>8, <1>9 DEF Next, PollStep

-------------------------------------------------------------------------------
(* The invariant, action by action *)

LEMMA AddToCohortInv ==
    ASSUME IInv, TypeOK', NEW s \in Subs, AddToCohort(s) PROVE Inv'
<1> DEFINE v == StartOf[s]
           joined == [cohorts[v] EXCEPT !.new = @ \cup {s}]
<1> USE DEF IInv, Inv
<1>1. v \in DOMAIN cohorts /\ cohorts[v] \in Cohort /\ pc[s] = "idle"
  BY DEF AddToCohort, TypeOK, IsMap
<1>2. /\ joined.id = cohorts[v].id /\ joined.existing = cohorts[v].existing
      /\ joined.new = cohorts[v].new \cup {s}
  BY <1>1 DEF Cohort
<1>3. cohorts' = [cohorts EXCEPT ![v] = joined]
  BY DEF AddToCohort
<1> HIDE DEF joined
<1>4. /\ DOMAIN cohorts' = DOMAIN cohorts
      /\ \A c \in DOMAIN cohorts :
            /\ cohorts'[c].id = cohorts[c].id /\ cohorts'[c].existing = cohorts[c].existing
            /\ \A t : t # s => (t \in cohorts'[c].new <=> t \in cohorts[c].new)
            /\ c # v => cohorts'[c].new = cohorts[c].new
      /\ cohorts'[v].new = cohorts[v].new \cup {s}
  <2>1. /\ DOMAIN cohorts' = DOMAIN cohorts /\ cohorts'[v] = joined
        /\ \A c \in DOMAIN cohorts : c # v => cohorts'[c] = cohorts[c]
    BY <1>1, <1>3
  <2>2. \A t : t # s => (t \in joined.new <=> t \in cohorts[v].new)
    BY <1>2
  <2> QED
    BY <1>2, <2>1, <2>2
<1>5. /\ UNCHANGED <<refs, stage, listed, snaps, ops, got, garbled, split>>
      /\ pc' = [pc EXCEPT ![s] = "active"] /\ DOMAIN pc = Subs
      /\ tainted' = IF cohorts[v].id \in split THEN tainted \cup {s} ELSE tainted
  BY DEF AddToCohort, pollVars, TypeOK
<1>6. \A t \in Subs : t # s => pc'[t] = pc[t]
  BY <1>5
<1>7. pc'[s] = "active" /\ pc[s] = "idle"
  BY <1>1, <1>5
<1>8. Staged' /\ Asked' /\ HashesOld' /\ InOrderUnlessSplit'
  BY <1>4, <1>5 DEF Staged, Asked, HashesOld, InOrderUnlessSplit
<1>9. Untouched'
  <2> SUFFICES ASSUME NEW t \in Subs, pc'[t] = "idle"
               PROVE  /\ t \notin split /\ got[t] = StartOf[t] /\ refs[t].cursor = StartOf[t]
                      /\ \A c \in DOMAIN cohorts : t \notin Members(cohorts'[c]) /\ cohorts'[c].id # t
                      /\ \A c \in DOMAIN snaps : t \notin Seen(c) /\ snaps[c].id # t
    BY <1>4, <1>5 DEF Untouched, Seen
  <2>1. t # s /\ pc[t] = "idle"
    BY <1>6, <1>7
  <2> QED
    <3>1. \A c \in DOMAIN cohorts : t \notin Members(cohorts'[c]) /\ cohorts'[c].id # t
      BY <1>4, <2>1 DEF Untouched, Members
    <3> QED
      BY <2>1, <3>1 DEF Untouched
<1>10. ToldApart' /\ Cursors'
  <2>1. ToldApart'
    BY <1>4, <1>5 DEF ToldApart
  <2>2. Cursors'
    BY <1>4, <1>5 DEF Cursors, Attached, Reached, Pushed
  <2> QED
    BY <2>1, <2>2
<1>11. SplitTainted'
  BY <1>4, <1>5 DEF SplitTainted, Members
<1>12. Placed'
  <2> SUFFICES ASSUME NEW t \in Subs, Followed(t)'
               PROVE  \E c \in DOMAIN cohorts' : IsIn(t, c)'
    BY DEF Placed
  <2>1. CASE t = s
    <3>1. s \notin tainted /\ cohorts[v].id \notin split
      BY <1>5, <2>1 DEF Followed
    <3>2. /\ \A c \in DOMAIN cohorts : s \notin Members(cohorts[c])
          /\ \A c \in DOMAIN snaps : s \notin Seen(c)
          /\ got[s] = v
      BY <1>7 DEF Untouched
    <3>3. IsIn(s, v)'
      BY <1>1, <1>4, <1>5, <3>1, <3>2 DEF IsIn, Members, Seen, Reached, Pushed
    <3> QED
      BY <1>1, <1>4, <2>1, <3>3
  <2>2. CASE t # s
    <3>1. Followed(t)
      BY <1>5, <1>6, <2>2 DEF Followed
    <3>2. PICK c \in DOMAIN cohorts : IsIn(t, c)
      BY <3>1 DEF Placed
    <3>3. IsIn(t, c)'
      BY <1>4, <1>5, <2>2, <3>2 DEF IsIn, Members, Seen, Reached, Pushed
    <3> QED
      BY <1>4, <3>3
  <2> QED
    BY <2>1, <2>2
<1> QED
  BY <1>8, <1>9, <1>10, <1>11, <1>12

LEMMA AddToPollerInv ==
    ASSUME IInv, TypeOK', NEW s \in Subs, AddToPoller(s) PROVE Inv'
<1> DEFINE v == StartOf[s]
           made == [id |-> s, existing |-> {}, new |-> {s}]
<1> USE DEF IInv, Inv
<1>1. v \notin DOMAIN cohorts /\ pc[s] = "idle"
  BY DEF AddToPoller
<1>2. made.id = s /\ made.existing = {} /\ made.new = {s}
  OBVIOUS
<1>3. cohorts' = Put(cohorts, v, made)
  BY DEF AddToPoller
<1> HIDE DEF made
<1>4. /\ DOMAIN cohorts' = DOMAIN cohorts \cup {v} /\ cohorts'[v] = made
      /\ \A c \in DOMAIN cohorts : cohorts'[c] = cohorts[c]
  BY <1>1, <1>3 DEF Put
<1>5. /\ UNCHANGED <<refs, stage, listed, snaps, ops, got, garbled, split, tainted>>
      /\ pc' = [pc EXCEPT ![s] = "active"] /\ DOMAIN pc = Subs
  BY DEF AddToPoller, pollVars, histVars, TypeOK
<1>6. \A t \in Subs : t # s => pc'[t] = pc[t]
  BY <1>5
<1>7. pc'[s] = "active" /\ pc[s] = "idle"
  BY <1>1, <1>5
<1>8. /\ s \notin split /\ got[s] = v /\ refs[s].cursor = v
      /\ \A c \in DOMAIN cohorts : s \notin Members(cohorts[c]) /\ cohorts[c].id # s
      /\ \A c \in DOMAIN snaps : s \notin Seen(c) /\ snaps[c].id # s
  BY <1>7 DEF Untouched
<1>9. v \in DOMAIN snaps => ~snaps[v].attached
  BY <1>1 DEF ToldApart
<1>10. Staged' /\ Asked' /\ HashesOld' /\ InOrderUnlessSplit'
  BY <1>4, <1>5 DEF Staged, Asked, HashesOld, InOrderUnlessSplit
<1>11. Untouched'
  <2> SUFFICES ASSUME NEW t \in Subs, pc'[t] = "idle"
               PROVE  /\ t \notin split /\ got[t] = StartOf[t] /\ refs[t].cursor = StartOf[t]
                      /\ \A c \in DOMAIN cohorts' : t \notin Members(cohorts'[c]) /\ cohorts'[c].id # t
                      /\ \A c \in DOMAIN snaps : t \notin Seen(c) /\ snaps[c].id # t
    BY <1>5 DEF Untouched, Seen
  <2>1. t # s /\ pc[t] = "idle"
    BY <1>6, <1>7
  <2> QED
    BY <1>2, <1>4, <2>1 DEF Untouched, Members
<1>12. ToldApart'
  BY <1>2, <1>4, <1>5, <1>8 DEF ToldApart
<1>13. Cursors'
  BY <1>1, <1>2, <1>4, <1>5, <1>8, <1>9 DEF Cursors, Attached, Reached, Pushed
<1>14. SplitTainted'
  BY <1>2, <1>4, <1>5, <1>8 DEF SplitTainted
<1>15. Placed'
  <2> SUFFICES ASSUME NEW t \in Subs, Followed(t)'
               PROVE  \E c \in DOMAIN cohorts' : IsIn(t, c)'
    BY DEF Placed
  <2>1. CASE t = s
    <3>1. IsIn(s, v)'
      BY <1>1, <1>2, <1>4, <1>5, <1>8 DEF IsIn, Members, Seen, Reached, Pushed
    <3> QED
      BY <1>4, <2>1, <3>1
  <2>2. CASE t # s
    <3>1. Followed(t)
      BY <1>5, <1>6, <2>2 DEF Followed
    <3>2. PICK c \in DOMAIN cohorts : IsIn(t, c)
      BY <3>1 DEF Placed
    <3>3. IsIn(t, c)'
      BY <1>2, <1>4, <1>5, <2>2, <3>2 DEF IsIn, Members, Seen, Reached, Pushed
    <3> QED
      BY <1>4, <3>3
  <2> QED
    BY <2>1, <2>2
<1> QED
  BY <1>10, <1>11, <1>12, <1>13, <1>14, <1>15

LEMMA RemoveInv ==
    ASSUME IInv, TypeOK', NEW s \in Subs, RemoveStreamingQuery(s) PROVE Inv'
<1> USE DEF IInv, Inv
<1>1. /\ DOMAIN cohorts' \subseteq DOMAIN cohorts
      /\ \A c \in DOMAIN cohorts' : /\ cohorts'[c].id = cohorts[c].id
                                    /\ cohorts'[c].existing \subseteq cohorts[c].existing
                                    /\ cohorts'[c].new \subseteq cohorts[c].new
  BY RemovedOthers
<1>2. \A c \in DOMAIN cohorts : \A t : t # s =>
         /\ t \in Members(cohorts[c]) => c \in DOMAIN cohorts'
         /\ c \in DOMAIN cohorts' => /\ t \in cohorts'[c].existing <=> t \in cohorts[c].existing
                                     /\ t \in cohorts'[c].new <=> t \in cohorts[c].new
  BY RemovedOthers
<1>3. /\ UNCHANGED <<refs, garbled, split, tainted>>
      /\ pc' = [pc EXCEPT ![s] = "gone"] /\ DOMAIN pc = Subs /\ pc[s] = "active"
      /\ got' = [got EXCEPT ![s] = StartOf[s]] /\ DOMAIN got = Subs
  BY DEF RemoveStreamingQuery, histVars, TypeOK
<1>4. /\ pc'[s] = "gone"
      /\ \A t \in Subs : t # s => pc'[t] = pc[t] /\ got'[t] = got[t]
  BY <1>3
<1>5. HashesOld' /\ InOrderUnlessSplit'
  BY <1>3 DEF HashesOld, InOrderUnlessSplit
<1>6. SplitTainted'
  BY <1>1, <1>3 DEF SplitTainted, Members
<1>7. CASE /\ stage' = stage /\ ops' = ops /\ listed' = listed \cap DOMAIN cohorts'
           /\ DOMAIN snaps' = DOMAIN snaps
           /\ \A c \in DOMAIN snaps :
                 /\ snaps'[c].id = snaps[c].id
                 /\ snaps'[c].cur = snaps[c].cur /\ snaps'[c].new = snaps[c].new
                 /\ snaps'[c].attached <=> snaps[c].attached /\ c \in DOMAIN cohorts'
  <2>1. Staged'
    BY <1>1, <1>7 DEF Staged
  <2>2. Asked'
    <3>1. \A c \in DOMAIN ops : c \in DOMAIN snaps
      BY DEF Staged
    <3>2. \A c \in DOMAIN ops : /\ ops[c].snap \in DOMAIN snaps
                               /\ snaps[ops[c].snap].id = snaps[c].id
      BY DEF Asked
    <3>3. \A c \in DOMAIN ops : /\ ops'[c].snap \in DOMAIN snaps'
                               /\ snaps'[ops'[c].snap].id = snaps'[c].id
      BY <1>7, <3>1, <3>2
    <3>4. \A c \in DOMAIN ops : snaps'[c].id \notin split' <=> snaps[c].id \notin split
      BY <1>3, <1>7, <3>1
    <3>5. ops' = ops
      BY <1>7
    <3> QED
      BY <3>3, <3>4, <3>5 DEF Asked
  <2>3. Untouched'
    BY <1>1, <1>3, <1>4, <1>7 DEF Untouched, Members, Seen
  <2>4. ToldApart'
    BY <1>1, <1>3, <1>7 DEF ToldApart
  <2>5. Cursors'
    BY <1>1, <1>3, <1>7 DEF Cursors, Attached, Reached, Pushed
  <2>6. Placed'
    <3> SUFFICES ASSUME NEW t \in Subs, Followed(t)'
                 PROVE  \E c \in DOMAIN cohorts' : IsIn(t, c)'
      BY DEF Placed
    <3>1. t # s /\ Followed(t) /\ got'[t] = got[t]
      BY <1>3, <1>4 DEF Followed
    <3>2. PICK c \in DOMAIN cohorts : IsIn(t, c)
      BY <3>1 DEF Placed
    <3>3. c \in DOMAIN cohorts'
      BY <1>2, <3>1, <3>2 DEF IsIn
    <3>4. \A d \in DOMAIN cohorts' : /\ t \in cohorts'[d].existing <=> t \in cohorts[d].existing
                                     /\ t \in cohorts'[d].new <=> t \in cohorts[d].new
      BY <1>1, <1>2, <3>1
    <3>5. IsIn(t, c)'
      BY <1>1, <1>7, <3>1, <3>2, <3>3, <3>4 DEF IsIn, Members, Seen, Reached, Pushed
    <3> QED
      BY <3>3, <3>5
  <2> QED
    BY <1>5, <1>6, <2>1, <2>2, <2>3, <2>4, <2>5, <2>6
<1>8. CASE /\ cohorts' = NoMap /\ stage' = "sleeping" /\ listed' = {}
           /\ snaps' = NoMap /\ ops' = NoMap
  <2>1. DOMAIN cohorts' = {} /\ DOMAIN snaps' = {} /\ DOMAIN ops' = {}
    BY <1>8, NoMapIsMap
  <2>2. Staged' /\ Asked' /\ ToldApart' /\ Cursors'
    BY <1>8, <2>1 DEF Staged, Asked, ToldApart, Cursors
  <2>3. Untouched'
    BY <1>3, <1>4, <2>1 DEF Untouched
  <2>4. Placed'
    <3> SUFFICES ASSUME NEW t \in Subs, Followed(t)' PROVE FALSE
      BY DEF Placed
    <3>1. t # s /\ Followed(t)
      BY <1>3, <1>4 DEF Followed
    <3>2. PICK c \in DOMAIN cohorts : IsIn(t, c)
      BY <3>1 DEF Placed
    <3> QED
      BY <1>2, <2>1, <3>1, <3>2 DEF IsIn
  <2> QED
    BY <1>5, <1>6, <2>2, <2>3, <2>4
<1> QED
  BY <1>7, <1>8, RemovedOthers

\* Steps of the poll that leave the cohorts, the references and what was received alone.
LEMMA StartInv == ASSUME IInv, StartPoll PROVE Inv'
<1> USE DEF IInv, Inv
<1>1. /\ UNCHANGED <<cohorts, refs, pc, snaps, ops, got, garbled, split, tainted>>
      /\ stage = "sleeping" /\ stage' = "snapshotting" /\ listed' = DOMAIN cohorts
  BY DEF StartPoll, histVars
<1>2. Staged' /\ Asked' /\ HashesOld' /\ InOrderUnlessSplit'
  BY <1>1 DEF Staged, Asked, HashesOld, InOrderUnlessSplit
<1>3. Untouched' /\ ToldApart' /\ Cursors' /\ SplitTainted'
  BY <1>1 DEF Untouched, ToldApart, Cursors, SplitTainted, Seen, Attached, Reached, Pushed
<1>4. Placed'
  BY <1>1 DEF Placed, Followed, IsIn, Seen, Reached, Pushed
<1> QED
  BY <1>2, <1>3, <1>4

LEMMA SnapshotInv == ASSUME IInv, NEW c \in Keys, GetCohortSnapshot(c) PROVE Inv'
<1> DEFINE snap == [attached |-> TRUE, id |-> cohorts[c].id,
                    cur |-> cohorts[c].existing, new |-> cohorts[c].new]
<1> USE DEF IInv, Inv
<1>1. /\ UNCHANGED <<cohorts, refs, pc, stage, ops, got, garbled, split, tainted>>
      /\ c \in listed /\ listed' = listed \ {c} /\ snaps' = Put(snaps, c, snap)
  BY DEF GetCohortSnapshot, histVars
<1>2. /\ snap.attached /\ snap.id = cohorts[c].id
      /\ snap.cur = cohorts[c].existing /\ snap.new = cohorts[c].new
  OBVIOUS
<1> HIDE DEF snap
<1>3. /\ DOMAIN snaps' = DOMAIN snaps \cup {c} /\ snaps'[c] = snap
      /\ \A d \in DOMAIN snaps : d # c => snaps'[d] = snaps[d]
  BY <1>1 DEF Put
<1>4. c \in DOMAIN cohorts /\ DOMAIN ops = {} /\ stage = "snapshotting"
  BY <1>1 DEF Staged, TypeOK
<1>5. Staged' /\ Asked' /\ HashesOld' /\ InOrderUnlessSplit'
  BY <1>1, <1>4 DEF Staged, Asked, HashesOld, InOrderUnlessSplit
<1>6. Untouched'
  BY <1>1, <1>2, <1>3, <1>4 DEF Untouched, Seen, Members
<1>7. ToldApart'
  BY <1>1, <1>2, <1>3, <1>4 DEF ToldApart
<1>8. cohorts[c].id \notin split => refs[cohorts[c].id].cursor = c
  <2>1. CASE Attached(c)
    BY <1>4, <2>1 DEF Attached, ToldApart, Cursors, Reached, Pushed
  <2>2. CASE ~Attached(c)
    BY <1>4, <2>2 DEF Cursors
  <2> QED
    BY <2>1, <2>2
<1>9. Cursors'
  <2>1. \A d \in DOMAIN cohorts : ~Attached(d)' => ~Attached(d) /\ d # c
    BY <1>2, <1>3 DEF Attached
  <2>2. \A d \in DOMAIN cohorts :
           cohorts[d].id \notin split /\ ~Attached(d)' => refs[cohorts[d].id].cursor = d
    BY <2>1 DEF Cursors
  <2>3. \A d \in DOMAIN snaps' :
           snaps'[d].id \notin split => refs[snaps'[d].id].cursor = d
    BY <1>2, <1>3, <1>4, <1>8 DEF Cursors, Reached, Pushed
  <2> QED
    BY <1>1, <1>4, <2>2, <2>3 DEF Cursors, Reached, Pushed
<1>10. SplitTainted'
  BY <1>1 DEF SplitTainted
<1>11. Placed'
  <2> SUFFICES ASSUME NEW s \in Subs, Followed(s)
               PROVE  \E d \in DOMAIN cohorts : IsIn(s, d)'
    BY <1>1 DEF Placed, Followed
  <2>1. PICK d \in DOMAIN cohorts : IsIn(s, d)
    BY DEF Placed
  <2>2. got[s] = d
    BY <1>4, <2>1 DEF IsIn, Reached, Pushed
  <2>3. IsIn(s, d)'
    BY <1>1, <1>2, <1>3, <1>4, <2>1, <2>2 DEF IsIn, Members, Seen, Reached, Pushed
  <2> QED
    BY <2>3
<1> QED
  BY <1>5, <1>6, <1>7, <1>9, <1>10, <1>11

LEMMA RunInv ==
    ASSUME IInv, RunDBStreamingSubscription \/ RunDBStreamingSubscriptionFails PROVE Inv'
<1> USE DEF IInv, Inv
<1>1. /\ UNCHANGED <<cohorts, refs, pc, listed, snaps, got, garbled, split, tainted>>
      /\ stage = "snapshotting" /\ listed = {} /\ stage' = "pushing"
  BY DEF RunDBStreamingSubscription, RunDBStreamingSubscriptionFails, Asks, histVars
<1>2. /\ DOMAIN ops' = DOMAIN snaps /\ DOMAIN ops = {}
      /\ \A c \in DOMAIN snaps :
            /\ ops'[c].snap \in DOMAIN snaps /\ snaps[ops'[c].snap].id = snaps[c].id
            /\ ops'[c].result = Nothing \/ \E m \in Keys : ops'[c].result = Just(c + 1 .. m)
            /\ ops'[c].changed = Nothing /\ ops'[c].pushed = FALSE
  <2>1. DOMAIN ops = {}
    BY <1>1 DEF Staged
  <2>2. CASE RunDBStreamingSubscription
    BY <2>1, <2>2, RunType DEF RunDBStreamingSubscription
  <2>3. CASE RunDBStreamingSubscriptionFails
    BY <2>1, <2>3, FailsType
  <2> QED
    BY <2>2, <2>3
<1>3. \A c : ~Pushed(c) /\ ~Pushed(c)'
  BY <1>2 DEF Pushed
<1>4. Nothing # Just(FALSE)
  BY DEF Nothing, Just
<1>5. Staged' /\ HashesOld' /\ InOrderUnlessSplit'
  BY <1>1, <1>2 DEF Staged, HashesOld, InOrderUnlessSplit
<1>6. Asked'
  BY <1>1, <1>2, <1>4 DEF Asked
<1>7. Untouched' /\ ToldApart' /\ SplitTainted'
  BY <1>1 DEF Untouched, ToldApart, SplitTainted, Seen
<1>8. \A c : Reached(c)' = Reached(c)
  BY <1>3 DEF Reached
<1>9. Cursors'
  BY <1>1, <1>8 DEF Cursors, Attached
<1>10. Placed'
  BY <1>1, <1>8 DEF Placed, Followed, IsIn, Seen
<1> QED
  BY <1>5, <1>6, <1>7, <1>9, <1>10

\* The previous response of a cohort whose id was not split has only rows up to its key.
LEMMA ReadInv == ASSUME IInv, NEW c \in Keys, ReadPreviousResponse(c) PROVE Inv'
<1> USE DEF IInv, Inv
<1>1. UNCHANGED <<cohorts, refs, pc, stage, listed, snaps, got, garbled, split, tainted>>
  BY DEF ReadPreviousResponse, histVars
<1>2. /\ DOMAIN ops' = DOMAIN ops /\ c \in DOMAIN ops
      /\ \A d \in DOMAIN ops : /\ ops'[d].snap = ops[d].snap /\ ops'[d].result = ops[d].result
                               /\ ops'[d].pushed = ops[d].pushed
                               /\ d # c => ops'[d] = ops[d]
      /\ ops[c].changed = Nothing
      /\ ops'[c].changed = Just(FALSE) =>
            ops[c].result # Nothing /\ ops[c].result = refs[snaps[ops[c].snap].id].hash
  BY ReadOps DEF ReadPreviousResponse
<1>3. \A d : Reached(d)' = Reached(d)
  <2> TAKE d
  <2>1. CASE d \in DOMAIN ops
    <3>1. CursorAfter(ops'[d]) = CursorAfter(ops[d])
      BY <1>2, <2>1, CursorAfterSame
    <3> QED
      BY <1>2, <2>1, <3>1 DEF Reached, Pushed
  <2>2. CASE d \notin DOMAIN ops
    BY <1>2, <2>2 DEF Reached, Pushed
  <2> QED
    BY <2>1, <2>2
<1>4. Staged' /\ HashesOld' /\ InOrderUnlessSplit'
  BY <1>1, <1>2 DEF Staged, HashesOld, InOrderUnlessSplit
<1>5. Untouched' /\ ToldApart' /\ SplitTainted'
  BY <1>1 DEF Untouched, ToldApart, SplitTainted, Seen
<1>6. ASSUME snaps[c].id \notin split, ops'[c].changed = Just(FALSE)
      PROVE  ops[c].result = Just({})
  <2> DEFINE i == snaps[c].id
  <2>1. ops[c].snap = c /\ c \in DOMAIN snaps /\ ~ops[c].pushed
    BY <1>2, <1>6, OwnSnapshot DEF Asked
  <2>2. ops[c].result # Nothing /\ ops[c].result = refs[i].hash
    BY <1>2, <1>6, <2>1
  <2>3. PICK m \in Keys : ops[c].result = Just(c + 1 .. m)
    BY <1>2, <2>2 DEF Asked
  <2>4. i \in Subs
    BY <2>1 DEF TypeOK, IsMap, Snapshot
  <2>5. refs[i].cursor = c
    BY <1>6, <2>1 DEF Cursors, Reached, Pushed
  <2>6. \A r \in c + 1 .. m : r <= c
    <3>1. c + 1 .. m \in refs[i].hash
      BY <2>2, <2>3 DEF Just
    <3> QED
      BY <2>4, <2>5, <3>1 DEF HashesOld
  <2>7. ~(c < m)
    <3>1. c \in Nat /\ m \in Nat
      BY Bounds
    <3>2. ASSUME c < m PROVE FALSE
      <4>1. m \in c + 1 .. m
        BY <3>1, <3>2
      <4> QED
        BY <2>6, <3>1, <3>2, <4>1
    <3> QED
      BY <3>2
  <2> QED
    BY <2>3, <2>7, CursorAfterRows
<1>7. Asked'
  <2>1. \A d \in DOMAIN ops : d \in DOMAIN snaps
    BY DEF Staged
  <2>2. ASSUME NEW d \in DOMAIN ops, snaps[d].id \notin split, ops'[d].changed = Just(FALSE)
        PROVE  ops[d].result = Just({})
    BY <1>2, <1>6, <2>2 DEF Asked
  <2>3. \A d \in DOMAIN ops : ops'[d].changed = Nothing => ~ops'[d].pushed
    <3> TAKE d \in DOMAIN ops
    <3>1. ~ops[d].pushed => ~ops'[d].pushed
      BY <1>2
    <3>2. ops[d].changed # Nothing \/ d = c \/ ~ops[d].pushed
      BY DEF Asked
    <3> QED
      BY <1>2, <3>1, <3>2 DEF Asked
  <2>4. \A d \in DOMAIN ops :
          /\ ops[d].snap \in DOMAIN snaps /\ snaps[ops[d].snap].id = snaps[d].id
          /\ ops[d].result = Nothing \/ \E m \in Keys : ops[d].result = Just(d + 1 .. m)
    BY DEF Asked
  <2>5. \A d \in DOMAIN ops : ops'[d].snap = ops[d].snap /\ ops'[d].result = ops[d].result
    BY <1>2
  <2>6. snaps' = snaps /\ split' = split /\ DOMAIN ops' = DOMAIN ops
    BY <1>1, <1>2
  <2> QED
    BY <2>2, <2>3, <2>4, <2>5, <2>6 DEF Asked
<1>8. Cursors'
  BY <1>1, <1>3 DEF Cursors, Attached
<1>9. Placed'
  BY <1>1, <1>3 DEF Placed, Followed, IsIn, Seen
<1> QED
  BY <1>4, <1>5, <1>7, <1>8, <1>9

LEMMA PushInv == ASSUME IInv, NEW c \in Keys, PushResultToCohort(c) PROVE Inv'
<1> DEFINE op == ops[c]
           i  == snaps[op.snap].id
           to == IF op.changed = Just(TRUE) THEN Seen(op.snap) ELSE snaps[op.snap].new
<1> USE DEF IInv, Inv
<1>1. UNCHANGED <<cohorts, pc, stage, listed, snaps, split, tainted>>
  BY DEF PushResultToCohort, histVars
<1>2. /\ DOMAIN ops' = DOMAIN ops /\ c \in DOMAIN ops /\ ~op.pushed /\ ops'[c].pushed
      /\ \A d \in DOMAIN ops : /\ ops'[d].snap = ops[d].snap /\ ops'[d].result = ops[d].result
                               /\ ops'[d].changed = ops[d].changed
                               /\ d # c => ops'[d] = ops[d]
  BY PushOps
<1>3. /\ c \in DOMAIN snaps /\ op.snap \in DOMAIN snaps /\ snaps[c].id = i
      /\ i \notin split => op.snap = c
  BY <1>2, OwnSnapshot
<1>4. op.changed = Just(TRUE) \/ op.changed = Just(FALSE)
  BY <1>2, ChangedOrNot DEF PushResultToCohort
<1>5. /\ i \in Subs
      /\ \A j \in Subs : j # i => refs'[j] = refs[j]
      /\ refs'[i] = IF op.changed = Just(TRUE)
                    THEN [hash |-> op.result, cursor |-> CursorAfter(op)] ELSE refs[i]
      /\ \/ op.result \in {Nothing, Just({})} /\ got' = got /\ garbled' = garbled
         \/ /\ op.result \notin {Nothing, Just({})}
            /\ \E m \in Keys :
                  /\ c < m /\ op.result = Just(c + 1 .. m) /\ CursorAfter(op) = m
                  /\ \A s \in Subs :
                        /\ got'[s] = IF s \in to /\ Followed(s) /\ got[s] = c THEN m ELSE got[s]
                        /\ s \in garbled' => s \in garbled \/ (s \in to /\ Followed(s) /\ got[s] # c)
      /\ garbled' \subseteq Subs
  BY PushEffects
<1>6. op.result \in {Nothing, Just({})} => CursorAfter(op) = op.snap
  BY DEF CursorAfter
<1>7. i \notin split /\ op.changed # Just(TRUE) => op.result = Just({})
  BY <1>2, <1>3, <1>4 DEF Asked
<1>8. to \subseteq Seen(op.snap)
  BY DEF Seen
<1>9. /\ Reached(c) = c /\ Reached(c)' = CursorAfter(op)
      /\ \A d : d # c => Reached(d)' = Reached(d)
  <2>1. CursorAfter(ops'[c]) = CursorAfter(op)
    BY <1>2, CursorAfterSame
  <2> HIDE DEF op
  <2>2. Reached(c) = c /\ Reached(c)' = CursorAfter(op)
    BY <1>2, <2>1 DEF Reached, Pushed, op
  <2>3. ASSUME NEW d, d # c PROVE Reached(d)' = Reached(d)
    BY <1>2, <2>3 DEF Reached, Pushed
  <2> QED
    BY <2>2, <2>3
\* Whoever is followed and gets the result is in the cohort it is meant for.
<1>10. ASSUME NEW s \in Subs, Followed(s), s \in Seen(op.snap)
       PROVE  op.snap = c /\ i \notin split /\ got[s] = c
  <2>1. PICK d \in DOMAIN cohorts : IsIn(s, d)
    BY <1>10 DEF Placed
  <2>2. op.snap = d /\ snaps[d].attached
    BY <1>3, <1>10, <2>1 DEF IsIn
  <2>3. cohorts[d].id = i
    BY <1>3, <2>2 DEF ToldApart
  <2>4. i \notin split
    BY <1>10, <2>1, <2>3 DEF SplitTainted, IsIn, Followed
  <2>5. op.snap = c
    BY <1>3, <2>4
  <2>6. got[s] = Reached(c)
    BY <1>3, <1>10, <2>1, <2>2, <2>5 DEF IsIn
  <2> QED
    BY <1>9, <2>4, <2>5, <2>6
<1> HIDE DEF to, i, op
<1>11. Staged'
  BY <1>1, <1>2 DEF Staged
<1>12. Asked'
  <2>1. \A d \in DOMAIN ops : ops'[d].changed = Nothing => ~ops'[d].pushed
    <3>1. op.changed # Nothing
      BY DEF PushResultToCohort, op
    <3> QED
      BY <1>2, <3>1 DEF Asked, op
  <2>2. ASSUME NEW d \in DOMAIN ops
        PROVE  /\ ops'[d].snap \in DOMAIN snaps /\ snaps[ops'[d].snap].id = snaps[d].id
               /\ ops'[d].result = Nothing \/ \E m \in Keys : ops'[d].result = Just(d + 1 .. m)
               /\ snaps[d].id \notin split /\ ops'[d].changed = Just(FALSE) => ops'[d].result = Just({})
    <3>1. /\ ops'[d].snap = ops[d].snap /\ ops'[d].result = ops[d].result
          /\ ops'[d].changed = ops[d].changed
      BY <1>2
    <3> QED
      BY <3>1 DEF Asked
  <2> QED
    BY <1>1, <1>2, <2>1, <2>2 DEF Asked
<1>13. HashesOld'
  <2>1. ASSUME op.changed = Just(TRUE), NEW R \in op.result, NEW r \in R
        PROVE  r <= CursorAfter(op)
    <3>1. PICK m \in Keys : op.result = Just(c + 1 .. m)
      BY <1>2, <2>1 DEF Asked, Nothing, op
    <3>2. R = c + 1 .. m
      BY <2>1, <3>1 DEF Just
    <3>3. c \in Nat /\ m \in Nat
      BY Bounds
    <3>4. c < m /\ r \in Int /\ r <= m
      BY <2>1, <3>2, <3>3
    <3> QED
      BY <3>1, <3>4, CursorAfterRows
  <2> SUFFICES ASSUME NEW j \in Subs, NEW R \in refs'[j].hash, NEW r \in R
               PROVE  r <= refs'[j].cursor
    BY DEF HashesOld
  <2>2. CASE j = i /\ op.changed = Just(TRUE)
    <3>1. refs'[j].hash = op.result /\ refs'[j].cursor = CursorAfter(op)
      BY <1>5, <2>2
    <3> QED
      BY <2>1, <2>2, <3>1
  <2>3. CASE ~(j = i /\ op.changed = Just(TRUE))
    <3>1. refs'[j] = refs[j]
      BY <1>5, <2>3
    <3> QED
      BY <3>1 DEF HashesOld
  <2> QED
    BY <2>2, <2>3
<1>14. Untouched'
  <2> SUFFICES ASSUME NEW s \in Subs, pc[s] = "idle"
               PROVE  refs'[s] = refs[s] /\ got'[s] = got[s]
    BY <1>1 DEF Untouched, Seen
  <2>1. s # i
    BY <1>3 DEF Untouched
  <2>2. ~Followed(s)
    BY DEF Followed
  <2>3. got'[s] = got[s]
    BY <1>5, <2>2
  <2> QED
    BY <1>5, <2>1, <2>3
<1>15. ToldApart' /\ SplitTainted'
  BY <1>1 DEF ToldApart, SplitTainted
<1>16. Cursors'
  <2>1. i \notin split => refs'[i].cursor = CursorAfter(op)
    <3>1. CASE op.changed = Just(TRUE)
      BY <1>5, <3>1
    <3>2. CASE op.changed # Just(TRUE)
      <4>1. refs'[i] = refs[i]
        BY <1>5, <3>2
      <4>2. i \notin split => refs[i].cursor = c
        BY <1>3, <1>9 DEF Cursors
      <4> QED
        BY <1>3, <1>6, <1>7, <3>2, <4>1, <4>2
    <3> QED
      BY <3>1, <3>2
  <2>2. \A d \in DOMAIN cohorts :
           cohorts[d].id \notin split /\ ~Attached(d) => refs'[cohorts[d].id].cursor = d
    <3> TAKE d \in DOMAIN cohorts
    <3>1. cohorts[d].id \in Subs
      BY DEF TypeOK, IsMap, Cohort
    <3>2. cohorts[d].id \notin split /\ ~Attached(d) => cohorts[d].id # i
      BY <1>3 DEF ToldApart, Attached
    <3> QED
      BY <1>5, <3>1, <3>2 DEF Cursors
  <2>3. \A d \in DOMAIN snaps :
           snaps[d].id \notin split => refs'[snaps[d].id].cursor = Reached(d)'
    <3> TAKE d \in DOMAIN snaps
    <3>1. snaps[d].id \in Subs
      BY DEF TypeOK, IsMap, Snapshot
    <3>2. CASE d = c
      BY <1>3, <1>9, <2>1, <3>2
    <3>3. CASE d # c
      <4>1. snaps[d].id \notin split => snaps[d].id # i
        BY <1>3, <3>3 DEF ToldApart
      <4> QED
        BY <1>5, <1>9, <3>1, <3>3, <4>1 DEF Cursors
    <3> QED
      BY <3>2, <3>3
  <2> QED
    BY <1>1, <2>2, <2>3 DEF Cursors, Attached
<1>17. Placed'
  <2> SUFFICES ASSUME NEW s \in Subs, Followed(s)
               PROVE  \E d \in DOMAIN cohorts : IsIn(s, d)'
    BY <1>1 DEF Placed, Followed
  <2>1. PICK d \in DOMAIN cohorts : IsIn(s, d)
    BY DEF Placed
  <2>2. got'[s] = IF d \in DOMAIN snaps /\ s \in Seen(d) THEN Reached(d)' ELSE d
    <3>1. CASE s \in Seen(op.snap)
      <4>1. op.snap = c /\ i \notin split /\ got[s] = c
        BY <1>10, <3>1
      <4>2. d = c
        BY <1>3, <2>1, <3>1, <4>1 DEF IsIn
      <4>3. got'[s] = CursorAfter(op)
        <5>1. CASE op.result \in {Nothing, Just({})}
          BY <1>5, <1>6, <4>1, <5>1
        <5>2. CASE op.result \notin {Nothing, Just({})}
          <6>1. s \in to
            BY <1>7, <3>1, <4>1, <5>2 DEF to
          <6> QED
            BY <1>5, <4>1, <5>2, <6>1
        <5> QED
          BY <5>1, <5>2
      <4> QED
        BY <1>3, <1>9, <3>1, <4>1, <4>2, <4>3
    <3>2. CASE s \notin Seen(op.snap)
      <4>1. got'[s] = got[s]
        BY <1>5, <1>8, <3>2
      <4>2. d = c /\ s \in Seen(c) => FALSE
        <5> SUFFICES ASSUME d = c, s \in Seen(c) PROVE FALSE
          OBVIOUS
        <5>1. snaps[c].attached /\ cohorts[c].id = i
          BY <1>3, <2>1 DEF IsIn, ToldApart
        <5>2. i \notin split
          BY <2>1, <5>1 DEF SplitTainted, IsIn, Followed
        <5> QED
          BY <1>3, <3>2, <5>2
      <4> QED
        BY <1>9, <2>1, <4>1, <4>2 DEF IsIn
    <3> QED
      BY <3>1, <3>2
  <2>3. IsIn(s, d)'
    BY <1>1, <2>1, <2>2 DEF IsIn, Seen
  <2> QED
    BY <2>3
<1>18. InOrderUnlessSplit'
  <2>1. ASSUME NEW s \in garbled' PROVE FALSE
    <3>1. s \in Subs /\ s \notin garbled
      BY <1>5 DEF InOrderUnlessSplit
    <3>2. s \in to /\ Followed(s) /\ got[s] # c
      BY <1>5, <3>1, <2>1
    <3> QED
      BY <1>8, <1>10, <3>1, <3>2
  <2> QED
    BY <2>1 DEF InOrderUnlessSplit
<1> QED
  BY <1>11, <1>12, <1>13, <1>14, <1>15, <1>16, <1>17, <1>18

\* Every part with an id that was not split gets the key that its cursor reference has.
LEMMA PartsAtCursors ==
    ASSUME TypeOK, Rebuilds, Cursors, NEW last \in LastOperations,
           split' = split \cup {cohorts[c].id : c \in SplitKeys(last)},
           NEW x \in Parts(last), x.id \notin split'
    PROVE  refs[x.id].cursor = x.at
<1>1. PICK c \in DOMAIN cohorts : x \in Rebuilt(c, last)
  BY DEF Parts
<1>2. x.id \notin split
  OBVIOUS
<1>3. \A d \in DOMAIN snaps : Reached(d) = CursorAfter(ops[d])
  BY DEF Rebuilds, RebuildCohortMap, Staged, Reached, Pushed
<1>4. Attached(c) => cohorts[c].id = snaps[c].id
  BY DEF Attached, Rebuilds, ToldApart
<1>5. CASE c \notin DOMAIN last /\ IsKept(x, c)
  BY <1>2, <1>4, <1>5, LastOperation DEF IsKept, Cursors, Attached
<1>6. CASE c \in DOMAIN last /\ IsAdded(x, c)
  <2>1. x.at = c /\ x.id = cohorts[c].id /\ Added(c) # {} /\ c \in DOMAIN snaps
    BY <1>6, PartKinds, LastOperation DEF IsAdded
  <2>2. CASE ~Attached(c)
    BY <1>2, <2>1, <2>2 DEF Cursors
  <2>3. CASE Attached(c)
    <3>1. snaps[c].id \notin split /\ last[c] = c
      BY <1>2, <1>4, <2>1, <2>3, LastOperation
    <3>2. c \notin SplitKeys(last)
      BY <2>1
    <3>3. CursorAfter(ops[c]) = c
      BY <1>6, <2>1, <2>3, <3>1, <3>2 DEF SplitKeys, Attached
    <3>4. refs[snaps[c].id].cursor = Reached(c)
      BY <2>1, <3>1 DEF Cursors
    <3> QED
      BY <1>3, <1>4, <2>1, <2>3, <3>3, <3>4
  <2> QED
    BY <2>2, <2>3
<1>7. CASE c \in DOMAIN last /\ IsProcessed(x, c, last)
  <2>1. c \in DOMAIN snaps /\ x.id = snaps[c].id /\ x.at = CursorAfter(ops[last[c]])
    BY <1>7, LastOperation DEF IsProcessed
  <2>2. last[c] = c
    BY <1>2, <2>1, LastOperation
  <2> QED
    BY <1>2, <1>3, <2>1, <2>2 DEF Cursors
<1> QED
  BY <1>1, <1>5, <1>6, <1>7, PartKinds

\* A followed subscriber is in parts with the key it has received the rows up to only, and
\* either new or existing in them.
LEMMA PartsOfFollowed ==
    ASSUME TypeOK, Rebuilds, SplitTainted, NEW last \in LastOperations,
           NEW s \in Subs, Followed(s), NEW c \in DOMAIN cohorts, IsIn(s, c),
           c \in SplitKeys(last) => s \in tainted',
           s \notin tainted'
    PROVE  /\ \A x \in Parts(last) : s \in Members(x) => x.at = got[s]
           /\ \E x \in Parts(last) : s \in Members(x)
           /\ \A x, y \in Parts(last) : ~(s \in x.existing /\ s \in y.new)
<1>1. \A x \in Parts(last) : s \in Members(x) => x \in Rebuilt(c, last)
  BY PartTypes DEF IsIn
<1>2. \A x \in Rebuilt(c, last) : x \in Parts(last)
  BY DEF Parts
<1>3. cohorts[c].id \notin split
  BY DEF SplitTainted, IsIn, Followed
<1>4. Attached(c) => c \in DOMAIN last /\ last[c] = c
  <2>1. Attached(c) => cohorts[c].id = snaps[c].id
    BY DEF Attached, Rebuilds, ToldApart
  <2> QED
    BY <1>3, <2>1, LastOperation DEF Attached
<1>5. \A d \in DOMAIN snaps : Reached(d) = CursorAfter(ops[d])
  BY DEF Rebuilds, RebuildCohortMap, Staged, Reached, Pushed
<1>6. c \in DOMAIN snaps /\ s \in Seen(c) => Attached(c)
  BY DEF IsIn, Attached
<1>7. c \in DOMAIN snaps => /\ s \in snaps[c].cur <=> s \in cohorts[c].existing
                            /\ s \in snaps[c].new => s \in cohorts[c].new
  BY DEF IsIn
<1>8. s \in cohorts[c].existing \/ s \in cohorts[c].new
  BY DEF IsIn, Members
<1>9. ~(s \in cohorts[c].existing /\ s \in cohorts[c].new)
  BY DEF IsIn
<1>10. CASE c \notin DOMAIN last
  <2>1. got[s] = c
    BY <1>4, <1>6, <1>10 DEF IsIn
  <2>2. \A x \in Rebuilt(c, last) : IsKept(x, c)
    BY <1>10, PartKinds
  <2>3. \E x \in Rebuilt(c, last) : IsKept(x, c)
    BY <1>10, PartKinds
  <2>4. \A x : IsKept(x, c) => x.at = got[s] /\ s \in Members(x)
                               /\ x.existing = cohorts[c].existing /\ x.new = cohorts[c].new
    BY <1>8, <1>9, <2>1 DEF IsKept, Members
  <2> QED
    BY <1>1, <1>2, <1>9, <2>2, <2>3, <2>4 DEF Members
<1>11. CASE c \in DOMAIN last /\ s \in Seen(c)
  <2>1. c \in DOMAIN snaps /\ snaps[c].attached /\ last[c] = c
    BY <1>4, <1>6, <1>11, LastOperation DEF Attached
  <2>2. got[s] = CursorAfter(ops[c])
    BY <1>5, <1>11, <2>1 DEF IsIn
  <2>3. s \notin cohorts[c].new \ snaps[c].new
    BY <1>7, <1>9, <1>11, <2>1 DEF Seen
  <2>4. s \in cohorts[c].existing \cup (cohorts[c].new \cap snaps[c].new)
    BY <1>8, <2>3
  <2>5. \A x : IsAdded(x, c) => s \notin Members(x)
    BY <2>3 DEF IsAdded, Members
  <2>6. \A x : IsProcessed(x, c, last) => x.at = got[s] /\ s \in x.existing /\ s \notin x.new
    BY <2>1, <2>2, <2>3, <2>4 DEF IsProcessed
  <2>7. \E x \in Rebuilt(c, last) : IsProcessed(x, c, last)
    BY <1>11, PartKinds
  <2>8. \A x \in Rebuilt(c, last) : IsAdded(x, c) \/ IsProcessed(x, c, last)
    BY <1>11, PartKinds
  <2> QED
    BY <1>1, <1>2, <2>5, <2>6, <2>7, <2>8 DEF Members
<1>12. CASE c \in DOMAIN last /\ s \notin Seen(c)
  <2>1. c \in DOMAIN snaps
    BY <1>12, LastOperation
  <2>2. got[s] = c
    BY <1>12 DEF IsIn
  <2>3. s \notin cohorts[c].existing /\ s \in cohorts[c].new \ snaps[c].new
    BY <1>7, <1>8, <1>12, <2>1 DEF Seen
  <2>4. Added(c) = cohorts[c].new \ snaps[c].new
    BY PartKinds
  <2>5. snaps[c].attached => CursorAfter(ops[last[c]]) = c
    BY <1>12, <2>1, <2>3, <2>4 DEF SplitKeys
  <2>6. \A x : IsAdded(x, c) => x.at = got[s] /\ s \in x.new /\ s \notin x.existing
    BY <2>2, <2>3 DEF IsAdded
  <2>7. \A x : IsProcessed(x, c, last) => s \notin x.existing /\ (s \in x.new => x.at = got[s])
    BY <2>2, <2>3, <2>5 DEF IsProcessed
  <2>8. \E x \in Rebuilt(c, last) : IsAdded(x, c)
    BY <1>12, <2>3, <2>4, PartKinds
  <2>9. \A x \in Rebuilt(c, last) : IsAdded(x, c) \/ IsProcessed(x, c, last)
    BY <1>12, PartKinds
  <2> QED
    BY <1>1, <1>2, <2>6, <2>7, <2>8, <2>9 DEF Members
<1> QED
  BY <1>10, <1>11, <1>12

LEMMA RebuildInv == ASSUME IInv, RebuildCohortMap PROVE Inv'
<1> USE DEF IInv, Inv
<1>1. Rebuilds
  BY DEF Rebuilds
<1>2. PICK last \in LastOperations :
         /\ \A v \in DOMAIN cohorts' : \E x \in Parts(last) : x.at = v /\ x.id = cohorts'[v].id
         /\ \A x \in Parts(last) : /\ x.at \in DOMAIN cohorts'
                                   /\ x.existing \subseteq cohorts'[x.at].existing
                                   /\ x.new \subseteq cohorts'[x.at].new
         /\ \A v \in DOMAIN cohorts' : \A s :
               /\ s \in cohorts'[v].existing => \E x \in Parts(last) : x.at = v /\ s \in x.existing
               /\ s \in cohorts'[v].new => \E x \in Parts(last) : x.at = v /\ s \in x.new
         /\ IsMap(cohorts', Keys, Cohort)
         /\ split' = split \cup {cohorts[c].id : c \in SplitKeys(last)}
         /\ tainted' = tainted \cup MembersUnder(cohorts', split')
                               \cup UNION {Members(cohorts[c]) : c \in SplitKeys(last)}
  BY <1>1, RebuildEffects
<1>3. /\ UNCHANGED <<refs, pc, listed, got, garbled>> /\ stage = "pushing" /\ stage' = "sleeping"
      /\ DOMAIN snaps' = {} /\ DOMAIN ops' = {}
  BY NoMapIsMap DEF RebuildCohortMap
<1>4. \A v \in DOMAIN cohorts' :
         cohorts'[v].id \notin split' => refs[cohorts'[v].id].cursor = v
  BY <1>1, <1>2, PartsAtCursors
<1>5. Staged' /\ Asked' /\ HashesOld' /\ InOrderUnlessSplit'
  BY <1>3 DEF Staged, Asked, HashesOld, InOrderUnlessSplit
<1>6. ToldApart' /\ Cursors'
  BY <1>3, <1>4 DEF ToldApart, Cursors
<1>7. SplitTainted'
  BY <1>2 DEF SplitTainted, MembersUnder
<1>8. Untouched'
  <2> SUFFICES ASSUME NEW s \in Subs, pc[s] = "idle"
               PROVE  /\ s \notin split'
                      /\ \A v \in DOMAIN cohorts' : s \notin Members(cohorts'[v]) /\ cohorts'[v].id # s
    BY <1>3 DEF Untouched
  <2>1. /\ s \notin split /\ \A c \in DOMAIN cohorts : s \notin Members(cohorts[c]) /\ cohorts[c].id # s
        /\ \A c \in DOMAIN snaps : snaps[c].id # s
    BY DEF Untouched
  <2>2. s \notin split'
    BY <1>2, <2>1 DEF SplitKeys
  <2>3. \A x \in Parts(last) : s \notin Members(x)
    BY <1>1, <2>1, PartTypes
  <2>4. \A x \in Parts(last) : x.id # s
    <3> TAKE x \in Parts(last)
    <3>1. PICK c \in DOMAIN cohorts : x \in Rebuilt(c, last)
      BY DEF Parts
    <3>2. \/ IsKept(x, c) \/ IsAdded(x, c)
          \/ c \in DOMAIN snaps /\ IsProcessed(x, c, last)
      BY <1>1, <3>1, PartKinds, LastOperation
    <3> QED
      BY <2>1, <3>2 DEF IsKept, IsAdded, IsProcessed
  <2> QED
    BY <1>2, <2>2, <2>3, <2>4 DEF Members
<1>9. Placed'
  <2> SUFFICES ASSUME NEW s \in Subs, Followed(s)'
               PROVE  \E v \in DOMAIN cohorts' : IsIn(s, v)'
    BY DEF Placed
  <2>1. Followed(s) /\ s \notin tainted'
    BY <1>2, <1>3 DEF Followed
  <2>2. PICK c \in DOMAIN cohorts : IsIn(s, c)
    BY <2>1 DEF Placed
  <2>3. c \in SplitKeys(last) => s \in tainted'
    BY <1>2, <2>2 DEF IsIn
  <2>4. /\ \A x \in Parts(last) : s \in Members(x) => x.at = got[s]
        /\ \E x \in Parts(last) : s \in Members(x)
        /\ \A x, y \in Parts(last) : ~(s \in x.existing /\ s \in y.new)
    BY <1>1, <2>1, <2>2, <2>3, PartsOfFollowed
  <2> PICK v : v = got[s]
    OBVIOUS
  <2>5. v \in DOMAIN cohorts' /\ s \in Members(cohorts'[v])
    BY <1>2, <2>4 DEF Members
  <2>6. ~(s \in cohorts'[v].existing /\ s \in cohorts'[v].new)
    BY <1>2, <2>4, <2>5
  <2>7. \A d \in DOMAIN cohorts' : s \in Members(cohorts'[d]) => d = v
    BY <1>2, <2>4 DEF Members
  <2>8. IsIn(s, v)'
    BY <1>3, <2>5, <2>6, <2>7 DEF IsIn
  <2> QED
    BY <2>5, <2>8
<1> QED
  BY <1>5, <1>6, <1>7, <1>8, <1>9

LEMMA InvNext == IInv /\ [Next]_vars => IInv'
<1> SUFFICES ASSUME IInv, [Next]_vars PROVE IInv'
  OBVIOUS
<1>1. TypeOK'
  BY TypeNext
<1>2. ASSUME NEW s \in Subs, AddToCohort(s) \/ AddToPoller(s) \/ RemoveStreamingQuery(s)
      PROVE  Inv'
  BY <1>1, <1>2, AddToCohortInv, AddToPollerInv, RemoveInv
<1>3. ASSUME NEW c \in Keys,
             GetCohortSnapshot(c) \/ ReadPreviousResponse(c) \/ PushResultToCohort(c)
      PROVE  Inv'
  BY <1>3, SnapshotInv, ReadInv, PushInv
<1>4. ASSUME \/ StartPoll \/ RunDBStreamingSubscription \/ RunDBStreamingSubscriptionFails
             \/ RebuildCohortMap
      PROVE  Inv'
  BY <1>4, StartInv, RunInv, RebuildInv
<1>5. ASSUME InsertRow \/ UNCHANGED vars PROVE Inv'
  <2>1. UNCHANGED <<cohorts, refs, pc, stage, listed, snaps, ops, got, garbled, split, tainted>>
    BY <1>5 DEF InsertRow, vars, pollVars, histVars
  <2>2. Staged' /\ Asked' /\ HashesOld' /\ InOrderUnlessSplit'
    BY <2>1 DEF IInv, Inv, Staged, Asked, HashesOld, InOrderUnlessSplit
  <2>3. Untouched' /\ ToldApart' /\ SplitTainted'
    BY <2>1 DEF IInv, Inv, Untouched, ToldApart, SplitTainted, Seen
  <2>4. Cursors' /\ Placed'
    BY <2>1 DEF IInv, Inv, Cursors, Placed, Followed, IsIn, Seen, Attached, Reached, Pushed
  <2> QED
    BY <2>2, <2>3, <2>4 DEF Inv
<1> QED
  BY <1>1, <1>2, <1>3, <1>4, <1>5 DEF IInv, Next, PollStep

-------------------------------------------------------------------------------
(* Theorems *)

\* pollStreamingQuery and the operations beside it keep what the properties rest on:
\* references, keys, snapshots and operations agree, and followed subscribers are placed.
THEOREM InvariantHolds == Spec => []IInv
BY InitInv, InvNext, PTL DEF Spec

\* Every reachable state is well typed: the cursor of a result is a key again.
THEOREM TypesHold == Spec => []TypeOK
<1>1. IInv => TypeOK
  BY DEF IInv
<1> QED
  BY <1>1, InvariantHolds, PTL

\* pushResultToCohort sends a subscriber every row after its initial value once and in order,
\* while its cohorts move and merge, unless a rebuild has split its cohort.
THEOREM InOrderHolds == Spec => []InOrderUnlessSplit
<1>1. IInv => InOrderUnlessSplit
  BY DEF IInv, Inv
<1> QED
  BY <1>1, InvariantHolds, PTL

\* removeStreamingQuery finds the cohort of a subscriber by the cursor reference, unless the
\* cohort has merged into one with other references or its poll has pushed.
THEOREM LocatedHolds == Spec => []LocatedUnlessMergedOrMoving
<1>1. IInv => LocatedUnlessMergedOrMoving
  <2> SUFFICES ASSUME IInv, NEW s \in Subs, Followed(s)
               PROVE  \E c \in DOMAIN cohorts :
                         /\ s \in Members(cohorts[c])
                         /\ \/ refs[myRef[s]].cursor = c
                            \/ cohorts[c].id # myRef[s]
                            \/ \E d \in DOMAIN ops : ops[d].pushed /\ snaps[ops[d].snap].id = myRef[s]
    BY DEF LocatedUnlessMergedOrMoving, Followed
  <2> USE DEF IInv, Inv
  <2>1. PICK c \in DOMAIN cohorts : IsIn(s, c)
    BY DEF Placed
  <2>2. s \in Members(cohorts[c])
    BY <2>1 DEF IsIn
  <2>3. cohorts[c].id \notin split
    BY <2>2 DEF SplitTainted, Followed
  <2>4. CASE Attached(c)
    <3>1. c \in DOMAIN snaps /\ snaps[c].id = cohorts[c].id
      BY <2>4 DEF Attached, ToldApart
    <3>2. refs[snaps[c].id].cursor = Reached(c)
      BY <2>3, <3>1 DEF Cursors
    <3>3. CASE Pushed(c)
      BY <2>2, <3>1, <3>3, OwnSnapshot DEF Pushed
    <3>4. CASE ~Pushed(c)
      BY <2>2, <3>1, <3>2, <3>4 DEF Reached
    <3> QED
      BY <3>3, <3>4
  <2>5. CASE ~Attached(c)
    BY <2>2, <2>3, <2>5 DEF Cursors
  <2> QED
    BY <2>4, <2>5
<1> QED
  BY <1>1, InvariantHolds, PTL

\* The rebuild takes members from the cohorts of the map, never from the snapshots: whoever
\* has been removed in the middle of a poll is not brought back.
THEOREM NeverComesBackHolds == Spec => NeverComesBack
<1>1. ASSUME IInv, [Next]_vars, NEW s \in Subs, pc[s] = "gone", s \notin Served(cohorts)
      PROVE  s \notin Served(cohorts')
  <2> USE DEF IInv, Inv
  <2>1. \A c \in DOMAIN cohorts : s \notin Members(cohorts[c])
    BY <1>1 DEF Served
  <2>2. ASSUME \A c \in DOMAIN cohorts' : s \notin Members(cohorts'[c])
        PROVE  s \notin Served(cohorts')
    BY <2>2 DEF Served
  <2>3. ASSUME NEW t \in Subs, AddToCohort(t) PROVE s \notin Served(cohorts')
    <3> DEFINE v == StartOf[t]
    <3>1. s # t /\ v \in DOMAIN cohorts /\ cohorts[v] \in Cohort
      BY <1>1, <2>3 DEF AddToCohort, TypeOK, IsMap
    <3>2. cohorts' = [cohorts EXCEPT ![v].new = @ \cup {t}]
      BY <2>3 DEF AddToCohort
    <3>3. \A c \in DOMAIN cohorts' : s \notin Members(cohorts'[c])
      BY <2>1, <3>1, <3>2 DEF Members, Cohort
    <3> QED
      BY <2>2, <3>3
  <2>4. ASSUME NEW t \in Subs, AddToPoller(t) PROVE s \notin Served(cohorts')
    <3>1. s # t
      BY <1>1, <2>4 DEF AddToPoller
    <3>2. cohorts' = Put(cohorts, StartOf[t], [id |-> t, existing |-> {}, new |-> {t}])
      BY <2>4 DEF AddToPoller
    <3>3. \A c \in DOMAIN cohorts' : s \notin Members(cohorts'[c])
      BY <2>1, <3>1, <3>2 DEF Members, Put
    <3> QED
      BY <2>2, <3>3
  <2>5. ASSUME NEW t \in Subs, RemoveStreamingQuery(t) PROVE s \notin Served(cohorts')
    <3>1. \A c \in DOMAIN cohorts' : /\ c \in DOMAIN cohorts
                                     /\ cohorts'[c].existing \subseteq cohorts[c].existing
                                     /\ cohorts'[c].new \subseteq cohorts[c].new
      BY <1>1, <2>5, RemovedOthers
    <3> QED
      BY <2>1, <2>2, <3>1 DEF Members
  <2>6. ASSUME RebuildCohortMap PROVE s \notin Served(cohorts')
    <3>1. Rebuilds
      BY <1>1, <2>6 DEF Rebuilds
    <3>2. PICK last \in LastOperations :
             \A v \in DOMAIN cohorts' : \A t :
                /\ t \in cohorts'[v].existing => \E x \in Parts(last) : x.at = v /\ t \in x.existing
                /\ t \in cohorts'[v].new => \E x \in Parts(last) : x.at = v /\ t \in x.new
      BY <1>1, <3>1, RebuildEffects
    <3>3. \A x \in Parts(last) : s \notin Members(x)
      BY <1>1, <2>1, <3>1, PartTypes
    <3> QED
      BY <2>2, <3>2, <3>3 DEF Members
  <2>7. CASE UNCHANGED cohorts
    BY <1>1, <2>7
  <2>8. ASSUME \/ StartPoll \/ RunDBStreamingSubscription \/ RunDBStreamingSubscriptionFails
               \/ InsertRow \/ UNCHANGED vars
               \/ \E c \in Keys :
                     GetCohortSnapshot(c) \/ ReadPreviousResponse(c) \/ PushResultToCohort(c)
        PROVE  UNCHANGED cohorts
    BY <2>8 DEF StartPoll, RunDBStreamingSubscription, RunDBStreamingSubscriptionFails, InsertRow,
                vars, GetCohortSnapshot, ReadPreviousResponse, PushResultToCohort
  <2> QED
    BY <1>1, <2>3, <2>4, <2>5, <2>6, <2>7, <2>8 DEF Next, PollStep
<1>2. IInv /\ [Next]_vars =>
         [\A s \in Subs : pc[s] = "gone" /\ s \notin Served(cohorts) => s \notin Served(cohorts')]_vars
  BY <1>1
<1> QED
  BY <1>2, InvariantHolds, PTL DEF Spec, NeverComesBack

===============================================================================
