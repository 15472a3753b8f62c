------------------------- MODULE EventTriggers_proofs -------------------------
(*****************************************************************************)
(* Proofs about EventTriggers for any number of instances, sources, triggers, *)
(* events and faults.                                                         *)
(*****************************************************************************)
EXTENDS EventTriggers, FiniteSetTheorems, TLAPS

\* The statements on the event log turn rows into rows.
LEMMA RowTypes ==
    \A row \in Row :
        /\ Lock(row) \in Row /\ Unlock(row) \in Row /\ Archive(row) \in Row
        /\ MarkForDelivery(row) \in Row
        /\ [row EXCEPT !.locked = "stale"] \in Row
        /\ [row EXCEPT !.retry = "due"] \in Row
BY DEF Row, LockStates, RetryStates, Lock, Unlock, Archive, MarkForDelivery

\* So does the transaction that ends the processing of an event.
LEMMA RecordTypes == \A row \in Row, c \in Copy : RecordOutcome(row, c) \in Row
<1>1. \A row \in Row : CountTry(row) \in Row
  BY DEF Row, CountTry
<1>2. \A row \in Row : SetSuccess(row) \in Row /\ SetError(row) \in Row /\ SetRetry(row) \in Row
  BY DEF Row, LockStates, RetryStates, SetSuccess, SetError, SetRetry
<1>3. QED
  BY <1>1, <1>2 DEF RecordOutcome

\* A copy that changes its stage, or is made from a row, is a copy.
LEMMA CopyTypes ==
    /\ NoCopy \in Copy
    /\ \A c \in Copy, stage \in Stages :
          /\ [c EXCEPT !.stage = stage] \in Copy
          /\ \A outcome \in Outcomes :
                [c EXCEPT !.stage = stage, !.outcome = outcome] \in Copy
    /\ \A n \in Nat : [NoCopy EXCEPT !.stage = "popped", !.tries = n] \in Copy
<1>1. {"idle", "popped"} \subseteq Stages /\ "none" \in Outcomes
  BY DEF Stages, Outcomes
<1>2. NoCopy \in Copy
  BY <1>1 DEF Copy, NoCopy
<1>3. \A c \in Copy, stage \in Stages : [c EXCEPT !.stage = stage] \in Copy
  BY DEF Copy
<1>4. \A c \in Copy, stage \in Stages, outcome \in Outcomes :
         [c EXCEPT !.stage = stage, !.outcome = outcome] \in Copy
  BY DEF Copy
<1>5. \A n \in Nat : [NoCopy EXCEPT !.stage = "popped", !.tries = n] \in Copy
  BY <1>1, <1>2 DEF Copy
<1> QED
  BY <1>2, <1>3, <1>4, <1>5

LEMMA OutcomeTypes ==
    ASSUME NEW i, NEW e, NEW n PROVE PossibleOutcomes(i, e, n) \subseteq Outcomes
BY DEF PossibleOutcomes, Outcomes

\* The locked-events map stays a map from sources to sets of events.
LEMMA EntriesTypes ==
    ASSUME NEW entries \in [Sources -> Maybe(SUBSET Events)], NEW s \in Sources,
           NEW ids \in SUBSET Events
    PROVE  /\ WithLockedEvents(entries, s, ids) \in [Sources -> Maybe(SUBSET Events)]
           /\ {old \ ids : old \in entries[s]} \in Maybe(SUBSET Events)
           /\ UNION entries[s] \in SUBSET Events
<1> DEFINE M == Maybe(SUBSET Events)
<1>1. /\ {} \in M /\ {ids} \in M
      /\ \/ entries[s] = {}
         \/ \E x \in SUBSET Events : entries[s] = {x}
  BY DEF Maybe
<1>2. CASE entries[s] = {}
  <2>1. NoEntries \in [Sources -> M]
    BY <1>1 DEF NoEntries
  <2>2. [NoEntries EXCEPT ![s] = {ids}] \in [Sources -> M]
    BY <1>1, <2>1
  <2>3. {old \ ids : old \in entries[s]} = {}
    BY <1>2
  <2> QED
    BY <1>1, <1>2, <2>2, <2>3 DEF WithLockedEvents
<1>3. CASE \E x \in SUBSET Events : entries[s] = {x}
  <2>1. PICK x \in SUBSET Events : entries[s] = {x}
    BY <1>3
  <2>2. /\ {old \cup ids : old \in entries[s]} = {x \cup ids}
        /\ {old \ ids : old \in entries[s]} = {x \ ids}
        /\ UNION entries[s] = x
    BY <2>1
  <2>3. {x \cup ids} \in M /\ {x \ ids} \in M
    BY DEF Maybe
  <2>4. [entries EXCEPT ![s] = {old \cup ids : old \in entries[s]}] \in [Sources -> M]
    BY <2>2, <2>3
  <2> HIDE DEF M
  <2> QED
    BY <2>1, <2>2, <2>3, <2>4 DEF WithLockedEvents, M
<1>4. QED
  BY <1>1, <1>2, <1>3

-------------------------------------------------------------------------------
\* Next as one list of actions, for the case splits below.
LEMMA NextCases ==
    ASSUME [Next]_vars
    PROVE  \/ \E i \in Instances, s \in Sources :
                 FetchEvents(i, s) \/ FetchEventsFails(i, s) \/ SaveLockedEvents(i, s)
                 \/ UnlockSource(i, s) \/ UnlockSourceFails(i, s)
           \/ \E i \in Instances :
                 NextIteration(i) \/ BlockThread(i) \/ Start(i) \/ Crash(i)
                 \/ BeginShutdown(i) \/ Poll(i) \/ StartUnlocking(i) \/ StopThread(i)
                 \/ SyncCache(i)
           \/ \E c \in Copies : WorkerStep(c)
           \/ \E e \in Events : InsertEvent(e) \/ CheckEvent(e) \/ MarkForRedelivery(e)
                                \/ LockExpires(e) \/ RetryDue(e)
           \/ \E t \in Triggers : DropTrigger(t) \/ CreateTrigger(t)
           \/ UNCHANGED vars
BY DEF Next, InstanceStep, EnvironmentStep

\* The budgets stay within their bounds.
LEMMA BudgetTypes ==
    ASSUME TypeOK
    PROVE  /\ Fault => faults' \in 0 .. MaxFaults
           /\ Op => ops' \in 0 .. MaxOps
BY ConstantsAssumption DEF TypeOK, Fault, Op

\* A process that stops or crashes leaves well-typed memory behind.
LEMMA ForgetTypes ==
    ASSUME TypeOK, NEW i \in Instances, Forget(i)
    PROVE  /\ phase' \in [Instances -> {"down", "up", "waiting", "unlocking", "handled"}]
           /\ thread' \in [Instances -> {"forked", "initiated", "blocking"}]
           /\ pop' \in [Instances -> [Sources -> {"todo", "fetched", "done"}]]
           /\ copy' \in [Copies -> Copy]
           /\ capacity' \in [Instances -> Nat]
           /\ leEvents' \in [Instances -> [Sources -> Maybe(SUBSET Events)]]
           /\ polls' \in [Instances -> 0 .. GracefulPolls]
           /\ toUnlock' \in [Instances -> [Sources -> SUBSET Events]]
<1>1. /\ NoEntries \in [Sources -> Maybe(SUBSET Events)]
      /\ NoEntries \in [Sources -> SUBSET Events]
  BY DEF NoEntries, Maybe
<1>2. leEvents' \in [Instances -> [Sources -> Maybe(SUBSET Events)]]
  BY <1>1 DEF TypeOK, Forget
<1>3. toUnlock' \in [Instances -> [Sources -> SUBSET Events]]
  BY <1>1 DEF TypeOK, Forget
<1>4. copy' \in [Copies -> Copy]
  BY CopyTypes DEF TypeOK, Forget
<1>5. polls' \in [Instances -> 0 .. GracefulPolls]
  <2>1. 0 \in 0 .. GracefulPolls
    BY ConstantsAssumption
  <2> QED
    BY <2>1 DEF TypeOK, Forget
<1>6. pop' \in [Instances -> [Sources -> {"todo", "fetched", "done"}]]
  <2>1. [s \in Sources |-> "todo"] \in [Sources -> {"todo", "fetched", "done"}]
    OBVIOUS
  <2> QED
    BY <2>1 DEF TypeOK, Forget
<1>7. /\ phase' \in [Instances -> {"down", "up", "waiting", "unlocking", "handled"}]
      /\ thread' \in [Instances -> {"forked", "initiated", "blocking"}]
  BY DEF TypeOK, Forget
<1>8. capacity' \in [Instances -> Nat]
  BY ConstantsAssumption DEF TypeOK, Forget
<1>9. QED
  BY <1>2, <1>3, <1>4, <1>5, <1>6, <1>7, <1>8

\* An iteration of the loop keeps the types.
LEMMA IterationTypes ==
    ASSUME TypeOK, NEW i \in Instances, StartIteration(i)
    PROVE  /\ copy' \in [Copies -> Copy]
           /\ pop' \in [Instances -> [Sources -> {"todo", "fetched", "done"}]]
<1>1. "batch" \in Stages
  BY DEF Stages
<1>2. copy' \in [Copies -> Copy]
  BY <1>1, CopyTypes DEF StartIteration, TypeOK
<1>3. [s \in Sources |-> "todo"] \in [Sources -> {"todo", "fetched", "done"}]
  OBVIOUS
<1>4. QED
  BY <1>2, <1>3 DEF StartIteration, TypeOK

\* The event loop and its shutdown keep the types.
LEMMA LoopTypes ==
    ASSUME TypeOK, NEW i \in Instances,
           NextIteration(i) \/ BlockThread(i) \/ Start(i) \/ Crash(i)
           \/ BeginShutdown(i) \/ Poll(i) \/ StartUnlocking(i) \/ StopThread(i)
           \/ SyncCache(i)
    PROVE  TypeOK'
<1> USE ConstantsAssumption DEF dbVars, loopVars, shutVars, histVars, budgetVars
<1>1. CASE NextIteration(i)
  BY <1>1, IterationTypes DEF NextIteration, TypeOK
<1>2. CASE BlockThread(i)
  BY <1>2, IterationTypes DEF BlockThread, TypeOK
<1>3. CASE Start(i)
  BY <1>3 DEF Start, TypeOK
<1>4. CASE Crash(i) \/ StopThread(i)
  BY <1>4, ForgetTypes, BudgetTypes DEF Crash, StopThread, TypeOK
<1>5. CASE BeginShutdown(i)
  <2>1. polls' \in [Instances -> 0 .. GracefulPolls]
    <3>1. GracefulPolls \in 0 .. GracefulPolls
      BY ConstantsAssumption
    <3> QED
      BY <1>5, <3>1 DEF BeginShutdown, TypeOK
  <2> QED
    BY <1>5, <2>1, BudgetTypes DEF BeginShutdown, TypeOK
<1>6. CASE Poll(i)
  <2>1. polls' \in [Instances -> 0 .. GracefulPolls]
    <3>1. polls[i] > 0 => polls[i] - 1 \in 0 .. GracefulPolls
      BY ConstantsAssumption DEF TypeOK
    <3> QED
      BY <1>6, <3>1 DEF Poll, TypeOK
  <2>2. phase' \in [Instances -> {"down", "up", "waiting", "unlocking", "handled"}]
    BY <1>6 DEF Poll, TypeOK
  <2> QED
    BY <1>6, <2>1, <2>2 DEF Poll, TypeOK
<1>7. CASE StartUnlocking(i)
  <2>1. \A s \in Sources : UNION leEvents[i][s] \in SUBSET Events
    BY EntriesTypes DEF TypeOK
  <2>2. toUnlock' \in [Instances -> [Sources -> SUBSET Events]]
    BY <1>7, <2>1 DEF StartUnlocking, TypeOK
  <2> QED
    BY <1>7, <2>2 DEF StartUnlocking, TypeOK
<1>8. CASE SyncCache(i)
  BY <1>8 DEF SyncCache, TypeOK
<1> QED
  BY <1>1, <1>2, <1>3, <1>4, <1>5, <1>6, <1>7, <1>8

\* So do fetching, saving and unlocking the events of a source.
LEMMA SourceTypes ==
    ASSUME TypeOK, NEW i \in Instances, NEW s \in Sources,
           FetchEvents(i, s) \/ FetchEventsFails(i, s) \/ SaveLockedEvents(i, s)
           \/ UnlockSource(i, s) \/ UnlockSourceFails(i, s)
    PROVE  TypeOK'
<1> USE ConstantsAssumption DEF dbVars, loopVars, shutVars, histVars, budgetVars
<1>1. CASE FetchEvents(i, s)
  <2>0. PICK S \in SUBSET Fetchable(i, s) :
           \E gen \in [S -> Gens] :
              /\ log' = [e \in Events |-> IF e \in S THEN Lock(log[e]) ELSE log[e]]
              /\ copy' = [c \in Copies |->
                            IF c[1] = i /\ c[2] \in S /\ c[3] = gen[c[2]]
                            THEN [NoCopy EXCEPT !.stage = "popped", !.tries = log[c[2]].tries]
                            ELSE copy[c]]
              /\ pop' = [pop EXCEPT ![i][s] = IF S = {} THEN "done" ELSE "fetched"]
    BY <1>1 DEF FetchEvents
  <2>1. PICK gen \in [S -> Gens] :
           /\ log' = [e \in Events |-> IF e \in S THEN Lock(log[e]) ELSE log[e]]
           /\ copy' = [c \in Copies |->
                         IF c[1] = i /\ c[2] \in S /\ c[3] = gen[c[2]]
                         THEN [NoCopy EXCEPT !.stage = "popped", !.tries = log[c[2]].tries]
                         ELSE copy[c]]
           /\ pop' = [pop EXCEPT ![i][s] = IF S = {} THEN "done" ELSE "fetched"]
    BY <2>0
  <2>2. log' \in [Events -> Row]
    BY <2>1, RowTypes DEF TypeOK
  <2>3. \A c \in Copies : log[c[2]].tries \in Nat /\ copy[c] \in Copy
    BY DEF TypeOK, Copies, Row
  <2>4. copy' \in [Copies -> Copy]
    BY <2>1, <2>3, CopyTypes
  <2> QED
    BY <1>1, <2>1, <2>2, <2>4 DEF FetchEvents, TypeOK
<1>2. CASE FetchEventsFails(i, s)
  BY <1>2, BudgetTypes DEF FetchEventsFails, TypeOK
<1>3. CASE SaveLockedEvents(i, s)
  <2>1. PoppedEvents(i, s) \in SUBSET Events
    BY DEF PoppedEvents
  <2>2. WithLockedEvents(leEvents[i], s, PoppedEvents(i, s))
            \in [Sources -> Maybe(SUBSET Events)]
    BY <2>1, EntriesTypes DEF TypeOK
  <2>3. leEvents' \in [Instances -> [Sources -> Maybe(SUBSET Events)]]
    BY <1>3, <2>2 DEF SaveLockedEvents, TypeOK
  <2>4. copy' \in [Copies -> Copy]
    <3>1. "next" \in Stages
      BY DEF Stages
    <3> QED
      BY <1>3, <3>1, CopyTypes DEF SaveLockedEvents, TypeOK
  <2> QED
    BY <1>3, <2>3, <2>4 DEF SaveLockedEvents, TypeOK
<1>4. CASE UnlockSource(i, s)
  <2>1. log' \in [Events -> Row]
    BY <1>4, RowTypes DEF UnlockSource, TypeOK
  <2> QED
    <3>1. toUnlock' \in [Instances -> [Sources -> SUBSET Events]]
      BY <1>4 DEF UnlockSource, TypeOK
    <3>2. doubted' \subseteq Events
      BY <1>4 DEF UnlockSource, TypeOK
    <3> QED
      BY <1>4, <2>1, <3>1, <3>2 DEF UnlockSource, TypeOK
<1>5. CASE UnlockSourceFails(i, s)
  <2>1. toUnlock' \in [Instances -> [Sources -> SUBSET Events]]
    BY <1>5 DEF UnlockSourceFails, TypeOK
  <2> QED
    BY <1>5, <2>1, BudgetTypes DEF UnlockSourceFails, TypeOK
<1> QED
  BY <1>1, <1>2, <1>3, <1>4, <1>5

\* The processEvent threads keep the types.
LEMMA WorkerTypes ==
    ASSUME TypeOK, NEW c \in Copies, WorkerStep(c)
    PROVE  TypeOK'
<1> USE ConstantsAssumption DEF dbVars, loopVars, shutVars, histVars, budgetVars
<1>0. /\ c[1] \in Instances /\ c[2] \in Events
      /\ {"forked", "answered", "recorded"} \subseteq Stages
      /\ copy[c] \in Copy
  BY DEF Copies, Stages, TypeOK
<1>1. CASE ForkWorker(c)
  <2>1. copy' \in [Copies -> Copy]
    BY <1>0, <1>1, CopyTypes DEF ForkWorker, TakeCapacity, TypeOK
  <2> QED
    <3>1. capacity' \in [Instances -> Nat]
      BY <1>0, <1>1 DEF ForkWorker, TakeCapacity, TypeOK
    <3> QED
      BY <1>1, <2>1, <3>1 DEF ForkWorker, TakeCapacity, TypeOK
<1>2. CASE Attempt(c)
  <2>1. PICK outcome \in Outcomes :
           /\ copy' = [copy EXCEPT ![c].stage = "answered", ![c].outcome = outcome]
           /\ accepted' = IF outcome = "accepted" THEN accepted \cup {c[2]} ELSE accepted
    BY <1>2, OutcomeTypes DEF Attempt
  <2>2. copy' \in [Copies -> Copy]
    BY <1>0, <2>1, CopyTypes DEF TypeOK
  <2>3. accepted' \subseteq Events
    BY <1>0, <2>1 DEF TypeOK
  <2> QED
    BY <1>2, <2>2, <2>3 DEF Attempt, TypeOK
<1>3. CASE Record(c)
  <2>1. log' \in [Events -> Row]
    BY <1>0, <1>3, RecordTypes DEF Record, TypeOK
  <2>2. copy' \in [Copies -> Copy]
    BY <1>0, <1>3, CopyTypes DEF Record, TypeOK
  <2> QED
    BY <1>3, <2>1, <2>2 DEF Record, TypeOK
<1>4. CASE RecordFails(c)
  <2>1. copy' \in [Copies -> Copy]
    BY <1>0, <1>4, CopyTypes DEF RecordFails, TypeOK
  <2> QED
    BY <1>4, <2>1, BudgetTypes DEF RecordFails, TypeOK
<1>5. CASE FinishWorker(c)
  <2> DEFINE s == EventSource(c[2])
  <2>1. s \in Sources
    BY <1>0 DEF EventSource
  <2>2. {ids \ {c[2]} : ids \in leEvents[c[1]][s]} \in Maybe(SUBSET Events)
    <3>0. leEvents \in [Instances -> [Sources -> Maybe(SUBSET Events)]] /\ c[1] \in Instances
      BY <1>0 DEF TypeOK
    <3> DEFINE entries == leEvents[c[1]]  done == {c[2]}
    <3>1. entries \in [Sources -> Maybe(SUBSET Events)]
      BY <3>0
    <3>2. done \in SUBSET Events
      BY <1>0
    <3>3. {ids \ done : ids \in entries[s]} \in Maybe(SUBSET Events)
      <4> HIDE DEF s, entries, done
      <4> QED
        BY <2>1, <3>1, <3>2, EntriesTypes
    <3> QED
      BY <3>3
  <2>3. leEvents' = [leEvents EXCEPT ![c[1]][s] = {ids \ {c[2]} : ids \in leEvents[c[1]][s]}]
    BY <1>5 DEF FinishWorker
  <2> HIDE DEF s
  <2>4. leEvents' \in [Instances -> [Sources -> Maybe(SUBSET Events)]]
    BY <1>0, <2>1, <2>2, <2>3 DEF TypeOK
  <2>5. copy' \in [Copies -> Copy]
    BY <1>5, CopyTypes DEF FinishWorker, RestoreCapacity, TypeOK
  <2> QED
    <3>1. capacity' \in [Instances -> Nat]
      BY <1>0, <1>5 DEF FinishWorker, RestoreCapacity, TypeOK
    <3> QED
      BY <1>5, <2>4, <2>5, <3>1 DEF FinishWorker, RestoreCapacity, TypeOK
<1> QED
  BY <1>1, <1>2, <1>3, <1>4, <1>5 DEF WorkerStep

\* Users, redeliveries and the clock keep the types.
LEMMA EnvironmentTypes ==
    ASSUME TypeOK, EnvironmentStep PROVE TypeOK'
<1> USE DEF dbVars, loopVars, shutVars, histVars, budgetVars
<1>1. ASSUME NEW e \in Events,
             InsertEvent(e) \/ CheckEvent(e) \/ MarkForRedelivery(e)
             \/ LockExpires(e) \/ RetryDue(e)
      PROVE  TypeOK'
  <2>1. log[e] \in Row
    BY DEF TypeOK
  <2>2. CASE InsertEvent(e)
    BY <2>2 DEF InsertEvent, TypeOK
  <2>3. CASE CheckEvent(e)
    BY <2>3, BudgetTypes DEF CheckEvent, TypeOK
  <2>4. CASE MarkForRedelivery(e)
    <3>1. log' \in [Events -> Row]
      BY <2>1, <2>4, RowTypes DEF MarkForRedelivery, TypeOK
    <3> QED
      BY <2>4, <3>1 DEF MarkForRedelivery, TypeOK
  <2>5. CASE LockExpires(e)
    <3>1. log' \in [Events -> Row]
      BY <2>1, <2>5, RowTypes DEF LockExpires, TypeOK
    <3> QED
      BY <2>5, <3>1 DEF LockExpires, TypeOK
  <2>6. CASE RetryDue(e)
    <3>1. log' \in [Events -> Row]
      BY <2>1, <2>6, RowTypes DEF RetryDue, TypeOK
    <3> QED
      BY <2>6, <3>1 DEF RetryDue, TypeOK
  <2> QED
    BY <1>1, <2>2, <2>3, <2>4, <2>5, <2>6
<1>2. ASSUME NEW t \in Triggers, DropTrigger(t) PROVE TypeOK'
  <2>1. log' \in [Events -> Row]
    BY <1>2, RowTypes DEF DropTrigger, TypeOK
  <2> QED
    BY <1>2, <2>1, BudgetTypes DEF DropTrigger, TypeOK
<1>3. ASSUME NEW t \in Triggers, CreateTrigger(t) PROVE TypeOK'
  BY <1>3, BudgetTypes DEF CreateTrigger, TypeOK
<1> QED
  BY <1>1, <1>2, <1>3 DEF EnvironmentStep

\* Every reachable state has the type of TypeOK: in particular the map of locked
\* events has at most one set per source, and capacities are never negative.
THEOREM TypeCorrect == Spec => []TypeOK
<1>1. Init => TypeOK
  BY ConstantsAssumption
  DEF Init, TypeOK, Row, FreshRow, LockStates, RetryStates, Copy, NoCopy, Stages,
      Outcomes, Maybe, NoEntries
<1>2. TypeOK /\ [Next]_vars => TypeOK'
  <2> SUFFICES ASSUME TypeOK, [Next]_vars PROVE TypeOK'
    OBVIOUS
  <2>1. CASE UNCHANGED vars
    BY <2>1 DEF vars, TypeOK
  <2> QED
    BY <2>1, SourceTypes, LoopTypes, WorkerTypes, EnvironmentTypes DEF Next, InstanceStep
<1> QED
  BY <1>1, <1>2, PTL DEF Spec

-------------------------------------------------------------------------------
\* The part of the inductive invariant that is not about types.
Core == /\ OneCopy /\ RowAsFetched /\ OutcomesExplained /\ TriesLeft
        /\ OneOutcomeUnlessDoubted /\ ErrorMeansExhausted /\ TriesBounded
        /\ DeliveredWasAccepted

\* A step that touches no row and makes no copy preserves Core: what the loop,
\* the shutdown and a crash do to the memory of an instance.
LEMMA CopiesMoveOn ==
    ASSUME TypeOK, Core, log' = log, doubted' = doubted, accepted' = accepted,
           \A c \in Copies :
              /\ copy'[c].outcome \in {copy[c].outcome, "none"}
              /\ copy'[c].stage \in Unrecorded =>
                    copy[c].stage \in Unrecorded /\ copy'[c].tries = copy[c].tries
    PROVE  Core'
<1>1. OneCopy'
  BY DEF Core, OneCopy, IsUnrecorded
<1>2. RowAsFetched'
  BY DEF Core, RowAsFetched, IsUnrecorded
<1>3. OutcomesExplained'
  BY DEF Core, OutcomesExplained
<1>4. TriesLeft' /\ OneOutcomeUnlessDoubted' /\ ErrorMeansExhausted' /\ TriesBounded'
      /\ DeliveredWasAccepted'
  BY DEF Core, TriesLeft, OneOutcomeUnlessDoubted, ErrorMeansExhausted, TriesBounded,
         DeliveredWasAccepted
<1> QED
  BY <1>1, <1>2, <1>3, <1>4 DEF Core

\* A step from outside that changes rows but no copies preserves Core if it
\* doubts every event in flight whose lock it takes or whose tries it resets.
LEMMA RowsTouched ==
    ASSUME TypeOK, Core, copy' = copy, accepted' = accepted, doubted \subseteq doubted',
           \A e \in Events : log'[e].delivered => log[e].delivered,
           \A e \in Events \ doubted' :
              \/ /\ log'[e].delivered = log[e].delivered
                 /\ log'[e].error = log[e].error
                 /\ log'[e].tries = log[e].tries
              \/ /\ ~log'[e].delivered /\ ~log'[e].error /\ log'[e].tries = 0
                 /\ InFlight(e) = {},
           \A e \in Events \ doubted' : InFlight(e) # {} => log'[e].locked = log[e].locked
    PROVE  Core'
<1>0. \A c \in Copies : IsUnrecorded(c) => c[2] \in Events /\ InFlight(c[2]) # {}
  BY DEF IsUnrecorded, InFlight, Copies
<1>1. OneCopy'
  BY DEF Core, OneCopy, IsUnrecorded
<1>2. RowAsFetched'
  BY <1>0 DEF Core, RowAsFetched, IsUnrecorded
<1>3. OutcomesExplained'
  BY DEF Core, OutcomesExplained
<1>4. TriesLeft' /\ TriesBounded'
  <2>1. 0 <= NumRetries /\ 0 <= NumRetries + 1
    BY ConstantsAssumption
  <2>2. TriesLeft'
    BY <2>1 DEF Core, TriesLeft
  <2>3. TriesBounded'
    BY <2>1 DEF Core, TriesBounded
  <2> QED
    BY <2>2, <2>3
<1>5. OneOutcomeUnlessDoubted'
  BY DEF Core, OneOutcomeUnlessDoubted
<1>6. ErrorMeansExhausted'
  BY DEF Core, ErrorMeansExhausted
<1>7. DeliveredWasAccepted'
  BY DEF Core, DeliveredWasAccepted
<1> QED
  BY <1>1, <1>2, <1>3, <1>4, <1>5, <1>6, <1>7 DEF Core

\* A fetch locks rows of which no valid lock is held, so it cannot make a second
\* copy of an event unless the event is doubted.
LEMMA FetchKeepsCore ==
    ASSUME TypeOK, Core, NEW i \in Instances, NEW s \in Sources, FetchEvents(i, s)
    PROVE  Core'
<1>0. PICK S \in SUBSET Fetchable(i, s) :
         /\ IsBatch(S, Fetchable(i, s))
         /\ log' = [e \in Events |-> IF e \in S THEN Lock(log[e]) ELSE log[e]]
         /\ \E gen \in [S -> Gens] :
              /\ \A e \in S : gen[e] \in FreeGens(i, e)
              /\ copy' = [c \in Copies |->
                            IF c[1] = i /\ c[2] \in S /\ c[3] = gen[c[2]]
                            THEN [NoCopy EXCEPT !.stage = "popped", !.tries = log[c[2]].tries]
                            ELSE copy[c]]
  BY Zenon DEF FetchEvents
<1>1. PICK gen \in [S -> Gens] :
         /\ log' = [e \in Events |-> IF e \in S THEN Lock(log[e]) ELSE log[e]]
         /\ copy' = [c \in Copies |->
                       IF c[1] = i /\ c[2] \in S /\ c[3] = gen[c[2]]
                       THEN [NoCopy EXCEPT !.stage = "popped", !.tries = log[c[2]].tries]
                       ELSE copy[c]]
  BY <1>0
<1> DEFINE New(c) == c[1] = i /\ c[2] \in S /\ c[3] = gen[c[2]]
<1>2. doubted' = doubted /\ accepted' = accepted
  BY DEF FetchEvents, histVars
<1>3. \A e \in S : e \in Events /\ log[e].locked # "held" /\ ~log[e].delivered /\ ~log[e].error
  BY DEF Fetchable, IsFetchable, TypeOK, Row
<1>4. \A c \in Copies : IsUnrecorded(c) /\ c[2] \notin doubted => c[2] \notin S
  BY <1>3 DEF Core, RowAsFetched
<1>5. \A c \in Copies : c[2] \in Events /\ c = <<c[1], c[2], c[3]>>
  BY DEF Copies
<1>6. \A c \in Copies :
         IF New(c) THEN /\ copy'[c].stage = "popped"
                        /\ copy'[c].tries = log[c[2]].tries
                        /\ copy'[c].outcome = "none"
                   ELSE copy'[c] = copy[c]
  BY <1>1 DEF NoCopy
<1>7. \A e \in Events : /\ log'[e].delivered = log[e].delivered
                        /\ log'[e].error = log[e].error
                        /\ log'[e].tries = log[e].tries
                        /\ log'[e].locked = IF e \in S THEN "held" ELSE log[e].locked
  BY <1>1 DEF Lock, TypeOK, Row
<1>8. OneCopy'
  <2> SUFFICES ASSUME NEW c \in Copies, NEW d \in Copies,
                      IsUnrecorded(c)', IsUnrecorded(d)', c[2] = d[2], c[2] \notin doubted
               PROVE  c = d
    BY <1>2 DEF OneCopy
  <2>1. CASE c[2] \in S
    <3>1. New(c) /\ New(d)
      BY <1>4, <1>6, <2>1 DEF IsUnrecorded
    <3> QED
      BY <1>5, <3>1
  <2>2. CASE c[2] \notin S
    <3>1. IsUnrecorded(c) /\ IsUnrecorded(d)
      BY <1>6, <2>2 DEF IsUnrecorded
    <3> QED
      BY <3>1 DEF Core, OneCopy
  <2> QED
    BY <2>1, <2>2
<1>9. RowAsFetched'
  <2> SUFFICES ASSUME NEW c \in Copies, IsUnrecorded(c)', c[2] \notin doubted
               PROVE  /\ log'[c[2]].locked = "held"
                      /\ ~log'[c[2]].delivered /\ ~log'[c[2]].error
                      /\ log'[c[2]].tries = copy'[c].tries
    BY <1>2 DEF RowAsFetched
  <2>1. CASE New(c)
    BY <1>3, <1>5, <1>6, <1>7, <2>1
  <2>2. CASE ~New(c)
    <3>1. IsUnrecorded(c) /\ copy'[c] = copy[c]
      BY <1>6, <2>2 DEF IsUnrecorded
    <3> QED
      BY <1>4, <1>5, <1>7, <3>1 DEF Core, RowAsFetched
  <2> QED
    BY <2>1, <2>2
<1>10. OutcomesExplained'
  BY <1>2, <1>6 DEF Core, OutcomesExplained
<1>11. TriesLeft' /\ OneOutcomeUnlessDoubted' /\ ErrorMeansExhausted' /\ TriesBounded'
       /\ DeliveredWasAccepted'
  BY <1>2, <1>7 DEF Core, TriesLeft, OneOutcomeUnlessDoubted, ErrorMeansExhausted,
                    TriesBounded, DeliveredWasAccepted
<1> QED
  BY <1>8, <1>9, <1>10, <1>11 DEF Core

\* The attempt only remembers the outcome.
LEMMA AttemptKeepsCore ==
    ASSUME TypeOK, Core, NEW c \in Copies, Attempt(c) PROVE Core'
<1>1. PICK outcome \in PossibleOutcomes(c[1], c[2], copy[c].tries) :
         /\ copy' = [copy EXCEPT ![c].stage = "answered", ![c].outcome = outcome]
         /\ accepted' = IF outcome = "accepted" THEN accepted \cup {c[2]} ELSE accepted
  BY DEF Attempt
<1>2. log' = log /\ doubted' = doubted /\ accepted \subseteq accepted'
  BY <1>1 DEF Attempt, dbVars
<1>3. /\ IsUnrecorded(c)
      /\ copy'[c].stage = "answered" /\ copy'[c].tries = copy[c].tries
      /\ copy'[c].outcome = outcome
      /\ \A d \in Copies : d # c => copy'[d] = copy[d]
  BY <1>1 DEF Attempt, IsUnrecorded, Unrecorded, TypeOK, Copy
<1>4. \A d \in Copies : IsUnrecorded(d)' => IsUnrecorded(d) /\ copy'[d].tries = copy[d].tries
  BY <1>3 DEF IsUnrecorded
<1>5. OneCopy'
  BY <1>2, <1>4 DEF Core, OneCopy
<1>6. RowAsFetched'
  BY <1>2, <1>4 DEF Core, RowAsFetched
<1>7. OutcomesExplained'
  <2>1. /\ outcome = "retryAfter" => c[2] \in Throttled
        /\ outcome = "untransformable" => c[2] \in Untransformable
        /\ outcome = "accepted" => c[2] \in accepted'
    BY <1>1 DEF PossibleOutcomes
  <2> QED
    BY <1>2, <1>3, <2>1 DEF Core, OutcomesExplained
<1>8. TriesLeft' /\ OneOutcomeUnlessDoubted' /\ ErrorMeansExhausted' /\ TriesBounded'
      /\ DeliveredWasAccepted'
  BY <1>2 DEF Core, TriesLeft, OneOutcomeUnlessDoubted, ErrorMeansExhausted,
              TriesBounded, DeliveredWasAccepted
<1> QED
  BY <1>5, <1>6, <1>7, <1>8 DEF Core

\* What the recording transaction does to a row.
LEMMA RecordEffect ==
    ASSUME NEW row \in Row, NEW c \in Copy, NEW new, new = RecordOutcome(row, c)
    PROVE  \/ /\ c.outcome = "missing"
              /\ new.delivered = row.delivered /\ new.error = row.error
              /\ new.tries = row.tries
           \/ /\ c.outcome = "accepted"
              /\ new.delivered /\ new.error = row.error /\ new.tries = row.tries + 1
           \/ /\ c.outcome = "untransformable"
              /\ new.error /\ new.delivered = row.delivered /\ new.tries = row.tries
           \/ /\ c.outcome = "retryAfter"
              /\ new.delivered = row.delivered /\ new.error = row.error
              /\ new.tries = row.tries + 1
           \/ /\ c.tries >= NumRetries
              /\ new.error /\ new.delivered = row.delivered /\ new.tries = row.tries + 1
           \/ /\ ~(c.tries >= NumRetries)
              /\ new.delivered = row.delivered /\ new.error = row.error
              /\ new.tries = row.tries + 1
<1>1. \A r \in Row :
        /\ SetRetry(r).delivered = r.delivered /\ SetRetry(r).error = r.error
        /\ SetRetry(r).tries = r.tries
        /\ SetError(r).delivered = r.delivered /\ SetError(r).error
        /\ SetError(r).tries = r.tries
        /\ SetSuccess(r).delivered /\ SetSuccess(r).error = r.error
        /\ SetSuccess(r).tries = r.tries
  BY DEF SetRetry, SetError, SetSuccess, Row
<1>2. /\ CountTry(row) \in Row /\ CountTry(row).tries = row.tries + 1
      /\ CountTry(row).delivered = row.delivered /\ CountTry(row).error = row.error
  BY DEF CountTry, Row
<1> QED
  BY <1>1, <1>2 DEF RecordOutcome, TriesExhausted

\* Recording takes the only unrecorded copy away and writes a row that had a try
\* left.
LEMMA RecordKeepsCore ==
    ASSUME TypeOK, Core, NEW c \in Copies, Record(c) PROVE Core'
<1> DEFINE e == c[2]
<1>0. e \in Events /\ log[e] \in Row /\ copy[c] \in Copy /\ log[e].tries \in Nat
      /\ copy[c].tries \in Nat
  BY DEF TypeOK, Copies, Row, Copy
<1>1. /\ log' = [log EXCEPT ![e] = RecordOutcome(log[e], copy[c])]
      /\ copy' = [copy EXCEPT ![c].stage = "recorded"]
      /\ doubted' = doubted /\ accepted' = accepted
      /\ IsUnrecorded(c)
  BY DEF Record, histVars, IsUnrecorded, Unrecorded
<1>2. /\ ~IsUnrecorded(c)' /\ copy'[c].outcome = copy[c].outcome
      /\ \A d \in Copies : d # c => copy'[d] = copy[d]
  BY <1>1 DEF IsUnrecorded, Unrecorded, TypeOK, Copy
<1>3. /\ \A f \in Events : f # e => log'[f] = log[f]
      /\ log'[e] = RecordOutcome(log[e], copy[c])
  BY <1>0, <1>1 DEF TypeOK
<1>4. OneCopy'
  BY <1>1, <1>2 DEF Core, OneCopy, IsUnrecorded
<1>5. RowAsFetched'
  <2> SUFFICES ASSUME NEW d \in Copies, IsUnrecorded(d)', d[2] \notin doubted
               PROVE  /\ log'[d[2]].locked = "held"
                      /\ ~log'[d[2]].delivered /\ ~log'[d[2]].error
                      /\ log'[d[2]].tries = copy'[d].tries
    BY <1>1 DEF RowAsFetched
  <2>1. d # c /\ copy'[d] = copy[d] /\ IsUnrecorded(d)
    BY <1>2 DEF IsUnrecorded
  <2>2. d[2] # e /\ d[2] \in Events
    BY <1>1, <2>1 DEF Core, OneCopy, Copies
  <2> QED
    BY <1>3, <2>1, <2>2 DEF Core, RowAsFetched
<1>6. OutcomesExplained'
  BY <1>1, <1>2 DEF Core, OutcomesExplained
<1> HIDE DEF e
<1>7. e \notin doubted => /\ ~log[e].delivered /\ ~log[e].error
                          /\ log[e].tries = copy[c].tries
  BY <1>1 DEF Core, RowAsFetched, e
<1>8. DeliveredWasAccepted'
  <2>1. copy[c].outcome = "accepted" => e \in accepted
    BY DEF Core, OutcomesExplained, e
  <2>2. log'[e].delivered => log[e].delivered \/ copy[c].outcome = "accepted"
    BY <1>0, <1>3, RecordEffect
  <2> QED
    BY <1>1, <1>3, <2>1, <2>2 DEF Core, DeliveredWasAccepted
<1>9. OneOutcomeUnlessDoubted'
  <2>1. e \notin doubted => ~(log'[e].delivered /\ log'[e].error)
    BY <1>0, <1>3, <1>7, RecordEffect
  <2> QED
    BY <1>1, <1>3, <2>1 DEF Core, OneOutcomeUnlessDoubted
<1>10. ErrorMeansExhausted'
  <2>1. ASSUME e \notin doubted, e \notin Untransformable, log'[e].error
        PROVE  log'[e].tries > NumRetries
    <3>1. copy[c].outcome # "untransformable"
      BY <2>1 DEF Core, OutcomesExplained, e
    <3>2. copy[c].tries >= NumRetries /\ log'[e].tries = log[e].tries + 1
      BY <1>0, <1>3, <1>7, <2>1, <3>1, RecordEffect
    <3> QED
      BY <1>0, <1>7, <2>1, <3>2, ConstantsAssumption
  <2> QED
    BY <1>1, <1>3, <2>1 DEF Core, ErrorMeansExhausted
<1>11. TriesBounded'
  <2>1. ASSUME e \notin doubted, e \notin Throttled
        PROVE  log'[e].tries <= NumRetries + 1
    <3>1. log[e].tries <= NumRetries
      BY <1>0, <1>7, <2>1 DEF Core, TriesLeft
    <3>2. log'[e].tries = log[e].tries \/ log'[e].tries = log[e].tries + 1
      BY <1>0, <1>3, RecordEffect
    <3> QED
      BY <1>0, <3>1, <3>2, ConstantsAssumption
  <2> QED
    BY <1>1, <1>3, <2>1 DEF Core, TriesBounded
<1>12. TriesLeft'
  <2>1. ASSUME e \notin doubted, e \notin Throttled, ~log'[e].delivered, ~log'[e].error
        PROVE  log'[e].tries <= NumRetries
    <3>1. log[e].tries <= NumRetries
      BY <1>0, <1>7, <2>1 DEF Core, TriesLeft
    <3>2. copy[c].outcome # "retryAfter"
      BY <2>1 DEF Core, OutcomesExplained, e
    <3>3. \/ log'[e].tries = log[e].tries
          \/ log'[e].tries = log[e].tries + 1 /\ ~(copy[c].tries >= NumRetries)
      BY <1>0, <1>3, <2>1, <3>2, RecordEffect
    <3> QED
      BY <1>0, <1>7, <2>1, <3>1, <3>3, ConstantsAssumption
  <2> QED
    BY <1>1, <1>3, <2>1 DEF Core, TriesLeft
<1> QED
  BY <1>4, <1>5, <1>6, <1>8, <1>9, <1>10, <1>11, <1>12 DEF Core

\* Unlocking, expiry, a due retry, an archived trigger and a redelivery.
LEMMA OutsideKeepsCore ==
    ASSUME TypeOK, Core,
           \/ \E i \in Instances, s \in Sources : UnlockSource(i, s)
           \/ \E e \in Events : MarkForRedelivery(e) \/ LockExpires(e) \/ RetryDue(e)
           \/ \E t \in Triggers : DropTrigger(t)
    PROVE  Core'
<1> USE DEF histVars
<1>0. \A e \in Events : log[e] \in Row
  BY DEF TypeOK
<1>1. ASSUME NEW i \in Instances, NEW s \in Sources, UnlockSource(i, s) PROVE Core'
  <2>1. /\ copy' = copy /\ accepted' = accepted /\ doubted \subseteq doubted'
        /\ log' = [e \in Events |-> IF e \in toUnlock[i][s] THEN Unlock(log[e]) ELSE log[e]]
        /\ \A e \in Events \ doubted' :
              e \in toUnlock[i][s] /\ InFlight(e) # {} => log[e].locked # "held"
    BY <1>1 DEF UnlockSource
  <2>2. \A e \in Events : /\ log'[e].delivered = log[e].delivered
                          /\ log'[e].error = log[e].error
                          /\ log'[e].tries = log[e].tries
                          /\ e \notin toUnlock[i][s] => log'[e] = log[e]
    BY <1>0, <2>1 DEF Unlock, Row
  <2>3. \A e \in Events \ doubted' : InFlight(e) # {} => log[e].locked = "held"
    BY <2>1 DEF Core, RowAsFetched, InFlight, IsUnrecorded
  <2> QED
    BY <2>1, <2>2, <2>3, RowsTouched
<1>2. ASSUME NEW e \in Events, MarkForRedelivery(e) PROVE Core'
  <2>1. /\ copy' = copy /\ accepted' = accepted /\ doubted \subseteq doubted'
        /\ log' = [log EXCEPT ![e] = MarkForDelivery(log[e])]
        /\ e \notin doubted' => InFlight(e) = {}
    BY <1>2 DEF MarkForRedelivery
  <2>2. /\ ~log'[e].delivered /\ ~log'[e].error /\ log'[e].tries = 0
        /\ \A f \in Events : f # e => log'[f] = log[f]
    BY <1>0, <2>1 DEF MarkForDelivery, Row, TypeOK
  <2> QED
    BY <2>1, <2>2, RowsTouched
<1>3. ASSUME NEW e \in Events, LockExpires(e) PROVE Core'
  <2>1. /\ copy' = copy /\ accepted' = accepted /\ doubted \subseteq doubted'
        /\ log' = [log EXCEPT ![e].locked = "stale"]
        /\ e \notin doubted' => InFlight(e) = {}
    BY <1>3 DEF LockExpires
  <2>2. /\ log'[e].delivered = log[e].delivered /\ log'[e].error = log[e].error
        /\ log'[e].tries = log[e].tries
        /\ \A f \in Events : f # e => log'[f] = log[f]
    BY <1>0, <2>1 DEF Row, TypeOK
  <2> QED
    BY <2>1, <2>2, RowsTouched
<1>4. ASSUME NEW e \in Events, RetryDue(e) PROVE Core'
  <2>1. /\ copy' = copy /\ accepted' = accepted /\ doubted' = doubted
        /\ log' = [log EXCEPT ![e].retry = "due"]
    BY <1>4 DEF RetryDue
  <2>2. \A f \in Events : /\ log'[f].delivered = log[f].delivered
                          /\ log'[f].error = log[f].error
                          /\ log'[f].tries = log[f].tries
                          /\ log'[f].locked = log[f].locked
    BY <1>0, <2>1 DEF Row, TypeOK
  <2> QED
    BY <2>1, <2>2, RowsTouched
<1>5. ASSUME NEW t \in Triggers, DropTrigger(t) PROVE Core'
  <2>1. /\ copy' = copy /\ accepted' = accepted /\ doubted' = doubted
        /\ log' = [e \in Events |-> IF e \in inserted /\ TriggerOf[e] = t
                                    THEN Archive(log[e]) ELSE log[e]]
    BY <1>5 DEF DropTrigger
  <2>2. \A f \in Events : /\ log'[f].delivered = log[f].delivered
                          /\ log'[f].error = log[f].error
                          /\ log'[f].tries = log[f].tries
                          /\ log'[f].locked = log[f].locked
    BY <1>0, <2>1 DEF Archive, Row
  <2> QED
    BY <2>1, <2>2, RowsTouched
<1> QED
  BY <1>1, <1>2, <1>3, <1>4, <1>5

\* The loop, the shutdown, the bookkeeping of the workers and a crash.
LEMMA MemoryKeepsCore ==
    ASSUME TypeOK, Core,
           \/ \E i \in Instances, s \in Sources :
                 FetchEventsFails(i, s) \/ SaveLockedEvents(i, s) \/ UnlockSourceFails(i, s)
           \/ \E i \in Instances :
                 NextIteration(i) \/ BlockThread(i) \/ Start(i) \/ Crash(i)
                 \/ BeginShutdown(i) \/ Poll(i) \/ StartUnlocking(i) \/ StopThread(i)
                 \/ SyncCache(i)
           \/ \E c \in Copies : ForkWorker(c) \/ RecordFails(c) \/ FinishWorker(c)
           \/ \E e \in Events : InsertEvent(e) \/ CheckEvent(e)
           \/ \E t \in Triggers : CreateTrigger(t)
           \/ UNCHANGED vars
    PROVE  Core'
<1> USE DEF dbVars, histVars
<1>0. \A c \in Copies : copy[c] \in Copy
  BY DEF TypeOK
<1> DEFINE MovesOn ==
      /\ log' = log /\ doubted' = doubted /\ accepted' = accepted
      /\ \A c \in Copies :
            /\ copy'[c].outcome \in {copy[c].outcome, "none"}
            /\ copy'[c].stage \in Unrecorded =>
                  copy[c].stage \in Unrecorded /\ copy'[c].tries = copy[c].tries
<1>1. ASSUME NEW i \in Instances, NEW s \in Sources,
             FetchEventsFails(i, s) \/ UnlockSourceFails(i, s)
      PROVE  MovesOn
  BY <1>1 DEF FetchEventsFails, UnlockSourceFails
<1>2. ASSUME NEW i \in Instances, NEW s \in Sources, SaveLockedEvents(i, s) PROVE MovesOn
  BY <1>0, <1>2 DEF SaveLockedEvents, Copy, Unrecorded
<1>3. ASSUME NEW i \in Instances, NextIteration(i) \/ BlockThread(i) PROVE MovesOn
  BY <1>0, <1>3 DEF NextIteration, BlockThread, StartIteration, Copy, Unrecorded
<1>4. ASSUME NEW i \in Instances,
             Start(i) \/ BeginShutdown(i) \/ Poll(i)
             \/ StartUnlocking(i) \/ SyncCache(i)
      PROVE  MovesOn
  BY <1>4 DEF Start, BeginShutdown, Poll, StartUnlocking, SyncCache
<1>5. ASSUME NEW i \in Instances, Crash(i) \/ StopThread(i) PROVE MovesOn
  <2>1. copy' = [c \in Copies |-> IF c[1] = i THEN NoCopy ELSE copy[c]]
    BY <1>5 DEF Crash, StopThread, Forget
  <2> QED
    BY <1>5, <2>1 DEF Crash, StopThread, NoCopy, Unrecorded
<1>6. ASSUME NEW c \in Copies, ForkWorker(c) \/ RecordFails(c) PROVE MovesOn
  <2>1. PICK stage \in {"forked", "recorded"} :
           copy' = [copy EXCEPT ![c].stage = stage] /\ copy[c].stage \in Unrecorded
    BY <1>6 DEF ForkWorker, RecordFails, Unrecorded
  <2>2. /\ copy'[c].outcome = copy[c].outcome /\ copy'[c].tries = copy[c].tries
        /\ \A d \in Copies : d # c => copy'[d] = copy[d]
    BY <1>0, <2>1 DEF TypeOK, Copy
  <2>3. log' = log /\ doubted' = doubted /\ accepted' = accepted
    BY <1>6 DEF ForkWorker, RecordFails
  <2> QED
    BY <2>1, <2>2, <2>3
<1>7. ASSUME NEW c \in Copies, FinishWorker(c) PROVE MovesOn
  BY <1>0, <1>7 DEF FinishWorker, NoCopy, Unrecorded, TypeOK
<1>8. ASSUME NEW e \in Events, InsertEvent(e) \/ CheckEvent(e) PROVE MovesOn
  BY <1>8 DEF InsertEvent, CheckEvent
<1>9. ASSUME NEW t \in Triggers, CreateTrigger(t) PROVE MovesOn
  BY <1>9 DEF CreateTrigger
<1>10. ASSUME UNCHANGED vars PROVE MovesOn
  BY <1>10 DEF vars
<1>11. MovesOn
  BY <1>1, <1>2, <1>3, <1>4, <1>5, <1>6, <1>7, <1>8, <1>9, <1>10 DEF vars
<1> QED
  BY <1>11, CopiesMoveOn

-------------------------------------------------------------------------------
\* The inductive invariant holds in every reachable state.
THEOREM InvariantHolds == Spec => []IInv
<1>1. Init => Core
  BY ConstantsAssumption
  DEF Init, Core, OneCopy, RowAsFetched, OutcomesExplained, TriesLeft,
      OneOutcomeUnlessDoubted, ErrorMeansExhausted, TriesBounded, DeliveredWasAccepted,
      IsUnrecorded, Unrecorded, NoCopy, FreshRow
<1>2. TypeOK /\ Core /\ [Next]_vars => Core'
  <2> SUFFICES ASSUME TypeOK, Core, [Next]_vars PROVE Core'
    OBVIOUS
  <2> QED
    BY NextCases, FetchKeepsCore, AttemptKeepsCore, RecordKeepsCore, OutsideKeepsCore,
       MemoryKeepsCore DEF WorkerStep
<1>3. TypeOK /\ Core => IInv
  BY DEF Core, IInv
<1> QED
  BY <1>1, <1>2, <1>3, TypeCorrect, PTL DEF Spec

\* No event that is not doubted is processed twice at the same time.
THEOREM Exclusive == Spec => []ExclusiveUnlessDoubted
<1>1. IInv => ExclusiveUnlessDoubted
  <2> SUFFICES ASSUME IInv, NEW e \in Events, e \notin doubted
               PROVE  /\ Cardinality(InFlight(e)) <= 1
                      /\ InFlight(e) # {} => log[e].locked = "held"
    BY DEF ExclusiveUnlessDoubted
  <2>1. \A c, d \in InFlight(e) : c = d
    BY DEF IInv, OneCopy, InFlight, IsUnrecorded
  <2>2. InFlight(e) # {} => log[e].locked = "held"
    BY DEF IInv, RowAsFetched, InFlight, IsUnrecorded
  <2>3. CASE InFlight(e) = {}
    BY <2>3, FS_EmptySet
  <2>4. CASE InFlight(e) # {}
    <3>1. PICK c : InFlight(e) = {c}
      BY <2>1, <2>4
    <3>2. Cardinality(InFlight(e)) = 1
      BY <3>1, FS_Singleton
    <3> QED
      BY <2>2, <3>2
  <2> QED
    BY <2>2, <2>3, <2>4
<1> QED
  BY <1>1, InvariantHolds, PTL

\* A row never holds two outcomes unless its event was doubted, and a delivered event
\* was accepted by a webhook.
THEOREM OutcomesRecorded == Spec => []OutcomesRight
<1>1. IInv => OutcomesRight
  BY DEF IInv, OutcomesRight
<1> QED
  BY <1>1, InvariantHolds, PTL

\* The retries are used up before an event fails, and not exceeded.
THEOREM RetriesRespected == Spec => []RetriesRight
<1>1. IInv => RetriesRight
  BY DEF IInv, RetriesRight
<1> QED
  BY <1>1, InvariantHolds, PTL

-------------------------------------------------------------------------------
(* The capacity *)

\* CapacityConserved, with the workers finite in number, so that they can be counted.
Counted ==
    \A i \in Instances :
        IsFiniteSet(Workers(i)) /\ capacity[i] + Cardinality(Workers(i)) = HttpPoolSize

\* No worker starts or ends, and no capacity is taken or restored.
SameWorkers ==
    /\ capacity' = capacity
    /\ \A c \in Copies : copy'[c].stage \in Working <=> copy[c].stage \in Working

LEMMA SameWorkersCounted == ASSUME Counted, SameWorkers PROVE Counted'
<1>1. \A i \in Instances : Workers(i)' = Workers(i)
  BY DEF SameWorkers, Workers
<1> QED
  BY <1>1 DEF Counted, SameWorkers

\* A crash or a stop ends all workers of an instance and none of another.
LEMMA ForgetCounted ==
    ASSUME TypeOK, Counted, NEW i \in Instances, Forget(i)
    PROVE  Counted'
<1>1. /\ capacity'[i] = HttpPoolSize
      /\ \A j \in Instances : j # i => capacity'[j] = capacity[j]
  BY DEF Forget, TypeOK
<1>2. Workers(i)' = {}
  BY DEF Forget, Workers, NoCopy, Working
<1>3. \A j \in Instances : j # i => Workers(j)' = Workers(j)
  BY DEF Forget, Workers
<1>4. IsFiniteSet({}) /\ Cardinality({}) = 0
  BY FS_EmptySet
<1>5. HttpPoolSize + 0 = HttpPoolSize
  BY ConstantsAssumption
<1> QED
  BY <1>1, <1>2, <1>3, <1>4, <1>5 DEF Counted

\* go takes the capacity for the worker it forks.
LEMMA ForkCounted ==
    ASSUME TypeOK, Counted, NEW c \in Copies, ForkWorker(c)
    PROVE  Counted'
<1>0. c[1] \in Instances
  BY DEF Copies
<1> DEFINE i == c[1]
<1>1. /\ capacity[i] \in Nat /\ capacity'[i] = capacity[i] - 1
      /\ \A j \in Instances : j # i => capacity'[j] = capacity[j]
  BY <1>0 DEF ForkWorker, TakeCapacity, TypeOK
<1>2. /\ copy[c].stage = "batch" /\ copy'[c].stage = "forked"
      /\ \A d \in Copies : d # c => copy'[d] = copy[d]
  BY DEF ForkWorker, TypeOK, Copy
<1>3. c \notin Workers(i) /\ Workers(i)' = Workers(i) \cup {c}
  BY <1>2 DEF Workers, Working
<1>4. \A j \in Instances : j # i => Workers(j)' = Workers(j)
  BY <1>2 DEF Workers, Working
<1>5. IsFiniteSet(Workers(i)) /\ capacity[i] + Cardinality(Workers(i)) = HttpPoolSize
  BY <1>0 DEF Counted
<1>6. /\ IsFiniteSet(Workers(i)') /\ Cardinality(Workers(i)') = Cardinality(Workers(i)) + 1
      /\ Cardinality(Workers(i)) \in Nat
  BY <1>3, <1>5, FS_AddElement, FS_CardinalityType
<1>7. capacity'[i] + Cardinality(Workers(i)') = HttpPoolSize
  BY <1>1, <1>5, <1>6
<1> QED
  BY <1>1, <1>4, <1>6, <1>7 DEF Counted

\* The finally of the worker restores it.
LEMMA FinishCounted ==
    ASSUME TypeOK, Counted, NEW c \in Copies, FinishWorker(c)
    PROVE  Counted'
<1>0. c[1] \in Instances
  BY DEF Copies
<1> DEFINE i == c[1]
<1>1. /\ capacity[i] \in Nat /\ capacity'[i] = capacity[i] + 1
      /\ \A j \in Instances : j # i => capacity'[j] = capacity[j]
  BY <1>0 DEF FinishWorker, RestoreCapacity, TypeOK
<1>2. /\ copy[c].stage = "recorded" /\ copy'[c] = NoCopy
      /\ \A d \in Copies : d # c => copy'[d] = copy[d]
  BY DEF FinishWorker, TypeOK
<1>3. c \in Workers(i) /\ Workers(i)' = Workers(i) \ {c}
  BY <1>2 DEF Workers, Working, NoCopy
<1>4. \A j \in Instances : j # i => Workers(j)' = Workers(j)
  BY <1>2 DEF Workers, Working
<1>5. IsFiniteSet(Workers(i)) /\ capacity[i] + Cardinality(Workers(i)) = HttpPoolSize
  BY <1>0 DEF Counted
<1>6. /\ IsFiniteSet(Workers(i)') /\ Cardinality(Workers(i)') = Cardinality(Workers(i)) - 1
      /\ Cardinality(Workers(i)) \in Nat
  BY <1>3, <1>5, FS_RemoveElement, FS_CardinalityType
<1>7. capacity'[i] + Cardinality(Workers(i)') = HttpPoolSize
  BY <1>1, <1>5, <1>6
<1> QED
  BY <1>1, <1>4, <1>6, <1>7 DEF Counted

\* Every other step leaves workers and capacity alone.
LEMMA OthersCounted ==
    ASSUME TypeOK, [Next]_vars, \A i \in Instances : ~Forget(i),
           \A c \in Copies : ~ForkWorker(c) /\ ~FinishWorker(c)
    PROVE  SameWorkers
<1>0. \A c \in Copies : copy[c] \in Copy
  BY DEF TypeOK
<1>1. ASSUME NEW i \in Instances, NEW s \in Sources, FetchEvents(i, s)
      PROVE  SameWorkers
  <2>1. PICK S \in SUBSET Fetchable(i, s) :
           \E gen \in [S -> Gens] :
              /\ \A e \in S : gen[e] \in FreeGens(i, e)
              /\ copy' = [c \in Copies |->
                            IF c[1] = i /\ c[2] \in S /\ c[3] = gen[c[2]]
                            THEN [NoCopy EXCEPT !.stage = "popped", !.tries = log[c[2]].tries]
                            ELSE copy[c]]
    BY <1>1 DEF FetchEvents
  <2>2. PICK gen \in [S -> Gens] :
           /\ \A e \in S : gen[e] \in FreeGens(i, e)
           /\ copy' = [c \in Copies |->
                         IF c[1] = i /\ c[2] \in S /\ c[3] = gen[c[2]]
                         THEN [NoCopy EXCEPT !.stage = "popped", !.tries = log[c[2]].tries]
                         ELSE copy[c]]
    BY <2>1
  <2>3. ASSUME NEW c \in Copies, c[1] = i, c[2] \in S, c[3] = gen[c[2]]
        PROVE  copy[c] = NoCopy /\ copy'[c].stage = "popped"
    <3>1. c = <<i, c[2], c[3]>>
      BY <2>3 DEF Copies
    <3>2. copy[<<i, c[2], gen[c[2]]>>] = NoCopy
      BY <2>2, <2>3 DEF FreeGens
    <3> QED
      BY <2>2, <2>3, <3>1, <3>2 DEF NoCopy
  <2>4. \A c \in Copies : ~(c[1] = i /\ c[2] \in S /\ c[3] = gen[c[2]]) => copy'[c] = copy[c]
    BY <2>2
  <2>5. capacity' = capacity
    BY <1>1 DEF FetchEvents
  <2> QED
    BY <2>3, <2>4, <2>5 DEF SameWorkers, Working, NoCopy
<1>2. ASSUME NEW i \in Instances, NEW s \in Sources, SaveLockedEvents(i, s)
      PROVE  SameWorkers
  BY <1>0, <1>2 DEF SaveLockedEvents, SameWorkers, Working, Copy
<1>3. ASSUME NEW i \in Instances, NextIteration(i) \/ BlockThread(i)
      PROVE  SameWorkers
  BY <1>0, <1>3 DEF NextIteration, BlockThread, StartIteration, SameWorkers, Working, Copy
<1>4. ASSUME NEW c \in Copies, Attempt(c) \/ Record(c) \/ RecordFails(c)
      PROVE  SameWorkers
  <2>1. /\ capacity' = capacity /\ copy[c].stage \in Working /\ copy'[c].stage \in Working
        /\ \A d \in Copies : d # c => copy'[d] = copy[d]
    BY <1>0, <1>4 DEF Attempt, Record, RecordFails, TypeOK, Copy, Working
  <2> QED
    BY <2>1 DEF SameWorkers
<1>5. ASSUME copy' = copy, capacity' = capacity
      PROVE  SameWorkers
  BY <1>5 DEF SameWorkers
<1>6. ASSUME NEW i \in Instances, NEW s \in Sources,
             FetchEventsFails(i, s) \/ UnlockSource(i, s) \/ UnlockSourceFails(i, s)
      PROVE  SameWorkers
  BY <1>5, <1>6 DEF FetchEventsFails, UnlockSource, UnlockSourceFails
<1>7. ASSUME NEW i \in Instances,
             Start(i) \/ BeginShutdown(i) \/ Poll(i) \/ StartUnlocking(i) \/ SyncCache(i)
      PROVE  SameWorkers
  BY <1>5, <1>7 DEF Start, BeginShutdown, Poll, StartUnlocking, SyncCache
<1>8. CASE EnvironmentStep
  BY <1>5, <1>8 DEF EnvironmentStep, InsertEvent, CheckEvent, MarkForRedelivery, LockExpires,
                    RetryDue, DropTrigger, CreateTrigger
<1>9. CASE UNCHANGED vars
  BY <1>5, <1>9 DEF vars
<1>10. \A i \in Instances : ~Crash(i) /\ ~StopThread(i)
  BY DEF Crash, StopThread
<1> QED
  BY <1>1, <1>2, <1>3, <1>4, <1>6, <1>7, <1>8, <1>9, <1>10 DEF Next, InstanceStep, WorkerStep

\* Whatever crashes, stops or fails, capacity and workers add up to the pool size.
THEOREM CapacityHolds == Spec => []CapacityConserved
<1>1. Init => Counted
  <2> SUFFICES ASSUME Init, NEW i \in Instances
               PROVE  IsFiniteSet(Workers(i)) /\ capacity[i] + Cardinality(Workers(i)) = HttpPoolSize
    BY DEF Counted
  <2>1. Workers(i) = {} /\ capacity[i] = HttpPoolSize
    BY DEF Init, Workers, NoCopy, Working
  <2>2. IsFiniteSet({}) /\ Cardinality({}) = 0
    BY FS_EmptySet
  <2>3. HttpPoolSize + 0 = HttpPoolSize
    BY ConstantsAssumption
  <2> QED
    BY <2>1, <2>2, <2>3
<1>2. TypeOK /\ Counted /\ [Next]_vars => Counted'
  <2> SUFFICES ASSUME TypeOK, Counted, [Next]_vars PROVE Counted'
    OBVIOUS
  <2> QED
    BY ForgetCounted, ForkCounted, FinishCounted, OthersCounted, SameWorkersCounted
<1>3. Counted => CapacityConserved
  BY DEF Counted, CapacityConserved
<1> QED
  BY <1>1, <1>2, <1>3, TypeCorrect, PTL DEF Spec

-------------------------------------------------------------------------------
(* EventTriggers implements DeliveryQueue. *)

\* Rows are inserted before anything else happens to them.
LEMMA InsertedFirstInit == Init => InsertedFirst
BY DEF Init, InsertedFirst, IsUnrecorded, Unrecorded, NoCopy, FreshRow, IsSettled

LEMMA InsertedFirstStep ==
    ASSUME TypeOK, InsertedFirst, [Next]_vars
    PROVE  InsertedFirst'
<1> USE DEF dbVars, loopVars, shutVars, histVars, budgetVars
<1>0. \A c \in Copies : copy[c] \in Copy /\ c[2] \in Events
  BY DEF TypeOK, Copies
<1> DEFINE Same == /\ redelivering' \subseteq redelivering
                   /\ inserted \subseteq inserted'
                   /\ \A c \in Copies : copy'[c].stage \in Unrecorded => copy[c].stage \in Unrecorded
                   /\ \A e \in Events \ inserted' : IsSettled(log'[e]) => IsSettled(log[e])
<1>1. ASSUME Same PROVE InsertedFirst'
  BY <1>0, <1>1 DEF InsertedFirst, IsUnrecorded
<1>2. ASSUME NEW i \in Instances, NEW s \in Sources, FetchEvents(i, s)
      PROVE  InsertedFirst'
  <2>1. PICK S \in SUBSET Fetchable(i, s) :
           /\ IsBatch(S, Fetchable(i, s))
           /\ log' = [e \in Events |-> IF e \in S THEN Lock(log[e]) ELSE log[e]]
           /\ \E gen \in [S -> Gens] :
                /\ \A e \in S : gen[e] \in FreeGens(i, e)
                /\ copy' = [c \in Copies |->
                              IF c[1] = i /\ c[2] \in S /\ c[3] = gen[c[2]]
                              THEN [NoCopy EXCEPT !.stage = "popped", !.tries = log[c[2]].tries]
                              ELSE copy[c]]
    BY <1>2, Zenon DEF FetchEvents
  <2>2. S \subseteq inserted /\ redelivering' = redelivering /\ inserted' = inserted
    BY <1>2 DEF FetchEvents, Fetchable
  <2>3. \A c \in Copies : c[2] \in S \/ copy'[c] = copy[c]
    BY <2>1
  <2>4. \A e \in Events : e \in S \/ log'[e] = log[e]
    BY <2>1
  <2> QED
    BY <2>2, <2>3, <2>4 DEF InsertedFirst, IsUnrecorded
<1>3. ASSUME NEW i \in Instances, NEW s \in Sources,
             FetchEventsFails(i, s) \/ UnlockSourceFails(i, s)
      PROVE  Same
  BY <1>3 DEF FetchEventsFails, UnlockSourceFails
<1>4. ASSUME NEW i \in Instances, NEW s \in Sources, SaveLockedEvents(i, s)
      PROVE  Same
  BY <1>0, <1>4 DEF SaveLockedEvents, Copy, Unrecorded
<1>5. ASSUME NEW i \in Instances, NEW s \in Sources, UnlockSource(i, s)
      PROVE  Same
  <2>1. \A e \in Events : IsSettled(log'[e]) => IsSettled(log[e])
    BY <1>5 DEF UnlockSource, Unlock, IsSettled, TypeOK, Row
  <2> QED
    BY <1>5, <2>1 DEF UnlockSource
<1>6. ASSUME NEW i \in Instances, NextIteration(i) \/ BlockThread(i)
      PROVE  Same
  BY <1>0, <1>6 DEF NextIteration, BlockThread, StartIteration, Copy, Unrecorded
<1>7. ASSUME NEW i \in Instances, Crash(i) \/ StopThread(i)
      PROVE  Same
  <2>1. copy' = [c \in Copies |-> IF c[1] = i THEN NoCopy ELSE copy[c]]
    BY <1>7 DEF Crash, StopThread, Forget
  <2> QED
    BY <1>7, <2>1 DEF Crash, StopThread, NoCopy, Unrecorded
<1>8. ASSUME NEW i \in Instances,
             Start(i) \/ BeginShutdown(i) \/ Poll(i) \/ StartUnlocking(i) \/ SyncCache(i)
      PROVE  Same
  BY <1>8 DEF Start, BeginShutdown, Poll, StartUnlocking, SyncCache
<1>9. ASSUME NEW c \in Copies, ForkWorker(c) \/ Attempt(c) \/ RecordFails(c) \/ FinishWorker(c)
      PROVE  Same
  <2>1. /\ redelivering' = redelivering /\ inserted' = inserted /\ log' = log
        /\ \A d \in Copies : d # c => copy'[d] = copy[d]
    BY <1>9 DEF ForkWorker, Attempt, RecordFails, FinishWorker, TypeOK
  <2>2. copy'[c].stage \in Unrecorded => copy[c].stage \in Unrecorded
    BY <1>0, <1>9 DEF ForkWorker, Attempt, RecordFails, FinishWorker, Unrecorded, TypeOK, NoCopy
  <2> QED
    BY <2>1, <2>2
<1>10. ASSUME NEW c \in Copies, Record(c)
       PROVE  Same
  <2>1. c[2] \in inserted
    BY <1>10 DEF Record, InsertedFirst, IsUnrecorded, Unrecorded
  <2>2. \A e \in Events \ inserted : log'[e] = log[e]
    BY <1>10, <2>1 DEF Record, TypeOK
  <2>3. \A d \in Copies : copy'[d].stage \in Unrecorded => copy[d].stage \in Unrecorded
    BY <1>0, <1>10 DEF Record, Unrecorded, TypeOK
  <2> QED
    BY <1>10, <2>2, <2>3 DEF Record
<1>11. ASSUME NEW e \in Events, InsertEvent(e)
       PROVE  Same
  BY <1>11 DEF InsertEvent
<1>12. ASSUME NEW e \in Events, CheckEvent(e)
       PROVE  InsertedFirst'
  BY <1>12 DEF CheckEvent, InsertedFirst, IsUnrecorded
<1>13. ASSUME NEW e \in Events, MarkForRedelivery(e)
       PROVE  Same
  <2>1. e \in inserted
    BY <1>13 DEF MarkForRedelivery, InsertedFirst
  <2>2. \A f \in Events \ inserted : log'[f] = log[f]
    BY <1>13, <2>1 DEF MarkForRedelivery, TypeOK
  <2> QED
    BY <1>13, <2>2 DEF MarkForRedelivery
<1>14. ASSUME NEW e \in Events, LockExpires(e) \/ RetryDue(e)
       PROVE  Same
  <2>1. \A f \in Events : f # e => log'[f] = log[f]
    BY <1>14 DEF LockExpires, RetryDue, TypeOK
  <2>2. \/ log'[e] = [log[e] EXCEPT !.locked = "stale"]
        \/ log'[e] = [log[e] EXCEPT !.retry = "due"]
    BY <1>14 DEF LockExpires, RetryDue, TypeOK
  <2>3. log[e] \in Row
    BY DEF TypeOK
  <2>4. IsSettled(log'[e]) => IsSettled(log[e])
    BY <2>2, <2>3 DEF IsSettled, Row
  <2> QED
    BY <1>14, <2>1, <2>4 DEF LockExpires, RetryDue
<1>15. ASSUME NEW t \in Triggers, DropTrigger(t) \/ CreateTrigger(t)
       PROVE  Same
  <2>1. \A e \in Events \ inserted : log'[e] = log[e]
    BY <1>15 DEF DropTrigger, CreateTrigger, TypeOK
  <2> QED
    BY <1>15, <2>1 DEF DropTrigger, CreateTrigger
<1>16. ASSUME UNCHANGED vars
       PROVE  Same
  BY <1>16 DEF vars
<1> HIDE DEF Same
<1> QED
  BY <1>1, <1>2, <1>3, <1>4, <1>5, <1>6, <1>7, <1>8, <1>9, <1>10, <1>11, <1>12, <1>13, <1>14,
     <1>15, <1>16 DEF Next, InstanceStep, WorkerStep, EnvironmentStep

\* Every reachable row was inserted first.
LEMMA InsertedFirstHolds == Spec => []InsertedFirst
BY InsertedFirstInit, InsertedFirstStep, TypeCorrect, PTL DEF Spec

\* The queue's view of the rows and copies, point by point.
LEMMA QueueViews ==
    /\ QueueStatus = [e \in Events |-> QueueStatus[e]]
    /\ QueueStatus' = [e \in Events |-> QueueStatus'[e]]
    /\ QueueClaim = [c \in Copies |-> QueueClaim[c]]
    /\ QueueClaim' = [c \in Copies |-> QueueClaim'[c]]
BY DEF QueueStatus, QueueClaim

\* The unrecorded copies are the claims.
LEMMA ClaimedCopies ==
    ASSUME TypeOK
    PROVE  /\ \A c \in Copies : QueueClaim[c] = "none" <=> ~IsUnrecorded(c)
           /\ \A e \in Events : Queue!Free(e) <=> InFlight(e) = {}
<1>1. \A c \in Copies : copy[c].stage \in Stages
  BY DEF TypeOK, Copy
<1>2. \A c \in Copies : QueueClaim[c] = "none" <=> ~IsUnrecorded(c)
  BY <1>1 DEF QueueClaim, CopyClaim, IsUnrecorded, Unrecorded, Stages
<1> QED
  BY <1>2 DEF Queue!Free, InFlight, IsUnrecorded

\* Rows whose outcome stays are the same to the queue.
LEMMA StatusStays ==
    ASSUME inserted' = inserted, NEW e \in Events,
           log'[e].delivered = log[e].delivered, log'[e].error = log[e].error,
           log'[e].archived = log[e].archived
    PROVE  QueueStatus'[e] = QueueStatus[e]
BY DEF QueueStatus, RowStatus

\* Steps that change no outcome and at most drop copies give up claims.
LEMMA QueueGivesUp ==
    ASSUME QueueStatus' = QueueStatus, doubted' = doubted,
           \A c \in Copies : QueueClaim'[c] \in {QueueClaim[c], "none"}
    PROVE  Queue!Next
<1> DEFINE C == {c \in Copies : QueueClaim'[c] = "none"}
<1>1. QueueClaim' = [c \in Copies |-> IF c \in C THEN "none" ELSE QueueClaim[c]]
  BY QueueViews
<1>2. C \in SUBSET Copies
  OBVIOUS
<1> HIDE DEF C
<1>3. Queue!GiveUp(C)
  BY <1>1 DEF Queue!GiveUp
<1> QED
  BY <1>2, <1>3 DEF Queue!Next

\* A fetch claims open events; those not doubted have no copy, for it would hold the lock.
LEMMA FetchClaims ==
    ASSUME TypeOK, RowAsFetched, NEW i \in Instances, NEW s \in Sources, FetchEvents(i, s)
    PROVE  Queue!Next
<1>0. PICK S \in SUBSET Fetchable(i, s) :
         /\ log' = [e \in Events |-> IF e \in S THEN Lock(log[e]) ELSE log[e]]
         /\ \E gen \in [S -> Gens] :
              /\ \A e \in S : gen[e] \in FreeGens(i, e)
              /\ copy' = [c \in Copies |->
                            IF c[1] = i /\ c[2] \in S /\ c[3] = gen[c[2]]
                            THEN [NoCopy EXCEPT !.stage = "popped", !.tries = log[c[2]].tries]
                            ELSE copy[c]]
  BY Zenon DEF FetchEvents
<1>1. PICK gen \in [S -> Gens] :
         /\ \A e \in S : gen[e] \in FreeGens(i, e)
         /\ copy' = [c \in Copies |->
                       IF c[1] = i /\ c[2] \in S /\ c[3] = gen[c[2]]
                       THEN [NoCopy EXCEPT !.stage = "popped", !.tries = log[c[2]].tries]
                       ELSE copy[c]]
  BY <1>0
<1> DEFINE C == {c \in Copies : c[1] = i /\ c[2] \in S /\ c[3] = gen[c[2]]}
<1>2. \A c \in Copies : c[2] \in Events /\ c = <<c[1], c[2], c[3]>>
  BY DEF Copies
<1>3. \A e \in S : e \in inserted /\ IsFetchable(log[e])
  BY DEF Fetchable
<1>4. \A c \in C : QueueClaim[c] = "none"
  <2> SUFFICES ASSUME NEW c \in C PROVE copy[c] = NoCopy
    BY DEF QueueClaim, CopyClaim, NoCopy
  <2> QED
    BY <1>1, <1>2 DEF FreeGens
<1>5. \A c \in C : QueueStatus[c[2]] = "open"
  BY <1>2, <1>3 DEF IsFetchable, QueueStatus, RowStatus
<1>6. \A c \in C : c[2] \in doubted \/ Queue!Free(c[2])
  <2> SUFFICES ASSUME NEW c \in C, c[2] \notin doubted, NEW d \in InFlight(c[2]) PROVE FALSE
    BY <1>2, ClaimedCopies
  <2>1. log[c[2]].locked = "held"
    BY DEF RowAsFetched, InFlight, IsUnrecorded
  <2> QED
    BY <1>3, <2>1 DEF IsFetchable
<1>7. \A c, d \in C : c[2] = d[2] => c = d
  BY <1>2
<1>8. QueueStatus' = QueueStatus
  <2>1. inserted' = inserted
    BY DEF FetchEvents
  <2> SUFFICES ASSUME NEW e \in Events PROVE QueueStatus'[e] = QueueStatus[e]
    BY QueueViews
  <2>2. log[e] \in Row /\ log'[e] \in {log[e], Lock(log[e])}
    BY <1>0 DEF TypeOK
  <2> QED
    BY <2>1, <2>2, StatusStays DEF Lock, Row
<1>9. \A c \in Copies : QueueClaim'[c] = IF c \in C THEN "claimed" ELSE QueueClaim[c]
  BY <1>1 DEF QueueClaim, CopyClaim, NoCopy
<1>10. QueueClaim' = [c \in Copies |-> IF c \in C THEN "claimed" ELSE QueueClaim[c]]
  BY <1>9, QueueViews
<1>11. C \in SUBSET Copies /\ doubted' = doubted
  BY DEF FetchEvents, histVars
<1> HIDE DEF C
<1>12. Queue!Claim(C)
  BY <1>4, <1>5, <1>6, <1>7, <1>8, <1>10, <1>11 DEF Queue!Claim
<1> QED
  BY <1>11, <1>12 DEF Queue!Next

\* A webhook is called for a row that is not decided, unless the event is doubted.
LEMMA AttemptAnswers ==
    ASSUME TypeOK, RowAsFetched, InsertedFirst, NEW c \in Copies, Attempt(c)
    PROVE  Queue!Next
<1>1. PICK outcome \in PossibleOutcomes(c[1], c[2], copy[c].tries) :
         copy' = [copy EXCEPT ![c].stage = "answered", ![c].outcome = outcome]
  BY DEF Attempt
<1> DEFINE answer == IF outcome = "accepted" THEN "accepted" ELSE "refused"
<1>2. log' = log /\ inserted' = inserted /\ doubted' = doubted /\ copy[c].stage = "forked"
  BY DEF Attempt, dbVars
<1>3. c[2] \in Events /\ IsUnrecorded(c)
  BY <1>2 DEF Copies, IsUnrecorded, Unrecorded
<1>4. QueueClaim[c] = "claimed"
  BY <1>2 DEF QueueClaim, CopyClaim
<1>5. c[2] \in doubted \/ Queue!Undecided(c[2])
  BY <1>3 DEF RowAsFetched, InsertedFirst, Queue!Undecided, QueueStatus, RowStatus
<1>6. /\ copy'[c].stage = "answered" /\ copy'[c].outcome = outcome
      /\ \A d \in Copies : d # c => copy'[d] = copy[d]
  BY <1>1 DEF TypeOK, Copy
<1>7. \A d \in Copies : QueueClaim'[d] = IF d = c THEN answer ELSE QueueClaim[d]
  BY <1>6 DEF QueueClaim, CopyClaim
<1>8. QueueClaim' = [QueueClaim EXCEPT ![c] = answer]
  BY <1>7, QueueViews
<1>9. QueueStatus' = QueueStatus
  BY <1>2 DEF QueueStatus
<1>10. Queue!Answer(c, answer)
  BY <1>2, <1>4, <1>5, <1>8, <1>9 DEF Queue!Answer
<1> QED
  BY <1>10 DEF Queue!Next

\* What the recording transaction makes of a row is one of the verdicts on the answer.
LEMMA RecordVerdict ==
    ASSUME NEW row \in Row, NEW c \in Copy, c.stage = "answered",
           NEW new, new = RecordOutcome(row, c)
    PROVE  /\ new.archived = row.archived
           /\ row.archived \/ RowStatus(new) = "delivered" \/ CopyClaim(c) = "refused"
           /\ row.archived \/ RowStatus(new) \in {"open", "failed", RowStatus(row)}
                           \/ CopyClaim(c) = "accepted"
           /\ ~row.delivered /\ ~row.error /\ ~row.archived /\ CopyClaim(c) = "refused"
                => RowStatus(new) \in {"open", "failed"}
<1>0. PICK r \in {row, CountTry(row)} :
        IF c.outcome = "accepted" THEN new = SetSuccess(r) ELSE new \in {SetError(r), SetRetry(r)}
  BY DEF RecordOutcome
<1>1. /\ r \in Row /\ r.archived = row.archived
      /\ r.delivered = row.delivered /\ r.error = row.error
  BY DEF CountTry, Row
<1>2. new.archived = row.archived
  BY <1>0, <1>1 DEF SetSuccess, SetError, SetRetry, Row
<1>3. \/ c.outcome = "accepted" /\ new.delivered
      \/ /\ c.outcome # "accepted" /\ new.delivered = row.delivered
         /\ new.error = row.error \/ new.error
  BY <1>0, <1>1 DEF SetSuccess, SetError, SetRetry, Row
<1>4. CopyClaim(c) = IF c.outcome = "accepted" THEN "accepted" ELSE "refused"
  BY DEF CopyClaim
<1> QED
  BY <1>2, <1>3, <1>4 DEF RowStatus

LEMMA RecordReports ==
    ASSUME TypeOK, RowAsFetched, InsertedFirst, NEW c \in Copies, Record(c)
    PROVE  Queue!Next
<1> DEFINE e == c[2]
           verdict == RowStatus(log'[e])
<1>1. /\ log' = [log EXCEPT ![e] = RecordOutcome(log[e], copy[c])]
      /\ copy' = [copy EXCEPT ![c].stage = "recorded"]
      /\ inserted' = inserted /\ doubted' = doubted
      /\ copy[c].stage = "answered" /\ IsUnrecorded(c)
  BY DEF Record, histVars, IsUnrecorded, Unrecorded
<1>2. e \in Events /\ log[e] \in Row /\ copy[c] \in Copy
  BY DEF Copies, TypeOK
<1>3. e \in inserted
  BY <1>1 DEF InsertedFirst
<1>4. log'[e] = RecordOutcome(log[e], copy[c]) /\ \A f \in Events : f # e => log'[f] = log[f]
  BY <1>1, <1>2 DEF TypeOK
<1>5. QueueClaim[c] = CopyClaim(copy[c]) /\ QueueStatus[e] = RowStatus(log[e])
  BY <1>2, <1>3 DEF QueueClaim, QueueStatus
<1>6. QueueClaim[c] \in {"accepted", "refused"}
  <2>1. copy[c].stage = "answered" /\ copy[c].stage \notin {"idle", "recorded"}
    BY <1>1
  <2> QED
    BY <1>5, <2>1 DEF CopyClaim
<1>7. e \in doubted \/ (~log[e].delivered /\ ~log[e].error)
  BY <1>1 DEF RowAsFetched
<1>8. e \in doubted \/ Queue!Undecided(e)
  BY <1>5, <1>7 DEF Queue!Undecided, RowStatus
<1>9. verdict \in Queue!Verdicts(c)
  <2>1. CASE log[e].archived
    <3>1. verdict = "withdrawn" /\ QueueStatus[e] = "withdrawn"
      BY <1>1, <1>2, <1>4, <1>5, <2>1, RecordVerdict DEF RowStatus
    <3> QED
      BY <3>1 DEF Queue!Verdicts
  <2>2. CASE ~log[e].archived
    <3>1. QueueStatus[e] # "withdrawn"
      BY <1>5, <2>2 DEF RowStatus
    <3>2. /\ QueueClaim[c] = "accepted" => verdict = "delivered"
          /\ QueueClaim[c] = "refused" =>
                \/ verdict \in {"open", "failed"}
                \/ verdict = QueueStatus[e] /\ e \in doubted
      BY <1>1, <1>2, <1>4, <1>5, <1>7, <2>2, RecordVerdict
    <3> QED
      BY <1>6, <3>1, <3>2 DEF Queue!Verdicts
  <2> QED
    BY <2>1, <2>2
<1>10. QueueStatus' = [QueueStatus EXCEPT ![e] = verdict]
  <2>1. \A f \in Events : QueueStatus'[f] = IF f = e THEN verdict ELSE QueueStatus[f]
    BY <1>1, <1>3, <1>4 DEF QueueStatus
  <2> QED
    BY <2>1, QueueViews
<1>11. QueueClaim' = [QueueClaim EXCEPT ![c] = "none"]
  <2>1. copy'[c].stage = "recorded" /\ \A d \in Copies : d # c => copy'[d] = copy[d]
    BY <1>1 DEF TypeOK, Copy
  <2>2. \A d \in Copies : QueueClaim'[d] = IF d = c THEN "none" ELSE QueueClaim[d]
    BY <2>1 DEF QueueClaim, CopyClaim
  <2> QED
    BY <2>2, QueueViews
<1>12. verdict \in Queue!Statuses
  BY DEF RowStatus, Queue!Statuses
<1> HIDE DEF verdict
<1>13. Queue!Report(c, verdict)
  BY <1>1, <1>6, <1>8, <1>9, <1>10, <1>11 DEF Queue!Report
<1> QED
  BY <1>12, <1>13 DEF Queue!Next

\* An inserted row is open.
LEMMA InsertPuts ==
    ASSUME TypeOK, InsertedFirst, NEW e \in Events, InsertEvent(e)
    PROVE  Queue!Next
<1>1. /\ e \notin inserted /\ inserted' = inserted \cup {e} /\ log' = log
      /\ copy' = copy /\ doubted' = doubted
  BY DEF InsertEvent, histVars
<1>2. RowStatus(log[e]) = "open"
  BY <1>1 DEF InsertedFirst, IsSettled, RowStatus
<1>3. QueueStatus[e] = "absent"
  BY <1>1 DEF QueueStatus
<1>4. \A f \in Events : QueueStatus'[f] = IF f \in {e} THEN "open" ELSE QueueStatus[f]
  BY <1>1, <1>2 DEF QueueStatus
<1>5. QueueStatus' = [f \in Events |-> IF f \in {e} THEN "open" ELSE QueueStatus[f]]
  BY <1>4, QueueViews
<1>6. QueueClaim' = QueueClaim
  BY <1>1 DEF QueueClaim
<1>7. Queue!Put({e})
  BY <1>1, <1>3, <1>5, <1>6 DEF Queue!Put
<1> QED
  BY <1>7 DEF Queue!Next

\* The trigger that is dropped takes its events with it.
LEMMA DropWithdraws ==
    ASSUME TypeOK, NEW t \in Triggers, DropTrigger(t)
    PROVE  Queue!Next
<1> DEFINE E == {e \in inserted : TriggerOf[e] = t}
<1>1. /\ inserted' = inserted /\ copy' = copy /\ doubted' = doubted
      /\ \A e \in Events : log'[e] = IF e \in E THEN Archive(log[e]) ELSE log[e]
  BY DEF DropTrigger, histVars
<1>2. E \in SUBSET Events /\ \A e \in Events : log[e] \in Row
  BY DEF TypeOK
<1>3. \A e \in E : QueueStatus[e] # "absent"
  BY <1>2 DEF QueueStatus, RowStatus
<1>4. \A e \in Events : QueueStatus'[e] = IF e \in E THEN "withdrawn" ELSE QueueStatus[e]
  BY <1>1, <1>2 DEF QueueStatus, RowStatus, Archive, Row
<1> HIDE DEF E
<1>5. QueueStatus' = [e \in Events |-> IF e \in E THEN "withdrawn" ELSE QueueStatus[e]]
  BY <1>4, QueueViews
<1>6. QueueClaim' = QueueClaim
  BY <1>1 DEF QueueClaim
<1>7. Queue!Withdraw(E)
  BY <1>1, <1>3, <1>5, <1>6 DEF Queue!Withdraw
<1> QED
  BY <1>2, <1>7 DEF Queue!Next

\* Steps that only take locks away doubt the events in flight among theirs.
LEMMA QueueDoubts ==
    ASSUME TypeOK, copy' = copy, QueueStatus' = QueueStatus, NEW E \in SUBSET Events,
           doubted' = doubted \cup {e \in E : InFlight(e) # {}}
    PROVE  Queue!Next
<1> DEFINE D == {e \in E : InFlight(e) # {}}
<1>1. \A e \in D : ~Queue!Free(e)
  BY ClaimedCopies
<1>2. QueueClaim' = QueueClaim /\ D \in SUBSET Events
  BY DEF QueueClaim
<1>3. doubted' = doubted \cup D
  OBVIOUS
<1> HIDE DEF D
<1>4. Queue!Doubt(D)
  BY <1>1, <1>2, <1>3 DEF Queue!Doubt
<1> QED
  BY <1>2, <1>4 DEF Queue!Next

LEMMA UnlockDoubts ==
    ASSUME TypeOK, NEW i \in Instances, NEW s \in Sources, UnlockSource(i, s)
    PROVE  Queue!Next
<1> DEFINE E == {e \in toUnlock[i][s] : log[e].locked = "held"}
<1>1. /\ log' = [e \in Events |-> IF e \in toUnlock[i][s] THEN Unlock(log[e]) ELSE log[e]]
      /\ doubted' = doubted \cup {e \in E : InFlight(e) # {}}
      /\ inserted' = inserted /\ copy' = copy
  BY DEF UnlockSource
<1>2. E \in SUBSET Events
  BY DEF TypeOK
<1>3. \A e \in Events : QueueStatus'[e] = QueueStatus[e]
  <2> SUFFICES ASSUME NEW e \in Events PROVE QueueStatus'[e] = QueueStatus[e]
    OBVIOUS
  <2>1. log[e] \in Row /\ log'[e] \in {log[e], Unlock(log[e])}
    BY <1>1 DEF TypeOK
  <2> QED
    BY <1>1, <2>1, StatusStays DEF Unlock, Row
<1>4. QueueStatus' = QueueStatus
  BY <1>3, QueueViews
<1> HIDE DEF E
<1> QED
  BY <1>1, <1>2, <1>4, QueueDoubts

LEMMA ClockDoubts ==
    ASSUME TypeOK, NEW e \in Events, LockExpires(e) \/ RetryDue(e)
    PROVE  Queue!Next
<1>1. \A f \in Events : QueueStatus'[f] = QueueStatus[f]
  <2> SUFFICES ASSUME NEW f \in Events PROVE QueueStatus'[f] = QueueStatus[f]
    OBVIOUS
  <2>1. inserted' = inserted
    BY DEF LockExpires, RetryDue
  <2>2. /\ log[f] \in Row
        /\ \/ log'[f] = log[f] \/ log'[f] = [log[f] EXCEPT !.locked = "stale"]
           \/ log'[f] = [log[f] EXCEPT !.retry = "due"]
    <3>1. log \in [Events -> Row]
      BY DEF TypeOK
    <3>2. CASE LockExpires(e)
      <4>1. log' = [log EXCEPT ![e].locked = "stale"]
        BY <3>2 DEF LockExpires
      <4> QED
        BY <3>1, <4>1
    <3>3. CASE RetryDue(e)
      <4>1. log' = [log EXCEPT ![e].retry = "due"]
        BY <3>3 DEF RetryDue
      <4> QED
        BY <3>1, <4>1
    <3> QED
      BY <3>2, <3>3
  <2> QED
    BY <2>1, <2>2, StatusStays DEF Row
<1>2. QueueStatus' = QueueStatus
  BY <1>1, QueueViews
<1>3. CASE LockExpires(e)
  <2>1. doubted' = doubted \cup {f \in {e} : InFlight(f) # {}} /\ copy' = copy
    BY <1>3 DEF LockExpires
  <2> QED
    BY <1>2, <2>1, QueueDoubts
<1>4. CASE RetryDue(e)
  BY <1>2, <1>4, QueueGivesUp DEF RetryDue, histVars, QueueClaim
<1> QED
  BY <1>3, <1>4

\* A redelivery reopens the event; an archived one stays where it is.
LEMMA RedeliveryReopens ==
    ASSUME TypeOK, InsertedFirst, NEW e \in Events, MarkForRedelivery(e)
    PROVE  Queue!Next
<1>1. /\ \A f \in Events : f # e => log'[f] = log[f]
      /\ log'[e] = MarkForDelivery(log[e]) /\ log[e] \in Row
      /\ inserted' = inserted /\ copy' = copy /\ e \in inserted
      /\ doubted' = IF InFlight(e) # {} THEN doubted \cup {e} ELSE doubted
  BY DEF MarkForRedelivery, TypeOK, InsertedFirst
<1>2. QueueClaim' = QueueClaim
  BY <1>1 DEF QueueClaim
<1>3. \A f \in Events : f # e => QueueStatus'[f] = QueueStatus[f]
  BY <1>1 DEF QueueStatus
<1>4. ~log'[e].delivered /\ ~log'[e].error /\ log'[e].archived = log[e].archived
  BY <1>1 DEF MarkForDelivery, Row
<1>5. CASE log[e].archived
  <2>1. QueueStatus'[e] = QueueStatus[e]
    BY <1>1, <1>4, <1>5 DEF QueueStatus, RowStatus
  <2>2. QueueStatus' = QueueStatus
    BY <1>3, <2>1, QueueViews
  <2>3. doubted' = doubted \cup {f \in {e} : InFlight(f) # {}}
    BY <1>1
  <2> QED
    BY <1>1, <2>2, <2>3, QueueDoubts
<1>6. CASE ~log[e].archived
  <2>1. QueueStatus'[e] = "open" /\ QueueStatus[e] \in {"open", "delivered", "failed"}
    BY <1>1, <1>4, <1>6 DEF QueueStatus, RowStatus
  <2>2. \A f \in Events : QueueStatus'[f] = IF f = e THEN "open" ELSE QueueStatus[f]
    BY <1>3, <2>1
  <2>3. QueueStatus' = [QueueStatus EXCEPT ![e] = "open"]
    BY <2>2, QueueViews
  <2>4. doubted' = IF Queue!Free(e) THEN doubted ELSE doubted \cup {e}
    BY <1>1, ClaimedCopies
  <2>5. Queue!Reopen(e)
    BY <1>2, <2>1, <2>3, <2>4 DEF Queue!Reopen
  <2> QED
    BY <2>5 DEF Queue!Next
<1> QED
  BY <1>5, <1>6

\* What the loop, the shutdown and a crash do to the memory of an instance, and a
\* transaction that fails, decides nothing; claims are forgotten at most.
LEMMA MemoryGivesUp ==
    ASSUME TypeOK, log' = log, inserted' = inserted, doubted' = doubted,
           \A c \in Copies :
              \/ copy'[c] = copy[c]
              \/ copy'[c].stage \in {"idle", "recorded"}
              \/ /\ copy'[c].stage \in {"next", "batch", "forked"}
                 /\ copy[c].stage \in {"popped", "next", "batch"}
    PROVE  Queue!Next
<1>1. QueueStatus' = QueueStatus
  BY DEF QueueStatus
<1>2. \A c \in Copies : QueueClaim'[c] \in {QueueClaim[c], "none"}
  BY DEF QueueClaim, CopyClaim
<1> QED
  BY <1>1, <1>2, QueueGivesUp

LEMMA LoopGivesUp ==
    ASSUME TypeOK, NEW i \in Instances,
           \/ \E s \in Sources : \/ FetchEventsFails(i, s) \/ SaveLockedEvents(i, s)
                                 \/ UnlockSourceFails(i, s)
           \/ NextIteration(i) \/ BlockThread(i) \/ Start(i) \/ Crash(i)
           \/ BeginShutdown(i) \/ Poll(i) \/ StartUnlocking(i) \/ StopThread(i)
           \/ SyncCache(i)
    PROVE  Queue!Next
<1>1. log' = log /\ inserted' = inserted /\ doubted' = doubted
  BY DEF FetchEventsFails, SaveLockedEvents, UnlockSourceFails, NextIteration, BlockThread, Start,
         Crash, BeginShutdown, Poll, StartUnlocking, StopThread, SyncCache, dbVars, histVars
<1>2. CASE copy' = copy
  BY <1>1, <1>2, MemoryGivesUp
<1>3. ASSUME NEW s \in Sources, SaveLockedEvents(i, s)
      PROVE  Queue!Next
  <2>1. \A c \in Copies : \/ copy'[c] = copy[c]
                          \/ copy[c].stage = "popped" /\ copy'[c].stage = "next"
    BY <1>3 DEF SaveLockedEvents, TypeOK, Copy
  <2> QED
    BY <1>1, <2>1, MemoryGivesUp
<1>4. ASSUME NextIteration(i) \/ BlockThread(i)
      PROVE  Queue!Next
  <2>1. \A c \in Copies : \/ copy'[c] = copy[c]
                          \/ copy[c].stage = "next" /\ copy'[c].stage = "batch"
    BY <1>4 DEF NextIteration, BlockThread, StartIteration, TypeOK, Copy
  <2> QED
    BY <1>1, <2>1, MemoryGivesUp
<1>5. ASSUME Crash(i) \/ StopThread(i)
      PROVE  Queue!Next
  <2>1. \A c \in Copies : copy'[c] \in {copy[c], NoCopy}
    BY <1>5 DEF Crash, StopThread, Forget
  <2> QED
    BY <1>1, <2>1, MemoryGivesUp DEF NoCopy
<1> QED
  BY <1>2, <1>3, <1>4, <1>5 DEF FetchEventsFails, UnlockSourceFails, Start, BeginShutdown,
                                Poll, StartUnlocking, SyncCache

LEMMA WorkerGivesUp ==
    ASSUME TypeOK, NEW c \in Copies, ForkWorker(c) \/ RecordFails(c) \/ FinishWorker(c)
    PROVE  Queue!Next
<1>1. log' = log /\ inserted' = inserted /\ doubted' = doubted
  BY DEF ForkWorker, RecordFails, FinishWorker, dbVars, histVars
<1>2. \A d \in Copies : d # c => copy'[d] = copy[d]
  BY DEF ForkWorker, RecordFails, FinishWorker, TypeOK
<1>3. \/ copy[c].stage = "batch" /\ copy'[c].stage = "forked"
      \/ copy'[c].stage \in {"idle", "recorded"}
  BY DEF ForkWorker, RecordFails, FinishWorker, TypeOK, Copy, NoCopy
<1> QED
  BY <1>1, <1>2, <1>3, MemoryGivesUp

LEMMA QueueStep ==
    ASSUME TypeOK, RowAsFetched, InsertedFirst, [Next]_vars
    PROVE  Queue!Next
<1>1. ASSUME NEW e \in Events, CheckEvent(e) PROVE Queue!Next
  BY <1>1, MemoryGivesUp DEF CheckEvent, dbVars, histVars
<1>2. ASSUME NEW t \in Triggers, CreateTrigger(t) PROVE Queue!Next
  BY <1>2, MemoryGivesUp DEF CreateTrigger, histVars
<1>3. CASE UNCHANGED vars
  BY <1>3, MemoryGivesUp DEF vars
<1>4. ASSUME NEW c \in Copies, WorkerStep(c) PROVE Queue!Next
  BY <1>4, AttemptAnswers, RecordReports, WorkerGivesUp DEF WorkerStep
<1>5. ASSUME NEW e \in Events, \/ InsertEvent(e) \/ CheckEvent(e) \/ MarkForRedelivery(e)
                               \/ LockExpires(e) \/ RetryDue(e)
      PROVE  Queue!Next
  BY <1>1, <1>5, InsertPuts, RedeliveryReopens, ClockDoubts
<1>6. ASSUME NEW t \in Triggers, DropTrigger(t) \/ CreateTrigger(t)
      PROVE  Queue!Next
  BY <1>2, <1>6, DropWithdraws
<1>7. ASSUME NEW i \in Instances, NEW s \in Sources, FetchEvents(i, s) \/ UnlockSource(i, s)
      PROVE  Queue!Next
  BY <1>7, FetchClaims, UnlockDoubts
<1> QED
  BY <1>3, <1>4, <1>5, <1>6, <1>7, NextCases, LoopGivesUp

\* EventTriggers implements DeliveryQueue: through fetches, workers, crashes, shutdowns,
\* redeliveries and dropped triggers, nobody takes an event that is taken or decided.
THEOREM QueueImplemented == Spec => ImplementsQueue
<1>1. Init => Queue!Init
  BY DEF Init, Queue!Init, QueueStatus, QueueClaim, CopyClaim, NoCopy
<1>2. TypeOK /\ RowAsFetched /\ InsertedFirst /\ [Next]_vars => Queue!Next
  BY QueueStep
<1>3. IInv => TypeOK /\ RowAsFetched
  BY DEF IInv
<1> QED
  BY <1>1, <1>2, <1>3, InvariantHolds, InsertedFirstHolds, PTL
  DEF Spec, ImplementsQueue, Queue!Spec

===============================================================================
