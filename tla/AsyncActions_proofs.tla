------------------------- MODULE AsyncActions_proofs --------------------------
(*****************************************************************************)
(* Proofs of the safety properties of AsyncActions, and that it implements    *)
(* ActionResponses, for any instances, actions, ids and number of             *)
(* disturbances.                                                              *)
(*                                                                           *)
(* Five actions write to the log; all others only let calls go on, or end     *)
(* them (Onward), and disturb no part of the invariant.                       *)
(*****************************************************************************)
EXTENDS AsyncActions, TLAPS

\* An iteration that has not fetched yet has no calls: what Fetch writes to call[i]
\* forgets nothing.
FetchesFirst == \A i \in Instances : pc[i] = "fetch" => call[i] = NoCalls

\* The response columns of a row are set if and only if its status says so.
RowsTellStatus ==
    \A id \in Ids :
        log[id].payload \/ log[id].errors <=> log[id].status \in {"completed", "error"}

IInv == /\ TypeOK /\ FetchesFirst /\ RowsTellStatus
        /\ ExclusiveUnlessPutBack /\ OneResponseUnlessPutBack /\ ProcessingIsAttended

\* The steps that write no row.
Onward ==
    /\ log' = log /\ doubted' = doubted
    /\ lost \subseteq lost'
    /\ \A i \in Instances : AtWork(i)' \subseteq AtWork(i) /\ AtWork(i) \subseteq AtWork(i)' \cup lost'
    /\ FetchesFirst'

-------------------------------------------------------------------------------
(* Types *)

LEMMA InitInv == Init => IInv
<1> SUFFICES ASSUME Init PROVE IInv
  OBVIOUS
<1>1. TypeOK
  BY ActionsAssumption DEF Init, TypeOK, NoRow, Row, Statuses, NoCalls, Calls
<1>2. \A i \in Instances : AtWork(i) = {}
  BY DEF Init, AtWork, NoCalls, Unwritten
<1> QED
  BY <1>1, <1>2 DEF Init, IInv, FetchesFirst, RowsTellStatus, ExclusiveUnlessPutBack,
                    OneResponseUnlessPutBack, ProcessingIsAttended, NoRow, NoCalls

\* The statements on the log turn rows into rows.
LEMMA RowTypes ==
    \A row \in Row :
        /\ [row EXCEPT !.status = "created"] \in Row
        /\ [row EXCEPT !.status = "processing"] \in Row
        /\ SetPending(row) \in Row
        /\ \A outcome \in {"completed", "error"} : SetResponse(row, outcome) \in Row
<1>1. \A row \in Row, st \in Statuses : [row EXCEPT !.status = st] \in Row
  BY DEF Row
<1>2. {"created", "processing", "completed", "error"} \subseteq Statuses
  BY DEF Statuses
<1>3. \A row \in Row, st \in Statuses : /\ [row EXCEPT !.status = st, !.payload = TRUE] \in Row
                                        /\ [row EXCEPT !.status = st, !.errors = TRUE] \in Row
  BY DEF Row
<1>4. \A row \in Row : SetPending(row) \in Row
  BY <1>1, <1>2 DEF SetPending
<1>5. \A row \in Row, outcome \in {"completed", "error"} : SetResponse(row, outcome) \in Row
  BY <1>2, <1>3 DEF SetResponse
<1> QED
  BY <1>1, <1>2, <1>4, <1>5

LEMMA DisturbType == ASSUME TypeOK, NEW k \in Kinds, Disturb(k) PROVE used' \in [Kinds -> Nat]
BY DEF TypeOK, Disturb

\* What Forget leaves behind.
LEMMA ForgetType ==
    ASSUME TypeOK, NEW i \in Instances, Forget(i)
    PROVE  /\ taken' \in [Instances -> SUBSET Actions]
           /\ pc' \in [Instances -> {"fetch", "done"}]
           /\ call' \in [Instances -> [Ids -> Calls]]
           /\ locked' \in [Instances -> SUBSET Ids]
           /\ phase' \in [Instances -> {"down", "up", "waiting", "unlocking", "handled"}]
           /\ thread' \in [Instances -> {"forked", "initiated", "blocking"}]
           /\ polls' \in [Instances -> 0 .. GracefulPolls]
           /\ toPending' \in [Instances -> SUBSET Ids]
           /\ lost' \subseteq Ids
<1>1. NoCalls \in [Ids -> Calls]
  BY DEF NoCalls, Calls
<1>2. 0 \in 0 .. GracefulPolls
  BY ActionsAssumption
<1> QED
  BY <1>1, <1>2 DEF TypeOK, Forget, AtWork

LEMMA TypeStep ==
    ASSUME TypeOK, [Next]_vars
    PROVE  TypeOK'
<1>1. CASE UNCHANGED vars
  BY <1>1 DEF TypeOK, vars
<1>2. ASSUME NEW i \in Instances,
             \/ NextIteration(i) \/ BlockThread(i) \/ Start(i) \/ SyncCache(i)
      PROVE  TypeOK'
  <2>1. CASE NextIteration(i)
    BY <2>1 DEF TypeOK, NextIteration, StartIteration, rowVars, shutVars, histVars
  <2>2. CASE BlockThread(i)
    BY <2>2 DEF TypeOK, BlockThread, StartIteration, rowVars, histVars
  <2>3. CASE Start(i)
    BY <2>3 DEF TypeOK, Start, rowVars, loopVars, histVars
  <2>4. CASE SyncCache(i)
    BY <2>4 DEF TypeOK, SyncCache, rowVars, loopVars, shutVars, histVars
  <2> QED
    BY <1>2, <2>1, <2>2, <2>3, <2>4
<1>3. ASSUME NEW i \in Instances, FetchFails(i) \/ BeginShutdown(i) \/ PutBackFails(i)
      PROVE  TypeOK'
  <2>1. used' \in [Kinds -> Nat]
    BY <1>3, DisturbType DEF FetchFails, BeginShutdown, PutBackFails, Kinds
  <2>2. polls' \in [Instances -> 0 .. GracefulPolls]
    <3>1. GracefulPolls \in 0 .. GracefulPolls
      BY ActionsAssumption
    <3> QED
      BY <1>3, <3>1 DEF TypeOK, FetchFails, BeginShutdown, PutBackFails, shutVars
  <2>3. CASE FetchFails(i)
    BY <2>1, <2>3 DEF TypeOK, FetchFails, rowVars, shutVars, histVars
  <2>4. CASE BeginShutdown(i)
    BY <2>1, <2>2, <2>4 DEF TypeOK, BeginShutdown, rowVars, loopVars, histVars
  <2>5. CASE PutBackFails(i)
    BY <2>1, <2>5 DEF TypeOK, PutBackFails, rowVars, loopVars, histVars
  <2> QED
    BY <1>3, <2>3, <2>4, <2>5
<1>4. ASSUME NEW i \in Instances, Poll(i) \/ ReadLocked(i)
      PROVE  TypeOK'
  <2>1. polls' \in [Instances -> 0 .. GracefulPolls]
    <3>1. polls[i] > 0 => polls[i] - 1 \in 0 .. GracefulPolls
      BY ActionsAssumption DEF TypeOK
    <3> QED
      BY <1>4, <3>1 DEF TypeOK, Poll, ReadLocked
  <2>2. phase' \in [Instances -> {"down", "up", "waiting", "unlocking", "handled"}]
    <3>1. \/ phase' = phase \/ phase' = [phase EXCEPT ![i] = "handled"]
          \/ phase' = [phase EXCEPT ![i] = "unlocking"]
      BY <1>4 DEF Poll, ReadLocked
    <3> QED
      BY <3>1 DEF TypeOK
  <2>3. toPending' \in [Instances -> SUBSET Ids]
    <3>1. toPending' = toPending \/ toPending' = [toPending EXCEPT ![i] = locked[i]]
      BY <1>4 DEF Poll, ReadLocked
    <3>2. locked[i] \subseteq Ids
      BY DEF TypeOK
    <3> QED
      BY <3>1, <3>2 DEF TypeOK
  <2>4. UNCHANGED <<rowVars, loopVars, thread, histVars, used, cached>>
    BY <1>4 DEF Poll, ReadLocked
  <2> QED
    BY <2>1, <2>2, <2>3, <2>4 DEF TypeOK, rowVars, loopVars, histVars
<1>5. ASSUME NEW i \in Instances, Fetch(i)
      PROVE  TypeOK'
  <2>1. PICK S \in SUBSET Fetchable :
          /\ log' = [id \in Ids |->
                       IF id \in S THEN [log[id] EXCEPT !.status = "processing"] ELSE log[id]]
          /\ call' = [call EXCEPT ![i] = [id \in Ids |-> IF id \in S THEN "fetched" ELSE "idle"]]
    BY <1>5 DEF Fetch
  <2>2. log' \in [Ids -> Row]
    BY <2>1, RowTypes DEF TypeOK
  <2>3. call' \in [Instances -> [Ids -> Calls]]
    BY <2>1 DEF TypeOK, Calls
  <2> QED
    BY <1>5, <2>2, <2>3 DEF TypeOK, Fetch, shutVars, histVars
<1>6. ASSUME NEW i \in Instances, SaveLockedEvents(i)
      PROVE  TypeOK'
  <2>1. call' \in [Instances -> [Ids -> Calls]] /\ locked' \in [Instances -> SUBSET Ids]
    BY <1>6 DEF TypeOK, SaveLockedEvents, Calls
  <2> QED
    BY <1>6, <2>1 DEF TypeOK, SaveLockedEvents, rowVars, shutVars, histVars
<1>7. ASSUME NEW i \in Instances, NEW id \in Ids, CallStep(i, id)
      PROVE  TypeOK'
  <2>1. CASE SkipUnknown(i, id)
    BY <2>1 DEF TypeOK, SkipUnknown, rowVars, shutVars, Calls
  <2>2. CASE CallWebhook(i, id)
    BY <2>2 DEF TypeOK, CallWebhook, rowVars, shutVars, histVars, Calls
  <2>3. CASE SetActionStatus(i, id)
    <3>1. SetResponse(log[id], call[i][id]) \in Row
      BY <2>3, RowTypes DEF TypeOK, SetActionStatus
    <3>2. call' \in [Instances -> [Ids -> Calls]]
      BY <2>3 DEF TypeOK, SetActionStatus, Calls
    <3> QED
      BY <2>3, <3>1, <3>2 DEF TypeOK, SetActionStatus, shutVars, histVars
  <2>4. CASE SetActionStatusFails(i, id)
    <3>1. used' \in [Kinds -> Nat]
      BY <2>4, DisturbType DEF SetActionStatusFails, Kinds
    <3> QED
      BY <2>4, <3>1 DEF TypeOK, SetActionStatusFails, rowVars, shutVars, Calls
  <2>5. CASE RemoveLockedEvent(i, id)
    BY <2>5 DEF TypeOK, RemoveLockedEvent, rowVars, shutVars, histVars, Calls
  <2> QED
    BY <1>7, <2>1, <2>2, <2>3, <2>4, <2>5 DEF CallStep
<1>8. ASSUME NEW i \in Instances, Crash(i) \/ StopThread(i)
      PROVE  TypeOK'
  <2>1. Forget(i) /\ used' \in [Kinds -> Nat]
    BY <1>8, DisturbType DEF Crash, StopThread, Kinds, TypeOK
  <2> QED
    BY <1>8, <2>1, ForgetType DEF TypeOK, Crash, StopThread, rowVars
<1>9. ASSUME NEW i \in Instances, PutBack(i)
      PROVE  TypeOK'
  <2>1. log' \in [Ids -> Row]
    BY <1>9, RowTypes DEF TypeOK, PutBack
  <2> QED
    BY <1>9, <2>1 DEF TypeOK, PutBack, loopVars
<1>10. ASSUME NEW i \in Instances, NEW id \in Ids, Insert(i, id)
       PROVE  TypeOK'
  <2>1. log' \in [Ids -> Row]
    BY <1>10, RowTypes DEF TypeOK, Insert
  <2> QED
    BY <1>10, <2>1 DEF TypeOK, Insert, loopVars, shutVars, histVars
<1>11. ASSUME NEW a \in Actions, CommandStep(a)
       PROVE  TypeOK'
  <2>1. used' \in [Kinds -> Nat]
    BY <1>11, DisturbType DEF TypeOK, CommandStep, ClearActionData, DropAction, DropActionFails,
                              CreateAction, Kinds
  <2>2. CASE ClearActionData(a)
    <3>1. [NoRow EXCEPT !.status = "deleted"] \in Row
      BY DEF NoRow, Row, Statuses
    <3> QED
      BY <2>1, <2>2, <3>1 DEF TypeOK, ClearActionData, loopVars, shutVars, histVars
  <2>3. CASE DropAction(a) \/ DropActionFails(a) \/ CreateAction(a)
    BY <2>1, <2>3 DEF TypeOK, DropAction, DropActionFails, CreateAction, loopVars, shutVars,
                      histVars
  <2> QED
    BY <1>11, <2>2, <2>3 DEF CommandStep
<1> QED
  BY <1>1, <1>2, <1>3, <1>4, <1>5, <1>6, <1>7, <1>8, <1>9, <1>10, <1>11
  DEF Next, InstanceStep, CommandStep

-------------------------------------------------------------------------------
(* Steps that write no row *)

LEMMA OnwardKeeps ==
    ASSUME IInv, TypeOK', Onward
    PROVE  IInv'
<1>1. RowsTellStatus' /\ OneResponseUnlessPutBack'
  BY DEF IInv, Onward, RowsTellStatus, OneResponseUnlessPutBack
<1>2. ExclusiveUnlessPutBack'
  BY DEF IInv, Onward, ExclusiveUnlessPutBack
<1>3. ProcessingIsAttended'
  BY DEF IInv, Onward, ProcessingIsAttended
<1> QED
  BY <1>1, <1>2, <1>3 DEF IInv, Onward

\* Steps that leave the calls alone, and begin an iteration only when it has none.
LEMMA CallsKeptOnward ==
    ASSUME FetchesFirst, UNCHANGED <<log, doubted, call, lost>>,
           \A i \in Instances : pc'[i] = "fetch" => pc[i] = "fetch" \/ call[i] = NoCalls
    PROVE  Onward
BY DEF Onward, AtWork, FetchesFirst

\* Steps of a single call, or of all calls of an instance.
LEMMA CallsMoveOnward ==
    ASSUME FetchesFirst, NEW i \in Instances, UNCHANGED <<log, doubted>>, lost \subseteq lost',
           TypeOK, TypeOK',
           \A j \in Instances : j # i => call'[j] = call[j] /\ pc'[j] = pc[j],
           \A id \in Ids : call'[i][id] \in Unwritten => call[i][id] \in Unwritten,
           \A id \in Ids : call[i][id] \in Unwritten => call'[i][id] \in Unwritten \/ id \in lost',
           pc'[i] # "fetch"
    PROVE  Onward
BY DEF Onward, AtWork, FetchesFirst

LEMMA OnwardSteps ==
    ASSUME IInv, TypeOK', NEW i \in Instances, InstanceStep(i),
           ~Fetch(i), ~PutBack(i),
           \A id \in Ids : ~Insert(i, id) /\ ~SetActionStatus(i, id)
    PROVE  Onward
<1> USE DEF IInv
<1>1. CASE NextIteration(i) \/ BlockThread(i)
  <2>1. \A j \in Instances : pc'[j] = "fetch" => pc[j] = "fetch" \/ call[j] = NoCalls
    BY <1>1 DEF NextIteration, BlockThread, StartIteration, IterationDone, TypeOK
  <2> QED
    BY <1>1, <2>1, CallsKeptOnward DEF NextIteration, BlockThread, rowVars, histVars
<1>2. CASE FetchFails(i)
  <2>1. \A j \in Instances : pc'[j] = "fetch" => pc[j] = "fetch"
    BY <1>2 DEF FetchFails, TypeOK
  <2> QED
    BY <1>2, <2>1, CallsKeptOnward DEF FetchFails, rowVars, histVars
<1>3. CASE Start(i) \/ BeginShutdown(i) \/ Poll(i) \/ ReadLocked(i) \/ PutBackFails(i) \/ SyncCache(i)
  BY <1>3, CallsKeptOnward DEF Start, BeginShutdown, Poll, ReadLocked, PutBackFails, SyncCache,
                               rowVars, loopVars, histVars
<1>4. CASE SaveLockedEvents(i)
  <2>1. pc[i] # "fetch"
    BY <1>4 DEF SaveLockedEvents, FetchesFirst, NoCalls
  <2>2. \A id \in Ids : call'[i][id] \in Unwritten <=> call[i][id] \in Unwritten
    BY <1>4 DEF SaveLockedEvents, TypeOK, Unwritten
  <2>3. \A j \in Instances : j # i => call'[j] = call[j]
    BY <1>4 DEF SaveLockedEvents, TypeOK
  <2> QED
    BY <1>4, <2>1, <2>2, <2>3, CallsMoveOnward DEF SaveLockedEvents, rowVars, histVars
<1>5. ASSUME NEW id \in Ids,
             \/ SkipUnknown(i, id) \/ CallWebhook(i, id) \/ SetActionStatusFails(i, id)
             \/ RemoveLockedEvent(i, id)
      PROVE  Onward
  <2>1. pc[i] # "fetch" /\ pc' = pc /\ UNCHANGED <<log, doubted>> /\ lost \subseteq lost'
    BY <1>5 DEF SkipUnknown, CallWebhook, SetActionStatusFails, RemoveLockedEvent, FetchesFirst,
                NoCalls, rowVars, histVars
  <2>2. PICK c : /\ call' = [call EXCEPT ![i][id] = c]
                 /\ c \in Unwritten => call[i][id] \in Unwritten
                 /\ call[i][id] \in Unwritten => c \in Unwritten \/ id \in lost'
    BY <1>5 DEF SkipUnknown, CallWebhook, SetActionStatusFails, RemoveLockedEvent, Unwritten
  <2>3. \A d \in Ids : call'[i][d] = IF d = id THEN c ELSE call[i][d]
    BY <2>2 DEF TypeOK
  <2>4. \A j \in Instances : j # i => call'[j] = call[j]
    BY <2>2 DEF TypeOK
  <2> QED
    BY <2>1, <2>2, <2>3, <2>4, CallsMoveOnward
<1>6. CASE Crash(i) \/ StopThread(i)
  <2>1. /\ Forget(i) /\ UNCHANGED <<log, doubted>>
    BY <1>6 DEF Crash, StopThread, rowVars
  <2>2. /\ pc'[i] # "fetch"
        /\ \A j \in Instances : j # i => call'[j] = call[j] /\ pc'[j] = pc[j]
        /\ \A id \in Ids : call'[i][id] \notin Unwritten
    BY <2>1 DEF Forget, NoCalls, Unwritten, TypeOK
  <2>3. lost \subseteq lost' /\ \A id \in Ids : call[i][id] \in Unwritten => id \in lost'
    BY <2>1 DEF Forget, AtWork
  <2> QED
    BY <2>1, <2>2, <2>3, CallsMoveOnward
<1> QED
  BY <1>1, <1>2, <1>3, <1>4, <1>5, <1>6 DEF InstanceStep, CallStep

-------------------------------------------------------------------------------
(* Steps that write rows *)

LEMMA InsertStep ==
    ASSUME IInv, TypeOK', NEW i \in Instances, NEW id \in Ids, Insert(i, id)
    PROVE  IInv'
<1>1. /\ UNCHANGED <<call, pc, doubted, lost>>
      /\ log[id].status = "absent" /\ log'[id].status = "created"
      /\ \A d \in Ids : /\ d # id => log'[d] = log[d]
                        /\ log'[d].payload = log[d].payload /\ log'[d].errors = log[d].errors
  BY DEF Insert, IInv, TypeOK, Row, loopVars, histVars
<1>2. \A j \in Instances : AtWork(j)' = AtWork(j)
  BY <1>1 DEF AtWork
<1>3. RowsTellStatus' /\ OneResponseUnlessPutBack' /\ FetchesFirst'
  BY <1>1 DEF IInv, RowsTellStatus, OneResponseUnlessPutBack, FetchesFirst
<1>4. ExclusiveUnlessPutBack' /\ ProcessingIsAttended'
  BY <1>1, <1>2 DEF IInv, ExclusiveUnlessPutBack, ProcessingIsAttended
<1> QED
  BY <1>3, <1>4 DEF IInv

LEMMA FetchStep ==
    ASSUME IInv, TypeOK', NEW i \in Instances, Fetch(i)
    PROVE  IInv'
<1>1. PICK S \in SUBSET Fetchable :
        /\ log' = [id \in Ids |->
                     IF id \in S THEN [log[id] EXCEPT !.status = "processing"] ELSE log[id]]
        /\ call' = [call EXCEPT ![i] = [id \in Ids |-> IF id \in S THEN "fetched" ELSE "idle"]]
  BY DEF Fetch
<1>2. /\ pc'[i] = "done" /\ \A j \in Instances : j # i => pc'[j] = pc[j]
      /\ UNCHANGED <<doubted, lost>> /\ call[i] = NoCalls
  BY DEF Fetch, IInv, TypeOK, FetchesFirst, histVars
<1>3. /\ AtWork(i)' = S /\ AtWork(i) = {}
      /\ \A j \in Instances : j # i => AtWork(j)' = AtWork(j) /\ call'[j] = call[j]
  BY <1>1, <1>2 DEF AtWork, Unwritten, NoCalls, IInv, TypeOK, Fetchable
<1>4. \A id \in Ids : /\ id \in S => log[id].status = "created" /\ log'[id].status = "processing"
                      /\ id \notin S => log'[id] = log[id]
                      /\ log'[id].payload = log[id].payload /\ log'[id].errors = log[id].errors
  BY <1>1 DEF Fetchable, IInv, TypeOK, Row
<1>5. RowsTellStatus' /\ OneResponseUnlessPutBack'
  BY <1>2, <1>4 DEF IInv, RowsTellStatus, OneResponseUnlessPutBack
<1>6. FetchesFirst'
  BY <1>2, <1>3 DEF IInv, FetchesFirst
<1>7. \A id \in S \ doubted : \A j \in Instances : id \notin AtWork(j)
  BY <1>4 DEF IInv, ExclusiveUnlessPutBack, Fetchable
<1>8. ExclusiveUnlessPutBack'
  BY <1>2, <1>3, <1>4, <1>7 DEF IInv, ExclusiveUnlessPutBack
<1>9. ProcessingIsAttended'
  <2> SUFFICES ASSUME NEW id \in Ids \ lost', log'[id].status = "processing"
               PROVE  \E j \in Instances : id \in AtWork(j)'
    BY DEF ProcessingIsAttended
  <2>1. CASE id \in S
    BY <1>3, <2>1
  <2>2. CASE id \notin S
    <3>1. PICK j \in Instances : id \in AtWork(j)
      BY <1>2, <1>4, <2>2 DEF IInv, ProcessingIsAttended
    <3> QED
      BY <1>3, <3>1
  <2> QED
    BY <2>1, <2>2
<1> QED
  BY <1>5, <1>6, <1>8, <1>9 DEF IInv

LEMMA SetActionStatusStep ==
    ASSUME IInv, TypeOK', NEW i \in Instances, NEW id \in Ids, SetActionStatus(i, id)
    PROVE  IInv'
<1>1. /\ call[i][id] \in {"completed", "error"}
      /\ log' = [log EXCEPT ![id] = SetResponse(@, call[i][id])]
      /\ call' = [call EXCEPT ![i][id] = "written"]
      /\ UNCHANGED <<pc, doubted, lost>>
  BY DEF SetActionStatus, histVars
<1>2. /\ id \in AtWork(i) /\ AtWork(i)' = AtWork(i) \ {id}
      /\ \A j \in Instances : j # i => AtWork(j)' = AtWork(j) /\ call'[j] = call[j]
  BY <1>1 DEF AtWork, Unwritten, IInv, TypeOK
<1>3. pc[i] # "fetch"
  BY <1>1 DEF IInv, FetchesFirst, NoCalls
<1>4. FetchesFirst'
  BY <1>1, <1>2, <1>3 DEF IInv, FetchesFirst
<1>5. \A d \in Ids : d # id => log'[d] = log[d]
  BY <1>1 DEF IInv, TypeOK
<1>6. \/ Exists(log[id]) /\ log'[id].status = call[i][id]
         /\ log'[id].payload = (log[id].payload \/ call[i][id] = "completed")
         /\ log'[id].errors = (log[id].errors \/ call[i][id] = "error")
      \/ ~Exists(log[id]) /\ log'[id] = log[id]
  <2>1. log[id] \in Row /\ log'[id] = SetResponse(log[id], call[i][id])
    BY <1>1 DEF IInv, TypeOK
  <2>2. CASE ~Exists(log[id])
    BY <2>1, <2>2 DEF SetResponse
  <2>3. CASE Exists(log[id]) /\ call[i][id] = "completed"
    BY <2>1, <2>3 DEF SetResponse, Row
  <2>4. CASE Exists(log[id]) /\ call[i][id] = "error"
    BY <2>1, <2>4 DEF SetResponse, Row
  <2> QED
    BY <1>1, <2>2, <2>3, <2>4
<1>7. RowsTellStatus'
  BY <1>1, <1>5, <1>6 DEF IInv, RowsTellStatus
<1>8. id \notin doubted => log[id].status \in {"processing", "deleted"}
  BY <1>2 DEF IInv, ExclusiveUnlessPutBack
<1>9. OneResponseUnlessPutBack'
  BY <1>1, <1>5, <1>6, <1>8 DEF IInv, OneResponseUnlessPutBack, RowsTellStatus
<1>10. ExclusiveUnlessPutBack'
  BY <1>1, <1>2, <1>5, <1>6 DEF IInv, ExclusiveUnlessPutBack
<1>11. log'[id].status # "processing"
  BY <1>1, <1>6 DEF Exists, IInv, TypeOK, Row, Statuses
<1>12. ProcessingIsAttended'
  BY <1>1, <1>2, <1>5, <1>11 DEF IInv, ProcessingIsAttended
<1> QED
  BY <1>4, <1>7, <1>9, <1>10, <1>12 DEF IInv

LEMMA PutBackStep ==
    ASSUME IInv, TypeOK', NEW i \in Instances, PutBack(i)
    PROVE  IInv'
<1>1. /\ UNCHANGED <<call, pc, lost>> /\ doubted \subseteq doubted'
      /\ \A j \in Instances : AtWork(j)' = AtWork(j)
  BY DEF PutBack, loopVars, AtWork
<1>2. \A id \in Ids :
        /\ log'[id].payload = log[id].payload /\ log'[id].errors = log[id].errors
        /\ \/ log'[id] = log[id]
           \/ /\ log[id].status = "processing" /\ log'[id].status = "created"
              /\ id \in doubted' \/ \A j \in Instances : id \notin AtWork(j)
  BY DEF PutBack, SetPending, IInv, TypeOK, Row
<1>3. RowsTellStatus' /\ OneResponseUnlessPutBack' /\ FetchesFirst'
  BY <1>1, <1>2 DEF IInv, RowsTellStatus, OneResponseUnlessPutBack, FetchesFirst
<1>4. ExclusiveUnlessPutBack'
  BY <1>1, <1>2 DEF IInv, ExclusiveUnlessPutBack
<1>5. ProcessingIsAttended'
  BY <1>1, <1>2 DEF IInv, ProcessingIsAttended
<1> QED
  BY <1>3, <1>4, <1>5 DEF IInv

LEMMA ClearActionDataStep ==
    ASSUME IInv, TypeOK', NEW a \in Actions, ClearActionData(a)
    PROVE  IInv'
<1>1. UNCHANGED <<call, pc, doubted, lost>> /\ \A j \in Instances : AtWork(j)' = AtWork(j)
  BY DEF ClearActionData, loopVars, histVars, AtWork
<1>2. \A id \in Ids : \/ log'[id] = log[id]
                      \/ /\ log'[id].status = "deleted"
                         /\ ~log'[id].payload /\ ~log'[id].errors
  BY DEF ClearActionData, NoRow, IInv, TypeOK
<1>3. RowsTellStatus' /\ OneResponseUnlessPutBack' /\ FetchesFirst'
  BY <1>1, <1>2 DEF IInv, RowsTellStatus, OneResponseUnlessPutBack, FetchesFirst
<1>4. ExclusiveUnlessPutBack' /\ ProcessingIsAttended'
  BY <1>1, <1>2 DEF IInv, ExclusiveUnlessPutBack, ProcessingIsAttended
<1> QED
  BY <1>3, <1>4 DEF IInv

-------------------------------------------------------------------------------
(* The invariant *)

LEMMA InvStep == IInv /\ [Next]_vars => IInv'
<1> SUFFICES ASSUME IInv, [Next]_vars PROVE IInv'
  OBVIOUS
<1>0. TypeOK'
  BY TypeStep DEF IInv
<1>1. CASE UNCHANGED vars
  BY <1>0, <1>1, CallsKeptOnward, OnwardKeeps DEF IInv, vars
<1>2. ASSUME NEW i \in Instances, InstanceStep(i)
      PROVE  IInv'
  BY <1>0, <1>2, FetchStep, PutBackStep, InsertStep, SetActionStatusStep, OnwardSteps, OnwardKeeps
<1>3. ASSUME NEW a \in Actions, CommandStep(a)
      PROVE  IInv'
  <2>1. CASE ClearActionData(a)
    BY <1>0, <2>1, ClearActionDataStep
  <2>2. CASE DropAction(a) \/ DropActionFails(a) \/ CreateAction(a)
    <3>1. UNCHANGED <<log, doubted, call, lost, pc>>
      BY <2>2 DEF DropAction, DropActionFails, CreateAction, loopVars, histVars
    <3> QED
      BY <1>0, <3>1, CallsKeptOnward, OnwardKeeps DEF IInv
  <2> QED
    BY <1>3, <2>1, <2>2 DEF CommandStep
<1> QED
  BY <1>1, <1>2, <1>3 DEF Next

\* The inductive invariant.
THEOREM InvariantHolds == Spec => []IInv
<1> QED
  BY InitInv, InvStep, PTL DEF Spec

\* Every reachable state is well typed.
THEOREM TypeCorrect == Spec => []TypeOK
<1>1. IInv => TypeOK
  BY DEF IInv
<1> QED
  BY <1>1, InvariantHolds, PTL

\* The webhook of an id is called by one instance at a time, unless a shutdown put the
\* row back under a running call.
THEOREM Exclusive == Spec => []ExclusiveUnlessPutBack
<1>1. IInv => ExclusiveUnlessPutBack
  BY DEF IInv
<1> QED
  BY <1>1, InvariantHolds, PTL

\* Otherwise an id never has both a response and errors.
THEOREM OneResponse == Spec => []OneResponseUnlessPutBack
<1>1. IInv => OneResponseUnlessPutBack
  BY DEF IInv
<1> QED
  BY <1>1, InvariantHolds, PTL

\* A row that says 'processing' has a call, unless a crash, a failed write, an unknown
\* action or the end of a process took it away.
THEOREM Attended == Spec => []ProcessingIsAttended
<1>1. IInv => ProcessingIsAttended
  BY DEF IInv
<1> QED
  BY <1>1, InvariantHolds, PTL

-------------------------------------------------------------------------------
(* The implementation of ActionResponses *)

Waiting == {id \in Ids : log[id].status \in {"created", "processing"}}
Given   == [id \in Ids |-> ResponsesOf(log[id])]

\* Which step of ActionResponses a write to the row of one id is.
LEMMA RespondStep ==
    ASSUME IInv, NEW i \in Instances, NEW id \in Ids, SetActionStatus(i, id)
    PROVE  [Promise!Next]_(Promise!vars)
<1>1. /\ call[i][id] \in {"completed", "error"} /\ log[id] \in Row
      /\ log'[id] = SetResponse(log[id], call[i][id])
      /\ \A d \in Ids : d # id => log'[d] = log[d]
  BY DEF SetActionStatus, IInv, TypeOK
<1>2. CASE ~Exists(log[id])
  <2>1. \A d \in Ids : log'[d] = log[d]
    BY <1>1, <1>2 DEF SetResponse
  <2>2. Waiting' = Waiting /\ Given' = Given
    BY <2>1 DEF Waiting, Given, ResponsesOf
  <2> QED
    BY <2>2 DEF Promise!vars, Waiting, Given
<1>3. CASE Exists(log[id])
  <2>1. PICK column \in Promise!Columns :
          ResponsesOf(log'[id]) = ResponsesOf(log[id]) \cup {column}
    <3>1. CASE call[i][id] = "completed"
      <4>1. log'[id].payload /\ log'[id].errors = log[id].errors
        BY <1>1, <1>3, <3>1 DEF SetResponse, Row
      <4>2. ResponsesOf(log'[id]) = ResponsesOf(log[id]) \cup {"response_payload"}
        BY <4>1 DEF ResponsesOf
      <4> QED
        BY <4>2 DEF Promise!Columns
    <3>2. CASE call[i][id] = "error"
      <4>1. log'[id].errors /\ log'[id].payload = log[id].payload
        BY <1>1, <1>3, <3>2 DEF SetResponse, Row
      <4>2. ResponsesOf(log'[id]) = ResponsesOf(log[id]) \cup {"errors"}
        BY <4>1 DEF ResponsesOf
      <4> QED
        BY <4>2 DEF Promise!Columns
    <3> QED
      BY <1>1, <3>1, <3>2
  <2>2. log'[id].status \in {"completed", "error"}
    BY <1>1, <1>3 DEF SetResponse, Row
  <2>3. id \in Waiting \/ Given[id] # {}
    <3>1. log[id].status \in {"created", "processing", "completed", "error"}
      BY <1>1, <1>3 DEF Exists, Row, Statuses
    <3>2. CASE log[id].status \in {"completed", "error"}
      BY <3>2 DEF IInv, RowsTellStatus, Given, ResponsesOf
    <3> QED
      BY <3>1, <3>2 DEF Waiting
  <2>4. Waiting' = Waiting \ {id}
    BY <1>1, <2>2 DEF Waiting
  <2>5. Given' = [Given EXCEPT ![id] = @ \cup {column}]
    BY <1>1, <2>1 DEF Given
  <2> QED
    BY <2>3, <2>4, <2>5 DEF Promise!Next, Promise!Respond, Waiting, Given
<1> QED
  BY <1>2, <1>3

LEMMA SubmitStep ==
    ASSUME IInv, NEW i \in Instances, NEW id \in Ids, Insert(i, id)
    PROVE  [Promise!Next]_(Promise!vars)
<1>1. /\ log[id].status = "absent" /\ log'[id].status = "created"
      /\ \A d \in Ids : d # id => log'[d] = log[d]
      /\ log'[id].payload = log[id].payload /\ log'[id].errors = log[id].errors
  BY DEF Insert, IInv, TypeOK, Row
<1>2. ~log[id].payload /\ ~log[id].errors
  BY <1>1 DEF IInv, RowsTellStatus
<1>3. id \notin Waiting /\ Given[id] = {}
  BY <1>1, <1>2 DEF Waiting, Given, ResponsesOf
<1>4. Waiting' = Waiting \cup {id}
  BY <1>1 DEF Waiting
<1>5. Given' = Given
  BY <1>1 DEF Given, ResponsesOf
<1> QED
  BY <1>3, <1>4, <1>5 DEF Promise!Next, Promise!Submit, Waiting, Given

LEMMA ClearStep ==
    ASSUME IInv, NEW a \in Actions, ClearActionData(a)
    PROVE  [Promise!Next]_(Promise!vars)
<1> DEFINE S == {id \in Ids : ActionOf[id] = a /\ Exists(log[id])}
<1>1. \A id \in Ids : IF id \in S THEN /\ log'[id].status = "deleted"
                                       /\ ~log'[id].payload /\ ~log'[id].errors
                                  ELSE log'[id] = log[id]
  BY DEF ClearActionData, NoRow
<1>2. Waiting' = Waiting \ S
  BY <1>1 DEF Waiting
<1>3. Given' = [id \in Ids |-> IF id \in S THEN {} ELSE Given[id]]
  <2>1. \A id \in Ids : ResponsesOf(log'[id]) = IF id \in S THEN {} ELSE ResponsesOf(log[id])
    BY <1>1 DEF ResponsesOf
  <2> QED
    BY <2>1 DEF Given
<1> HIDE DEF S
<1>4. S \in SUBSET Ids
  BY DEF S
<1> QED
  BY <1>2, <1>3, <1>4 DEF Promise!Next, Promise!Clear, Waiting, Given

\* Steps that only move rows between 'created' and 'processing', or write none.
LEMMA SilentStep ==
    ASSUME \A id \in Ids :
              /\ log'[id].payload = log[id].payload /\ log'[id].errors = log[id].errors
              /\ \/ log'[id].status = log[id].status
                 \/ {log[id].status, log'[id].status} \subseteq {"created", "processing"}
    PROVE  [Promise!Next]_(Promise!vars)
<1>1. Waiting' = Waiting /\ Given' = Given
  BY DEF Waiting, Given, ResponsesOf
<1> QED
  BY <1>1 DEF Promise!vars, Waiting, Given

LEMMA ResponsesStep ==
    ASSUME IInv, [Next]_vars
    PROVE  [Promise!Next]_(Promise!vars)
<1>0. TypeOK'
  BY TypeStep DEF IInv
<1>1. CASE log' = log
  BY <1>1, SilentStep
<1>2. ASSUME NEW i \in Instances, Fetch(i) \/ PutBack(i)
      PROVE  [Promise!Next]_(Promise!vars)
  <2>1. \A id \in Ids :
          /\ log'[id].payload = log[id].payload /\ log'[id].errors = log[id].errors
          /\ \/ log'[id].status = log[id].status
             \/ {log[id].status, log'[id].status} \subseteq {"created", "processing"}
    <3>1. CASE Fetch(i)
      BY <3>1 DEF Fetch, Fetchable, IInv, TypeOK, Row
    <3>2. CASE PutBack(i)
      BY <3>2 DEF PutBack, SetPending, IInv, TypeOK, Row
    <3> QED
      BY <1>2, <3>1, <3>2
  <2> QED
    BY <2>1, SilentStep
<1>3. ASSUME NEW i \in Instances, InstanceStep(i)
      PROVE  [Promise!Next]_(Promise!vars)
  <2>1. CASE \E id \in Ids : Insert(i, id) \/ SetActionStatus(i, id)
    BY <2>1, SubmitStep, RespondStep
  <2>2. CASE Fetch(i) \/ PutBack(i)
    BY <1>2, <2>2
  <2>3. CASE /\ ~Fetch(i) /\ ~PutBack(i)
             /\ \A id \in Ids : ~Insert(i, id) /\ ~SetActionStatus(i, id)
    <3>1. Onward
      BY <1>0, <1>3, <2>3, OnwardSteps
    <3> QED
      BY <1>1, <3>1 DEF Onward
  <2> QED
    BY <2>1, <2>2, <2>3
<1>4. ASSUME NEW a \in Actions, CommandStep(a)
      PROVE  [Promise!Next]_(Promise!vars)
  BY <1>1, <1>4, ClearStep DEF CommandStep, DropAction, DropActionFails, CreateAction
<1>5. CASE UNCHANGED vars
  BY <1>1, <1>5 DEF vars
<1> QED
  BY <1>3, <1>4, <1>5 DEF Next

\* What clients see of the action log is what ActionResponses promises: an accepted
\* action stays open until it is answered or cleared, and an answer stays.
THEOREM ResponsesImplemented == Spec => ImplementsResponses
<1>1. Init => Promise!Init
  BY DEF Init, Promise!Init, NoRow, ResponsesOf
<1> QED
  BY <1>1, ResponsesStep, InvariantHolds, PTL DEF Spec, ImplementsResponses, Promise!Spec
===============================================================================
