--------------------------- MODULE WebSocket_proofs ----------------------------
(*****************************************************************************)
(* Proofs that the connections of WebSocket lose no subscriber, for any       *)
(* connections, operation ids, subscribers, changes of the action log and     *)
(* number of failures.                                                       *)
(*****************************************************************************)
EXTENDS WebSocket, TLAPS

\* The subscribers in the OperationMaps have been registered.
Known == \A c \in Conns : \A o \in DOMAIN opMap[c] : opMap[c][o] \in live \cup closed

\* What the thread of a connection has found out stays so until it acts on it, unless the
\* processor of async actions has touched the operation: an operation that is started has
\* no entry, one that is stopped has the entry that was looked up, and a subscriber that
\* is to be entered belongs to the operation.
Handled ==
    \A c \in Conns :
        LET h == rcv[c]
            Touched == <<c, h.op>> \in meddled
        IN
        /\ h.pc # "idle" => conn[c] = "open" /\ h.op \in OpIds
        /\ h.pc \in {"planning", "inserting"} => h.op \notin DOMAIN opMap[c] \/ Touched
        /\ h.pc = "inserting" => h.sub \in live \cup closed /\ owner[h.sub] = <<c, h.op>>
        /\ h.pc = "removing" /\ h.op \in DOMAIN opMap[c] => opMap[c][h.op] = h.sub \/ Touched
        /\ h.pc = "deleting" /\ h.op \in DOMAIN opMap[c] => opMap[c][h.op] \notin live \/ Touched

\* The processor writes to the OperationMap only under operations that it has touched.
Worked ==
    /\ proc.pc # "idle" => proc.op \in OpIds /\ proc.entry \in Entry
    /\ proc.pc = "inserting" => proc.sub \in live \cup closed
    /\ proc.pc \in {"removing", "deleting", "adding", "inserting", "updating"} =>
          <<proc.entry.conn, proc.op>> \in meddled

\* OwnedUnlessMeddled, where the thread of the connection counts only until the subscriber
\* is in the OperationMap.
Held(s) ==
    LET c == owner[s][1]  o == owner[s][2] IN
    /\ owner[s] \in Conns \X OpIds
    /\ \/ owner[s] \in meddled
       \/ /\ conn[c] \in {"open", "closing"}
          /\ (o \in DOMAIN opMap[c] /\ opMap[c][o] = s) \/ (rcv[c].pc = "inserting" /\ rcv[c].sub = s)
       \/ conn[c] = "cleaning" /\ s \in toClose[c]

Inv  == Known /\ Handled /\ Worked /\ \A s \in live : Held(s)
IInv == TypeOK /\ Inv

-------------------------------------------------------------------------------
(* Finite maps and the registry *)

LEMMA PutMap ==
    ASSUME NEW S, NEW T, NEW f, IsMap(f, S, T), NEW x \in S, NEW v \in T, NEW g, g = Put(f, x, v)
    PROVE  /\ IsMap(g, S, T) /\ DOMAIN g = DOMAIN f \cup {x} /\ g[x] = v
           /\ \A y \in DOMAIN f : y # x => g[y] = f[y]
BY DEF Put, IsMap

LEMMA DeleteMap ==
    ASSUME NEW S, NEW T, NEW f, IsMap(f, S, T), NEW x, NEW g, g = Delete(f, x)
    PROVE  /\ IsMap(g, S, T) /\ DOMAIN g = DOMAIN f \ {x}
           /\ \A y \in DOMAIN g : g[y] = f[y]
BY DEF Delete, IsMap, Restrict

LEMMA NoMapIsMap == ASSUME NEW S, NEW T PROVE IsMap(NoMap, S, T) /\ DOMAIN NoMap = {}
BY DEF IsMap, NoMap

\* Whoever is added was never registered before.
LEMMA AddFresh ==
    ASSUME TypeOK, NEW c \in Conns, NEW o \in OpIds, AddSubscriber(Fresh, c, o)
    PROVE  /\ Fresh \in Subs \ (live \cup closed)
           /\ live' = live \cup {Fresh} /\ closed' = closed
           /\ live' \subseteq Subs
           /\ owner' = [owner EXCEPT ![Fresh] = <<c, o>>]
           /\ owner' \in [Subs -> (Conns \X OpIds) \cup {<<None, None>>}]
<1>1. \E s \in Subs : s \notin live \cup closed
  BY DEF AddSubscriber
<1>2. Fresh \in Subs /\ Fresh \notin live \cup closed
  BY <1>1 DEF Fresh
<1> HIDE DEF Fresh
<1> QED
  BY <1>2 DEF AddSubscriber, Registry!Add, TypeOK

\* Whoever is removed stays known.
LEMMA RemoveKnown ==
    ASSUME TypeOK, NEW s, RemoveSubscriber(s)
    PROVE  /\ live' = live \ {s} /\ live' \cup closed' = live \cup closed
           /\ live' \subseteq Subs /\ closed' \subseteq Subs
BY DEF RemoveSubscriber, Registry!Remove, regVars, TypeOK

\* Every entry that is lost belongs to an operation of a connection.
LEMMA LosesToType ==
    ASSUME TypeOK, NEW o \in OpIds, NEW entry \in Entry
    PROVE  LosesTo(o, entry) \subseteq Conns \X OpIds
<1>1. \A x \in DOMAIN asyncMap : asyncMap[x].conn \in Conns
  BY DEF TypeOK, IsMap, Entry
<1>2. entry.conn \in Conns
  BY DEF Entry
<1> QED
  BY <1>1, <1>2 DEF LosesTo

LEMMA PutEntryType ==
    ASSUME TypeOK, NEW o \in OpIds, NEW entry \in Entry, PutEntry(o, entry)
    PROVE  IsMap(asyncMap', OpIds, Entry) /\ lost' \subseteq Conns \X OpIds
<1>1. IsMap(asyncMap', OpIds, Entry)
  BY PutMap DEF PutEntry, TypeOK
<1> QED
  BY <1>1, LosesToType DEF PutEntry, TypeOK

LEMMA InitInv == Init => IInv
<1> SUFFICES ASSUME Init PROVE IInv
  OBVIOUS
<1>1. TypeOK
  <2>1. \A c \in Conns : IsMap(opMap[c], OpIds, Subs)
    BY NoMapIsMap DEF Init
  <2>2. IsMap(asyncMap, OpIds, Entry) /\ IsMap(todo, OpIds, Entry)
    BY NoMapIsMap DEF Init
  <2>3. Idle \in Handling /\ Resting \in Working
    BY WebSocketAssumption DEF Idle, Handling, Kinds, Resting, Working
  <2>4. live = {} /\ closed = {}
    BY DEF Init, Registry!Init
  <2>5. level \in 0 .. MaxLevel /\ starts \in 0 .. MaxStarts /\ disturbances \in 0 .. MaxDisturbances
    BY WebSocketAssumption DEF Init
  <2> QED
    BY <2>1, <2>2, <2>3, <2>4, <2>5 DEF Init, TypeOK
<1>2. Known
  BY NoMapIsMap DEF Init, Known
<1>3. Handled /\ Worked
  BY DEF Init, Handled, Worked, Idle, Resting
<1>4. \A s \in live : Held(s)
  BY DEF Init, Registry!Init
<1> QED
  BY <1>1, <1>2, <1>3, <1>4 DEF IInv, Inv

-------------------------------------------------------------------------------
(* Types *)

LEMMA Constants == Idle \in Handling /\ Resting \in Working /\ Idle.pc = "idle" /\ Resting.pc = "idle"
BY WebSocketAssumption DEF Idle, Handling, Kinds, Resting, Working

LEMMA DisturbType == ASSUME TypeOK, Disturb PROVE disturbances' \in 0 .. MaxDisturbances
BY WebSocketAssumption DEF Disturb, TypeOK

\* The connections.
LEMMA ConnType ==
    ASSUME IInv, NEW c \in Conns,
           \/ AcceptRequest(c) \/ WhenAcceptingInsertConn(c) \/ ConnEnds(c) \/ Closing(c)
           \/ OnConnInit(c) \/ OnConnInitFails(c)
    PROVE  TypeOK'
<1> USE DEF regVars, procVars, histVars, connVars, IInv
<1>1. CASE AcceptRequest(c)
  BY <1>1 DEF AcceptRequest, TypeOK
<1>2. CASE WhenAcceptingInsertConn(c)
  BY <1>2 DEF WhenAcceptingInsertConn, InsertConn, TypeOK
<1>3. CASE ConnEnds(c)
  <2>1. disturbances' \in 0 .. MaxDisturbances
    BY <1>3, DisturbType DEF ConnEnds, TypeOK
  <2>2. rcv' \in [Conns -> Handling]
    BY <1>3, Constants DEF ConnEnds, TypeOK
  <2> QED
    BY <1>3, <2>1, <2>2 DEF ConnEnds, TypeOK
<1>4. CASE OnClose(c)
  <2>1. {opMap[c][o] : o \in DOMAIN opMap[c]} \subseteq Subs
    BY DEF TypeOK, IsMap
  <2>2. toClose' \in [Conns -> SUBSET Subs]
    BY <1>4, <2>1 DEF OnClose, TypeOK
  <2> QED
    BY <1>4, <2>2 DEF OnClose, TypeOK
<1>5. ASSUME NEW s \in Subs, OnCloseRemove(c, s)
      PROVE  TypeOK'
  <2>1. live' \subseteq Subs /\ closed' \subseteq Subs
    BY <1>5, RemoveKnown DEF OnCloseRemove
  <2> QED
    BY <1>5, <2>1 DEF OnCloseRemove, TypeOK
<1>6. CASE OnCloseDone(c)
  BY <1>6 DEF OnCloseDone, TypeOK
<1>7. CASE OnConnInit(c)
  BY <1>7 DEF OnConnInit, TypeOK
<1>8. CASE OnConnInitFails(c)
  <2>1. disturbances' \in 0 .. MaxDisturbances
    BY <1>8, DisturbType DEF OnConnInitFails
  <2> QED
    BY <1>8, <2>1 DEF OnConnInitFails, TypeOK
<1> QED
  BY <1>1, <1>2, <1>3, <1>4, <1>5, <1>6, <1>7, <1>8 DEF Closing

\* The thread that handles the messages of a connection.
LEMMA ReceiveType ==
    ASSUME IInv, NEW c \in Conns,
           \/ Receiving(c)
           \/ \E o \in OpIds : OnStop(c, o) \/ \E kind \in Kinds : OnStart(c, o, kind)
    PROVE  TypeOK'
<1> USE DEF regVars, procVars, histVars, connVars, IInv
<1> DEFINE h == rcv[c]
<1>0. /\ h \in Handling
      /\ h.pc # "idle" => h.op \in OpIds
      /\ h.pc = "inserting" => h.sub \in Subs
      /\ h.sub \in Subs \cup {None} /\ h.log \in 0 .. MaxLevel /\ h.kind \in Kinds
  BY DEF TypeOK, Handling, Inv, Handled
<1>1. ASSUME NEW o \in OpIds, NEW kind \in Kinds, OnStart(c, o, kind)
      PROVE  TypeOK'
  <2>1. rcv' \in [Conns -> Handling]
    BY <1>1 DEF OnStart, TypeOK, Handling
  <2>2. starts' \in 0 .. MaxStarts
    BY <1>1, WebSocketAssumption DEF OnStart, TypeOK
  <2> QED
    BY <1>1, <2>1, <2>2 DEF OnStart, TypeOK
<1>2. CASE OnStartFails(c)
  <2>1. rcv' \in [Conns -> Handling] /\ disturbances' \in 0 .. MaxDisturbances
    BY <1>2, Constants, DisturbType DEF OnStartFails, TypeOK
  <2> QED
    BY <1>2, <2>1 DEF OnStartFails, TypeOK
<1>3. CASE StartQuery(c)
  <2>1. /\ Fresh \in Subs /\ live' \subseteq Subs /\ closed' = closed
        /\ owner' \in [Subs -> (Conns \X OpIds) \cup {<<None, None>>}]
    BY <1>0, <1>3, AddFresh DEF StartQuery
  <2> HIDE DEF Fresh
  <2>2. Started(h, Fresh) \in Handling
    BY <1>0, <2>1 DEF Started, Handling
  <2>3. rcv' \in [Conns -> Handling]
    BY <1>3, <2>2 DEF StartQuery, TypeOK
  <2> QED
    BY <1>3, <2>1, <2>3 DEF StartQuery, TypeOK
<1>4. CASE InsertOp(c)
  <2>1. h.op \in OpIds /\ h.sub \in Subs
    BY <1>0, <1>4 DEF InsertOp
  <2>2. [h EXCEPT !.pc = "listing"] \in Handling
    BY <1>0 DEF Handling
  <2>3. rcv' \in [Conns -> Handling]
    BY <1>4, <2>2, Constants DEF InsertOp, TypeOK
  <2> DEFINE g == Put(opMap[c], h.op, h.sub)
  <2>4. IsMap(g, OpIds, Subs)
    BY <2>1, PutMap DEF TypeOK
  <2>5. opMap' = [opMap EXCEPT ![c] = g]
    BY <1>4 DEF InsertOp
  <2> HIDE DEF g
  <2>6. DOMAIN opMap' = Conns /\ \A d \in Conns : IsMap(opMap'[d], OpIds, Subs)
    BY <2>4, <2>5 DEF TypeOK
  <2>7. wanted' \subseteq Conns \X OpIds
    BY <1>4, <2>1 DEF InsertOp, TypeOK
  <2> QED
    BY <1>4, <2>3, <2>6, <2>7 DEF InsertOp, TypeOK
<1>5. CASE ListAsyncActions(c)
  <2> DEFINE entry == [conn |-> c, sub |-> h.sub, log |-> IF h.kind = "action" THEN h.log ELSE 0]
  <2>1. h.op \in OpIds /\ entry \in Entry /\ PutEntry(h.op, entry)
    BY <1>0, <1>5, WebSocketAssumption DEF ListAsyncActions, Entry
  <2>2. IsMap(asyncMap', OpIds, Entry) /\ lost' \subseteq Conns \X OpIds
    <3> HIDE DEF entry
    <3> QED
      BY <2>1, PutEntryType
  <2>3. wanted' \subseteq Conns \X OpIds
    BY <1>5, <2>1 DEF ListAsyncActions, TypeOK
  <2>4. rcv' \in [Conns -> Handling]
    BY <1>5, Constants DEF ListAsyncActions, TypeOK
  <2> QED
    BY <1>5, <2>2, <2>3, <2>4 DEF ListAsyncActions, TypeOK
<1>6. ASSUME NEW o \in OpIds, OnStop(c, o)
      PROVE  TypeOK'
  <2>1. o \in DOMAIN opMap[c] => opMap[c][o] \in Subs
    BY DEF TypeOK, IsMap
  <2>2. /\ o \in DOMAIN opMap[c] =>
              [Idle EXCEPT !.pc = "removing", !.op = o, !.sub = opMap[c][o]] \in Handling
        /\ [Idle EXCEPT !.pc = "deleting", !.op = o] \in Handling
    BY <2>1, Constants DEF Handling
  <2>3. rcv' \in [Conns -> Handling]
    BY <1>6, <2>2 DEF OnStop, TypeOK
  <2>4. wanted' \subseteq Conns \X OpIds
    BY <1>6 DEF OnStop, TypeOK
  <2>5. disturbances' \in 0 .. MaxDisturbances
    BY <1>6, DisturbType DEF OnStop
  <2> QED
    BY <1>6, <2>3, <2>4, <2>5 DEF OnStop, TypeOK
<1>7. CASE StopRemove(c)
  <2>1. live' \subseteq Subs /\ closed' \subseteq Subs
    BY <1>7, RemoveKnown DEF StopRemove
  <2>2. [h EXCEPT !.pc = "deleting"] \in Handling
    BY <1>0 DEF Handling
  <2>3. rcv' \in [Conns -> Handling]
    BY <1>7, <2>2 DEF StopRemove, TypeOK
  <2> QED
    BY <1>7, <2>1, <2>3 DEF StopRemove, TypeOK
<1>8. CASE StopDelete(c)
  <2> DEFINE g == Delete(opMap[c], h.op)
  <2>1. IsMap(g, OpIds, Subs)
    BY DeleteMap DEF TypeOK
  <2>2. opMap' = [opMap EXCEPT ![c] = g]
    BY <1>8 DEF StopDelete
  <2> HIDE DEF g
  <2>3. DOMAIN opMap' = Conns /\ \A d \in Conns : IsMap(opMap'[d], OpIds, Subs)
    BY <2>1, <2>2 DEF TypeOK
  <2>4. rcv' \in [Conns -> Handling]
    BY <1>8, Constants DEF StopDelete, TypeOK
  <2> QED
    BY <1>8, <2>3, <2>4 DEF StopDelete, TypeOK
<1> QED
  BY <1>1, <1>2, <1>3, <1>4, <1>5, <1>6, <1>7, <1>8 DEF Receiving

\* The processor of async actions.
LEMMA ProcessType ==
    ASSUME IInv, Processing \/ ActionAnswers \/ RestartFails \/ \E o \in OpIds : FetchLogFails(o)
    PROVE  TypeOK'
<1> USE DEF regVars, procVars, histVars, connVars, IInv
<1>0. /\ proc \in Working /\ proc.log \in 0 .. MaxLevel /\ proc.sub \in Subs \cup {None}
      /\ proc.pc # "idle" => /\ proc.op \in OpIds /\ proc.entry \in Entry
                             /\ proc.entry.conn \in Conns
                             /\ <<proc.entry.conn, proc.op>> \in Conns \X OpIds
      /\ proc.pc = "inserting" => proc.sub \in Subs
      /\ \A r \in {"deleting", "dropping", "adding"} : [proc EXCEPT !.pc = r] \in Working
  BY DEF TypeOK, Working, Entry, Inv, Worked
<1>1. CASE ActionAnswers
  <2>1. level' \in 0 .. MaxLevel
    BY <1>1, WebSocketAssumption DEF ActionAnswers, TypeOK
  <2> QED
    BY <1>1, <2>1 DEF ActionAnswers, TypeOK
<1>2. CASE ListOps
  BY <1>2 DEF ListOps, TypeOK
<1>3. ASSUME NEW o \in DOMAIN todo
      PROVE  /\ o \in OpIds /\ todo[o] \in Entry /\ todo[o].conn \in Conns
             /\ IsMap(Delete(todo, o), OpIds, Entry)
             /\ \A x \in DOMAIN opMap[todo[o].conn] : opMap[todo[o].conn][x] \in Subs
  <2>1. o \in OpIds /\ todo[o] \in Entry /\ todo[o].conn \in Conns
    BY DEF TypeOK, IsMap, Entry
  <2>2. IsMap(Delete(todo, o), OpIds, Entry)
    BY DeleteMap DEF TypeOK
  <2> QED
    BY <2>1, <2>2 DEF TypeOK, IsMap
<1>4. ASSUME NEW o \in OpIds, FetchLog(o)
      PROVE  TypeOK'
  <2>1. todo[o] \in Entry /\ IsMap(todo', OpIds, Entry)
    BY <1>3, <1>4 DEF FetchLog
  <2>2. \A r \in {"sending", "restarting"} :
            [pc |-> r, op |-> o, entry |-> todo[o], sub |-> None, log |-> level] \in Working
    BY <2>1 DEF Working, TypeOK
  <2>3. proc' \in Working
    BY <1>4, <2>2, Constants DEF FetchLog
  <2> QED
    BY <1>4, <2>1, <2>3 DEF FetchLog, TypeOK
<1>5. ASSUME NEW o \in OpIds, FetchLogFails(o)
      PROVE  TypeOK'
  <2> DEFINE e == todo[o]
  <2>1. e \in Entry /\ e.conn \in Conns /\ IsMap(todo', OpIds, Entry)
    BY <1>3, <1>5 DEF FetchLogFails
  <2>2. \A r \in {"dropping", "removing", "deleting"}, s \in Subs \cup {None} :
            [Resting EXCEPT !.pc = r, !.op = o, !.entry = e, !.sub = s] \in Working
    BY <2>1, Constants DEF Working
  <2>3. proc' \in Working
    <3>1. o \in DOMAIN opMap[e.conn] => opMap[e.conn][o] \in Subs
      BY <1>3, <1>5 DEF FetchLogFails
    <3> QED
      BY <1>5, <2>2, <3>1 DEF FetchLogFails
  <2>4. wanted' \subseteq Conns \X OpIds /\ meddled' \subseteq Conns \X OpIds
    <3>1. <<e.conn, o>> \in Conns \X OpIds
      BY <2>1
    <3>2. /\ wanted' = wanted \ {<<e.conn, o>>}
          /\ (meddled' = meddled \/ meddled' = meddled \cup {<<e.conn, o>>})
      BY <1>5 DEF FetchLogFails
    <3> QED
      BY <3>1, <3>2 DEF TypeOK
  <2>5. disturbances' \in 0 .. MaxDisturbances
    BY <1>5, DisturbType DEF FetchLogFails
  <2> QED
    BY <1>5, <2>1, <2>3, <2>4, <2>5 DEF FetchLogFails, TypeOK
<1>6. CASE ProcStopRemove \/ RestartRemove
  <2>1. live' \subseteq Subs /\ closed' \subseteq Subs
    BY <1>6, RemoveKnown DEF ProcStopRemove, RestartRemove
  <2>2. meddled' \subseteq Conns \X OpIds /\ proc' \in Working
    BY <1>0, <1>6 DEF ProcStopRemove, RestartRemove, TypeOK
  <2> QED
    BY <1>6, <2>1, <2>2 DEF ProcStopRemove, RestartRemove, TypeOK
<1>7. CASE ProcStopDelete
  <2> DEFINE c == proc.entry.conn
             g == Delete(opMap[c], proc.op)
  <2>1. c \in Conns
    BY <1>0, <1>7 DEF ProcStopDelete
  <2>2. IsMap(g, OpIds, Subs)
    BY <2>1, DeleteMap DEF TypeOK
  <2>3. opMap' = [opMap EXCEPT ![c] = g] /\ proc' = [proc EXCEPT !.pc = "dropping"]
    BY <1>7 DEF ProcStopDelete
  <2> HIDE DEF g
  <2>4. DOMAIN opMap' = Conns /\ \A d \in Conns : IsMap(opMap'[d], OpIds, Subs)
    BY <2>1, <2>2, <2>3 DEF TypeOK
  <2> QED
    BY <1>0, <1>7, <2>3, <2>4 DEF ProcStopDelete, TypeOK
<1>8. CASE SendResponse
  BY <1>0, <1>8, Constants DEF SendResponse, TypeOK
<1>9. CASE RestartAdd
  <2>1. /\ Fresh \in Subs /\ live' \subseteq Subs /\ closed' = closed
        /\ owner' \in [Subs -> (Conns \X OpIds) \cup {<<None, None>>}]
    BY <1>0, <1>9, AddFresh DEF RestartAdd
  <2> HIDE DEF Fresh
  <2>2. [proc EXCEPT !.pc = "inserting", !.sub = Fresh] \in Working
    BY <1>0, <2>1 DEF Working
  <2>3. wanted' \subseteq Conns \X OpIds
    BY <1>9 DEF RestartAdd, TypeOK
  <2> QED
    BY <1>9, <2>1, <2>2, <2>3 DEF RestartAdd, TypeOK
<1>10. CASE RestartFails
  <2>1. disturbances' \in 0 .. MaxDisturbances
    BY <1>10, DisturbType DEF RestartFails
  <2> QED
    BY <1>0, <1>10, <2>1 DEF RestartFails, TypeOK
<1>11. CASE RestartInsert
  <2> DEFINE c == proc.entry.conn
             g == Put(opMap[c], proc.op, proc.sub)
  <2>1. c \in Conns /\ proc.op \in OpIds /\ proc.sub \in Subs
    BY <1>0, <1>11 DEF RestartInsert
  <2>2. IsMap(g, OpIds, Subs)
    BY <2>1, PutMap DEF TypeOK
  <2>3. opMap' = [opMap EXCEPT ![c] = g]
    BY <1>11 DEF RestartInsert
  <2> HIDE DEF g
  <2>4. DOMAIN opMap' = Conns /\ \A d \in Conns : IsMap(opMap'[d], OpIds, Subs)
    BY <2>1, <2>2, <2>3 DEF TypeOK
  <2>5. proc' \in Working
    BY <1>0, <1>11 DEF RestartInsert, Working
  <2> QED
    BY <1>11, <2>4, <2>5 DEF RestartInsert, TypeOK
<1>12. CASE UpdateOp
  <2>1. proc.op \in OpIds /\ UpdatedEntry \in Entry
    BY <1>0, <1>12 DEF UpdateOp, UpdatedEntry, Entry
  <2>2. IsMap(asyncMap', OpIds, Entry) /\ lost' \subseteq Conns \X OpIds
    BY <1>12, <2>1, PutEntryType DEF UpdateOp
  <2> QED
    BY <1>12, <2>2, Constants DEF UpdateOp, TypeOK
<1>13. CASE DropOp
  <2>1. IsMap(asyncMap', OpIds, Entry)
    BY <1>13, DeleteMap DEF DropOp, TypeOK
  <2>2. lost' \subseteq Conns \X OpIds
    <3>1. \A x \in DOMAIN asyncMap : x \in OpIds /\ asyncMap[x].conn \in Conns
      BY DEF TypeOK, IsMap, Entry
    <3> QED
      BY <1>13, <3>1 DEF DropOp, TypeOK
  <2> QED
    BY <1>13, <2>1, <2>2, Constants DEF DropOp, TypeOK
<1> QED
  BY <1>1, <1>2, <1>4, <1>5, <1>6, <1>7, <1>8, <1>9, <1>10, <1>11, <1>12, <1>13 DEF Processing

-------------------------------------------------------------------------------
(* Subscribers and their connections *)

\* Steps that change nothing the invariant is about.
LEMMA Quiet ==
    ASSUME Inv, UNCHANGED <<conn, opMap, rcv, toClose, live, closed, proc, owner, meddled>>
    PROVE  Inv'
BY DEF Inv, Known, Handled, Worked, Held

\* A connection that is not open has no message under way, so its OperationMap is complete.
LEMMA ConnKeeps ==
    ASSUME IInv, NEW c \in Conns,
           \/ AcceptRequest(c) \/ WhenAcceptingInsertConn(c) \/ ConnEnds(c) \/ Closing(c)
           \/ OnConnInit(c) \/ OnConnInitFails(c)
    PROVE  Inv'
<1> USE DEF regVars, procVars, histVars, connVars, IInv
<1>1. ASSUME UNCHANGED <<opMap, live, closed, proc, owner, meddled>>
      PROVE  Known' /\ Worked'
  BY <1>1 DEF Inv, Known, Worked
<1>2. CASE AcceptRequest(c) \/ WhenAcceptingInsertConn(c) \/ OnCloseDone(c)
  <2>1. /\ UNCHANGED <<opMap, rcv, toClose, live, closed, proc, owner, meddled>>
        /\ \A d \in Conns : d # c => conn'[d] = conn[d]
        /\ conn'[c] \in {"accepted", "open", "closed"}
        /\ conn[c] \in {"new", "accepted"} \/ (conn[c] = "cleaning" /\ toClose[c] = {})
    <3>1. CASE AcceptRequest(c)
      <4>1. /\ UNCHANGED <<opMap, rcv, toClose, live, closed, proc, owner, meddled>> /\ conn[c] = "new"
            /\ conn' = [conn EXCEPT ![c] = IF status = "AcceptingConns" THEN "accepted" ELSE "closed"]
        BY <3>1 DEF AcceptRequest
      <4> QED
        BY <4>1 DEF TypeOK
    <3>2. CASE WhenAcceptingInsertConn(c)
      <4>1. /\ UNCHANGED <<opMap, rcv, toClose, live, closed, proc, owner, meddled>>
            /\ conn[c] = "accepted"
            /\ conn' = [conn EXCEPT ![c] = "open"] \/ conn' = [conn EXCEPT ![c] = "closed"]
        BY <3>2 DEF WhenAcceptingInsertConn, InsertConn
      <4> QED
        BY <4>1 DEF TypeOK
    <3>3. CASE OnCloseDone(c)
      BY <3>3 DEF OnCloseDone, TypeOK
    <3> QED
      BY <1>2, <3>1, <3>2, <3>3
  <2>2. Handled'
    BY <2>1 DEF Inv, Handled, TypeOK
  <2>3. \A s \in live' : Held(s)'
    BY <2>1 DEF Inv, Held, TypeOK
  <2> QED
    BY <1>1, <2>1, <2>2, <2>3 DEF Inv
<1>3. CASE ConnEnds(c)
  <2>1. /\ UNCHANGED <<opMap, toClose, live, closed, proc, owner, meddled>>
        /\ conn[c] = "open" /\ rcv[c].pc \in {"idle", "planning"}
        /\ conn' = [conn EXCEPT ![c] = "closing"] /\ rcv' = [rcv EXCEPT ![c] = Idle]
    BY <1>3 DEF ConnEnds
  <2>2. Handled'
    BY <2>1, Constants DEF Inv, Handled, TypeOK
  <2>3. \A s \in live' : Held(s)'
    BY <2>1 DEF Inv, Held, TypeOK
  <2> QED
    BY <1>1, <2>1, <2>2, <2>3 DEF Inv
<1>4. CASE OnClose(c)
  <2>1. /\ UNCHANGED <<opMap, rcv, live, closed, proc, owner, meddled>>
        /\ conn[c] = "closing" /\ conn' = [conn EXCEPT ![c] = "cleaning"]
        /\ toClose' = [toClose EXCEPT ![c] = {opMap[c][o] : o \in DOMAIN opMap[c]}]
    BY <1>4 DEF OnClose
  <2>2. Handled' /\ rcv[c].pc = "idle"
    BY <2>1 DEF Inv, Handled, TypeOK
  <2>3. \A s \in live' : Held(s)'
    BY <2>1, <2>2 DEF Inv, Held, TypeOK
  <2> QED
    BY <1>1, <2>1, <2>2, <2>3 DEF Inv
<1>5. ASSUME NEW s \in Subs, OnCloseRemove(c, s)
      PROVE  Inv'
  <2>1. /\ UNCHANGED <<conn, opMap, rcv, proc, owner, meddled>>
        /\ toClose' = [toClose EXCEPT ![c] = @ \ {s}]
        /\ live' = live \ {s} /\ live' \cup closed' = live \cup closed
    BY <1>5, RemoveKnown DEF OnCloseRemove
  <2>2. Handled' /\ Known' /\ Worked'
    BY <2>1 DEF Inv, Handled, Known, Worked
  <2>3. \A t \in live' : Held(t)'
    BY <2>1 DEF Inv, Held, TypeOK
  <2> QED
    BY <2>2, <2>3 DEF Inv
<1>6. CASE OnConnInit(c) \/ OnConnInitFails(c)
  BY <1>6, Quiet DEF OnConnInit, OnConnInitFails
<1> QED
  BY <1>2, <1>3, <1>4, <1>5, <1>6 DEF Closing

\* A message that is handled: the subscriber goes from addLiveQuery by way of the thread
\* into the OperationMap, and out of it after it was removed.
LEMMA ReceiveKeeps ==
    ASSUME IInv, NEW c \in Conns,
           \/ Receiving(c)
           \/ \E o \in OpIds : OnStop(c, o) \/ \E kind \in Kinds : OnStart(c, o, kind)
    PROVE  Inv'
<1> USE DEF regVars, procVars, histVars, connVars, IInv
<1> DEFINE h == rcv[c]
<1>0. /\ h.pc # "idle" => conn[c] = "open" /\ h.op \in OpIds
      /\ h.pc = "inserting" => h.sub \in Subs
  BY DEF Inv, Handled, TypeOK
<1>1. ASSUME NEW o \in OpIds, NEW kind \in Kinds, OnStart(c, o, kind)
      PROVE  Inv'
  <2>1. /\ UNCHANGED <<conn, opMap, toClose, live, closed, proc, owner, meddled>>
        /\ conn[c] = "open" /\ h = Idle /\ o \notin DOMAIN opMap[c]
        /\ rcv' = [rcv EXCEPT ![c] =
                      [pc |-> "planning", op |-> o, kind |-> kind, sub |-> None, log |-> level]]
    BY <1>1 DEF OnStart, MayStart
  <2>2. Known' /\ Worked'
    BY <2>1 DEF Inv, Known, Worked
  <2>3. Handled'
    BY <2>1 DEF Inv, Handled, TypeOK
  <2>4. \A s \in live' : Held(s)'
    BY <2>1, Constants DEF Inv, Held, TypeOK
  <2> QED
    BY <2>2, <2>3, <2>4 DEF Inv
<1>2. CASE OnStartFails(c) \/ ListAsyncActions(c)
  <2>1. /\ UNCHANGED <<conn, opMap, toClose, live, closed, proc, owner, meddled>>
        /\ h.pc \in {"planning", "listing"} /\ rcv' = [rcv EXCEPT ![c] = Idle]
    BY <1>2 DEF OnStartFails, ListAsyncActions
  <2>2. Known' /\ Worked'
    BY <2>1 DEF Inv, Known, Worked
  <2>3. Handled'
    BY <2>1, Constants DEF Inv, Handled, TypeOK
  <2>4. \A s \in live' : Held(s)'
    BY <2>1 DEF Inv, Held, TypeOK
  <2> QED
    BY <2>2, <2>3, <2>4 DEF Inv
<1>3. CASE StartQuery(c)
  <2>1. h.pc = "planning" /\ h.op \in OpIds /\ conn[c] = "open"
    BY <1>0, <1>3 DEF StartQuery
  <2>2. /\ Fresh \in Subs \ (live \cup closed) /\ live' = live \cup {Fresh} /\ closed' = closed
        /\ owner' = [owner EXCEPT ![Fresh] = <<c, h.op>>]
    BY <1>3, <2>1, AddFresh DEF StartQuery
  <2>3. /\ UNCHANGED <<conn, opMap, toClose, proc, meddled>>
        /\ rcv' = [rcv EXCEPT ![c] = Started(h, Fresh)]
    BY <1>3 DEF StartQuery
  <2> HIDE DEF Fresh
  <2>new. PICK new \in Subs : new = Fresh
    BY <2>2
  <2> DEFINE w == Started(h, new)
  <2>4. /\ w.pc = "inserting" /\ w.sub = new /\ w.op = h.op
        /\ new \in Subs /\ new \notin live \cup closed /\ live' = live \cup {new} /\ closed' = closed
        /\ owner' = [owner EXCEPT ![new] = <<c, h.op>>] /\ rcv' = [rcv EXCEPT ![c] = w]
    BY <2>2, <2>3, <2>new DEF Started, TypeOK, Handling
  <2> HIDE DEF w
  <2>5. Known' /\ Worked'
    BY <2>3, <2>4 DEF Inv, Known, Worked
  <2>6. owner'[new] = <<c, h.op>> /\ \A s \in Subs : s # new => owner'[s] = owner[s]
    BY <2>4 DEF TypeOK
  <2>7. rcv'[c] = w /\ \A d \in Conns : d # c => rcv'[d] = rcv[d]
    BY <2>4 DEF TypeOK
  <2>8. Handled'
    <3>1. ASSUME NEW d \in Conns, d # c
          PROVE  /\ rcv'[d].pc = "inserting" =>
                       rcv'[d].sub \in live' \cup closed' /\ owner'[rcv'[d].sub] = <<d, rcv'[d].op>>
                 /\ rcv'[d].pc = "deleting" /\ rcv'[d].op \in DOMAIN opMap[d] =>
                       opMap[d][rcv'[d].op] \notin live' \/ <<d, rcv'[d].op>> \in meddled
      <4>1. rcv[d].pc = "inserting" =>
               rcv[d].sub \in live \cup closed /\ owner[rcv[d].sub] = <<d, rcv[d].op>>
        BY DEF Inv, Handled
      <4>2. /\ \A o \in DOMAIN opMap[d] : opMap[d][o] \in live \cup closed
            /\ rcv[d].pc = "deleting" /\ rcv[d].op \in DOMAIN opMap[d] =>
                       opMap[d][rcv[d].op] \notin live \/ <<d, rcv[d].op>> \in meddled
        BY DEF Inv, Handled, Known
      <4> QED
        BY <2>4, <2>6, <2>7, <3>1, <4>1, <4>2 DEF TypeOK
    <3>2. \A d \in Conns : d # c =>
            /\ rcv'[d].pc # "idle" => conn'[d] = "open" /\ rcv'[d].op \in OpIds
            /\ rcv'[d].pc \in {"planning", "inserting"} =>
                  rcv'[d].op \notin DOMAIN opMap'[d] \/ <<d, rcv'[d].op>> \in meddled'
            /\ rcv'[d].pc = "removing" /\ rcv'[d].op \in DOMAIN opMap'[d] =>
                  opMap'[d][rcv'[d].op] = rcv'[d].sub \/ <<d, rcv'[d].op>> \in meddled'
      BY <2>3, <2>7 DEF Inv, Handled
    <3>3. h.op \notin DOMAIN opMap[c] \/ <<c, h.op>> \in meddled
      BY <2>1 DEF Inv, Handled
    <3> QED
      BY <2>1, <2>3, <2>4, <2>6, <2>7, <3>1, <3>2, <3>3 DEF Handled
  <2>9. \A s \in live' : Held(s)'
    <3>1. Held(new)'
      BY <2>1, <2>3, <2>4, <2>6, <2>7 DEF Held
    <3>2. ASSUME NEW s \in live PROVE Held(s)'
      <4>1. owner'[s] = owner[s] /\ Held(s)
        BY <2>4, <2>6 DEF Inv, TypeOK
      <4> QED
        BY <2>1, <2>3, <2>7, <4>1 DEF Held
    <3> QED
      BY <2>4, <3>1, <3>2
  <2> QED
    BY <2>5, <2>8, <2>9 DEF Inv
<1>4. CASE InsertOp(c)
  <2> DEFINE g == Put(opMap[c], h.op, h.sub)
  <2>1. /\ h.pc = "inserting" /\ h.op \in OpIds /\ h.sub \in Subs /\ conn[c] = "open"
        /\ h.sub \in live \cup closed /\ owner[h.sub] = <<c, h.op>>
        /\ h.op \notin DOMAIN opMap[c] \/ <<c, h.op>> \in meddled
    BY <1>0, <1>4 DEF InsertOp, Inv, Handled
  <2>2. /\ UNCHANGED <<conn, toClose, live, closed, proc, owner, meddled>>
        /\ opMap' = [opMap EXCEPT ![c] = g]
    BY <1>4 DEF InsertOp
  <2>3. /\ rcv'[c].pc \in {"listing", "idle"} /\ (rcv'[c].pc = "listing" => rcv'[c].op = h.op)
        /\ \A d \in Conns : d # c => rcv'[d] = rcv[d]
    BY <1>4, Constants DEF InsertOp, TypeOK, Handling
  <2>4. /\ DOMAIN g = DOMAIN opMap[c] \cup {h.op} /\ g[h.op] = h.sub
        /\ \A o \in DOMAIN opMap[c] : o # h.op => g[o] = opMap[c][o]
    <3>1. IsMap(opMap[c], OpIds, Subs) /\ g = Put(opMap[c], h.op, h.sub)
      BY DEF TypeOK
    <3> HIDE DEF g
    <3> QED
      BY <2>1, <3>1 DEF Put, IsMap
  <2> HIDE DEF g
  <2>5. opMap'[c] = g /\ \A d \in Conns : d # c => opMap'[d] = opMap[d]
    BY <2>2 DEF TypeOK
  <2>6. Known' /\ Worked'
    BY <2>1, <2>2, <2>4, <2>5 DEF Inv, Known, Worked
  <2>7. Handled'
    <3>1. ASSUME NEW d \in Conns, d # c
          PROVE  rcv'[d] = rcv[d] /\ opMap'[d] = opMap[d]
      BY <2>3, <2>5, <3>1
    <3> QED
      BY <2>1, <2>2, <2>3, <3>1 DEF Inv, Handled
  <2>8. ASSUME NEW s \in live'
        PROVE  Held(s)'
    <3>1. s \in live /\ Held(s) /\ owner'[s] = owner[s]
      BY <2>2 DEF Inv
    <3>2. PICK d \in Conns, o \in OpIds : owner[s] = <<d, o>>
      BY <3>1 DEF Held
    <3>3. CASE d # c
      BY <2>2, <2>3, <2>5, <3>1, <3>2, <3>3 DEF Held
    <3>4. CASE d = c /\ o = h.op
      BY <2>1, <2>2, <2>4, <2>5, <3>1, <3>2, <3>4 DEF Held
    <3>5. CASE d = c /\ o # h.op
      BY <2>1, <2>2, <2>4, <2>5, <3>1, <3>2, <3>5 DEF Held
    <3> QED
      BY <3>3, <3>4, <3>5
  <2> QED
    BY <2>6, <2>7, <2>8 DEF Inv
<1>5. ASSUME NEW o \in OpIds, OnStop(c, o)
      PROVE  Inv'
  <2>1. /\ UNCHANGED <<conn, opMap, toClose, live, closed, proc, owner, meddled>>
        /\ conn[c] = "open" /\ h = Idle
    BY <1>5 DEF OnStop
  <2>2. /\ \/ /\ rcv'[c].pc = "removing" /\ rcv'[c].sub = opMap[c][o]
           \/ /\ rcv'[c].pc = "deleting" /\ o \notin DOMAIN opMap[c]
        /\ rcv'[c].op = o
        /\ \A d \in Conns : d # c => rcv'[d] = rcv[d]
    BY <1>5 DEF OnStop, TypeOK, Idle
  <2>3. Known' /\ Worked'
    BY <2>1 DEF Inv, Known, Worked
  <2>4. Handled'
    BY <2>1, <2>2 DEF Inv, Handled
  <2>5. \A s \in live' : Held(s)'
    BY <2>1, <2>2, Constants DEF Inv, Held
  <2> QED
    BY <2>3, <2>4, <2>5 DEF Inv
<1>6. CASE StopRemove(c)
  <2>1. /\ UNCHANGED <<conn, opMap, toClose, proc, owner, meddled>>
        /\ h.pc = "removing" /\ live' = live \ {h.sub} /\ live' \cup closed' = live \cup closed
    BY <1>6, RemoveKnown DEF StopRemove
  <2>2. /\ rcv'[c].pc = "deleting" /\ rcv'[c].op = h.op
        /\ \A d \in Conns : d # c => rcv'[d] = rcv[d]
    BY <1>6 DEF StopRemove, TypeOK, Handling
  <2>3. Known' /\ Worked'
    BY <2>1 DEF Inv, Known, Worked
  <2>4. Handled'
    BY <2>1, <2>2 DEF Inv, Handled
  <2>5. \A s \in live' : Held(s)'
    BY <2>1, <2>2 DEF Inv, Held
  <2> QED
    BY <2>3, <2>4, <2>5 DEF Inv
<1>7. CASE StopDelete(c)
  <2> DEFINE g == Delete(opMap[c], h.op)
  <2>1. /\ UNCHANGED <<conn, toClose, live, closed, proc, owner, meddled>>
        /\ h.pc = "deleting" /\ opMap' = [opMap EXCEPT ![c] = g] /\ rcv' = [rcv EXCEPT ![c] = Idle]
    BY <1>7 DEF StopDelete
  <2>2. /\ DOMAIN g = DOMAIN opMap[c] \ {h.op}
        /\ \A o \in DOMAIN g : g[o] = opMap[c][o]
    <3>1. IsMap(opMap[c], OpIds, Subs) /\ g = Delete(opMap[c], h.op)
      BY DEF TypeOK
    <3> HIDE DEF g
    <3> QED
      BY <3>1 DEF Delete, Restrict, IsMap
  <2> HIDE DEF g
  <2>3. opMap'[c] = g /\ \A d \in Conns : d # c => opMap'[d] = opMap[d]
    BY <2>1 DEF TypeOK
  <2>4. rcv'[c] = Idle /\ \A d \in Conns : d # c => rcv'[d] = rcv[d]
    BY <2>1 DEF TypeOK
  <2>5. Known' /\ Worked'
    BY <2>1, <2>2, <2>3 DEF Inv, Known, Worked
  <2>6. Handled'
    BY <2>1, <2>3, <2>4, Constants DEF Inv, Handled
  <2>7. ASSUME NEW s \in live'
        PROVE  Held(s)'
    <3>1. s \in live /\ Held(s) /\ owner'[s] = owner[s]
      BY <2>1 DEF Inv
    <3>2. PICK d \in Conns, o \in OpIds : owner[s] = <<d, o>>
      BY <3>1 DEF Held
    <3>3. CASE d # c
      BY <2>1, <2>3, <2>4, <3>1, <3>2, <3>3 DEF Held
    <3>4. CASE d = c /\ o = h.op
      <4>1. h.op \in DOMAIN opMap[c] => opMap[c][h.op] # s \/ <<c, h.op>> \in meddled
        BY <2>1, <3>1 DEF Inv, Handled
      <4> QED
        BY <1>0, <2>1, <3>1, <3>2, <3>4, <4>1 DEF Held
    <3>5. CASE d = c /\ o # h.op
      BY <2>1, <2>2, <2>3, <3>1, <3>2, <3>5 DEF Held
    <3> QED
      BY <3>3, <3>4, <3>5
  <2> QED
    BY <2>5, <2>6, <2>7 DEF Inv
<1> QED
  BY <1>1, <1>2, <1>3, <1>4, <1>5, <1>6, <1>7 DEF Receiving

\* The processor writes to no OperationMap but under operations that it has touched, and
\* to no subscriber but those that it removes.
LEMMA ProcessKeeps ==
    ASSUME IInv, Processing \/ ActionAnswers \/ RestartFails \/ \E o \in OpIds : FetchLogFails(o)
    PROVE  Inv'
<1> USE DEF regVars, procVars, histVars, connVars, IInv
<1> DEFINE c == proc.entry.conn
           w == <<c, proc.op>>
<1>0. /\ proc \in Working
      /\ proc.pc # "idle" => proc.op \in OpIds /\ proc.entry \in Entry /\ c \in Conns
      /\ proc.pc = "inserting" => proc.sub \in Subs /\ proc.sub \in live \cup closed
      /\ proc.pc \in {"removing", "deleting", "adding", "inserting", "updating"} => w \in meddled
  BY DEF TypeOK, Working, Entry, Inv, Worked
\* The steps that only the processor sees.
<1>1. ASSUME UNCHANGED <<conn, opMap, rcv, toClose, live, closed, owner>>, Worked',
             meddled \subseteq meddled'
      PROVE  Inv'
  BY <1>1 DEF Inv, Known, Handled, Held
<1>2. CASE ActionAnswers \/ ListOps
  BY <1>2, Quiet DEF ActionAnswers, ListOps
<1>3. ASSUME NEW o \in OpIds, FetchLog(o) \/ FetchLogFails(o)
      PROVE  Inv'
  <2>1. todo[o] \in Entry
    BY <1>3 DEF FetchLog, FetchLogFails, TypeOK, IsMap
  <2>2. Worked' /\ meddled \subseteq meddled'
    <3>1. CASE FetchLog(o)
      <4>1. /\ meddled' = meddled /\ proc'.pc \in {"idle", "sending", "restarting"}
            /\ proc'.pc # "idle" => proc'.op = o /\ proc'.entry = todo[o]
        BY <3>1, Constants DEF FetchLog
      <4> QED
        BY <2>1, <4>1 DEF Worked
    <3>2. CASE FetchLogFails(o)
      <4> DEFINE e == todo[o]
      <4>1. /\ proc'.pc \in {"dropping", "removing", "deleting"} /\ proc'.op = o /\ proc'.entry = e
            /\ e.sub = None => proc'.pc = "dropping"
        BY <3>2 DEF FetchLogFails, Resting
      <4>2. meddled' = IF e.sub = None THEN meddled ELSE meddled \cup {<<e.conn, o>>}
        BY <3>2 DEF FetchLogFails
      <4> HIDE DEF e
      <4>3. e \in Entry
        BY <2>1 DEF e
      <4> QED
        BY <4>1, <4>2, <4>3 DEF Worked
    <3> QED
      BY <1>3, <3>1, <3>2
  <2> QED
    BY <1>1, <1>3, <2>2 DEF FetchLog, FetchLogFails
<1>4. CASE SendResponse \/ RestartFails \/ UpdateOp \/ DropOp
  <2>1. UNCHANGED <<conn, opMap, rcv, toClose, live, closed, owner, meddled>>
    BY <1>4 DEF SendResponse, RestartFails, UpdateOp, DropOp
  <2>2. proc' = Resting \/ (proc' = [proc EXCEPT !.pc = "dropping"] /\ proc.pc # "idle")
    BY <1>4 DEF SendResponse, RestartFails, UpdateOp, DropOp
  <2>3. Worked'
    BY <1>0, <2>2, Constants DEF Worked, Working
  <2> QED
    BY <1>1, <2>1, <2>3
<1>5. CASE ProcStopRemove \/ RestartRemove
  <2>1. PICK s : RemoveSubscriber(s)
    BY <1>5 DEF ProcStopRemove, RestartRemove
  <2>2. /\ UNCHANGED <<conn, opMap, rcv, toClose, owner>> /\ meddled \subseteq meddled'
        /\ live' = live \ {s} /\ live' \cup closed' = live \cup closed
    BY <1>5, <2>1, RemoveKnown DEF ProcStopRemove, RestartRemove
  <2>3. Worked'
    BY <1>0, <1>5 DEF ProcStopRemove, RestartRemove, Worked, Working
  <2>4. Known' /\ Handled'
    BY <2>2 DEF Inv, Known, Handled
  <2>5. \A t \in live' : Held(t)'
    BY <2>2 DEF Inv, Held
  <2> QED
    BY <2>3, <2>4, <2>5 DEF Inv
<1>6. CASE RestartAdd
  <2>1. proc.op \in OpIds /\ c \in Conns /\ w \in meddled
    BY <1>0, <1>6 DEF RestartAdd
  <2>fresh. /\ Fresh \in Subs \ (live \cup closed) /\ live' = live \cup {Fresh} /\ closed' = closed
            /\ owner' = [owner EXCEPT ![Fresh] = w]
    BY <1>6, <2>1, AddFresh DEF RestartAdd
  <2> HIDE DEF Fresh
  <2>new. PICK new \in Subs : new = Fresh
    BY <2>fresh
  <2>2. /\ new \in Subs /\ new \notin live \cup closed /\ live' = live \cup {new} /\ closed' = closed
        /\ owner' = [owner EXCEPT ![new] = w]
    BY <2>fresh, <2>new
  <2>3. /\ UNCHANGED <<conn, opMap, rcv, toClose, meddled>>
        /\ proc' = [proc EXCEPT !.pc = "inserting", !.sub = new]
    BY <1>6, <2>new DEF RestartAdd
  <2>4. owner'[new] = w /\ \A s \in Subs : s # new => owner'[s] = owner[s]
    BY <2>2 DEF TypeOK
  <2>5. Worked'
    BY <1>0, <1>6, <2>1, <2>2, <2>3 DEF Worked, Working, RestartAdd
  <2>6. Known'
    BY <2>2, <2>3 DEF Inv, Known
  <2>7. Handled'
    <3>1. ASSUME NEW d \in Conns
          PROVE  /\ rcv[d].pc = "inserting" =>
                       rcv[d].sub \in live' \cup closed' /\ owner'[rcv[d].sub] = <<d, rcv[d].op>>
                 /\ rcv[d].pc = "deleting" /\ rcv[d].op \in DOMAIN opMap[d] =>
                       opMap[d][rcv[d].op] \notin live' \/ <<d, rcv[d].op>> \in meddled
      <4>1. /\ rcv[d].pc = "inserting" =>
                  rcv[d].sub \in live \cup closed /\ owner[rcv[d].sub] = <<d, rcv[d].op>>
            /\ \A o \in DOMAIN opMap[d] : opMap[d][o] \in live \cup closed
            /\ rcv[d].pc = "deleting" /\ rcv[d].op \in DOMAIN opMap[d] =>
                       opMap[d][rcv[d].op] \notin live \/ <<d, rcv[d].op>> \in meddled
        BY DEF Inv, Handled, Known
      <4> QED
        BY <2>2, <2>4, <4>1 DEF TypeOK
    <3> QED
      BY <2>3, <3>1 DEF Inv, Handled
  <2>8. \A s \in live' : Held(s)'
    <3>1. Held(new)'
      BY <2>1, <2>3, <2>4 DEF Held
    <3>2. ASSUME NEW s \in live PROVE Held(s)'
      <4>1. owner'[s] = owner[s] /\ Held(s)
        BY <2>2, <2>4 DEF Inv, TypeOK
      <4> QED
        BY <2>3, <4>1 DEF Held
    <3> QED
      BY <2>2, <3>1, <3>2
  <2> QED
    BY <2>5, <2>6, <2>7, <2>8 DEF Inv
<1>7. CASE RestartInsert \/ ProcStopDelete
  <2>1. /\ c \in Conns /\ proc.op \in OpIds /\ w \in meddled
        /\ proc.pc \in {"inserting", "deleting"}
    BY <1>0, <1>7 DEF RestartInsert, ProcStopDelete
  <2>2. UNCHANGED <<conn, rcv, toClose, live, closed, owner, meddled>>
    BY <1>7 DEF RestartInsert, ProcStopDelete
  <2>3. PICK g : /\ opMap' = [opMap EXCEPT ![c] = g]
                 /\ \A o \in OpIds : o # proc.op => (o \in DOMAIN g <=> o \in DOMAIN opMap[c])
                 /\ \A o \in DOMAIN g : o \in OpIds /\ g[o] \in live \cup closed
                 /\ \A o \in DOMAIN g : o # proc.op => g[o] = opMap[c][o]
    <3>0. /\ IsMap(opMap[c], OpIds, Subs)
          /\ \A o \in DOMAIN opMap[c] : o \in OpIds /\ opMap[c][o] \in live \cup closed
      BY <2>1 DEF TypeOK, IsMap, Inv, Known
    <3>1. CASE RestartInsert
      <4> DEFINE g == Put(opMap[c], proc.op, proc.sub)
      <4>1. /\ DOMAIN g = DOMAIN opMap[c] \cup {proc.op} /\ g[proc.op] = proc.sub
            /\ \A o \in DOMAIN opMap[c] : o # proc.op => g[o] = opMap[c][o]
            /\ proc.sub \in live \cup closed
        <5>1. proc.sub \in Subs /\ proc.sub \in live \cup closed /\ g = Put(opMap[c], proc.op, proc.sub)
          BY <1>0, <3>1 DEF RestartInsert
        <5> HIDE DEF g
        <5> QED
          BY <2>1, <3>0, <5>1 DEF Put, IsMap
      <4>2. opMap' = [opMap EXCEPT ![c] = g]
        BY <3>1 DEF RestartInsert
      <4> HIDE DEF g
      <4> QED
        BY <2>1, <3>0, <4>1, <4>2
    <3>2. CASE ProcStopDelete
      <4> DEFINE g == Delete(opMap[c], proc.op)
      <4>1. DOMAIN g = DOMAIN opMap[c] \ {proc.op} /\ \A o \in DOMAIN g : g[o] = opMap[c][o]
        <5>1. g = Delete(opMap[c], proc.op)
          OBVIOUS
        <5> HIDE DEF g
        <5> QED
          BY <3>0, <5>1 DEF Delete, Restrict, IsMap
      <4>2. opMap' = [opMap EXCEPT ![c] = g]
        BY <3>2 DEF ProcStopDelete
      <4> HIDE DEF g
      <4> QED
        BY <3>0, <4>1, <4>2
    <3> QED
      BY <1>7, <3>1, <3>2
  <2>4. opMap'[c] = g /\ \A d \in Conns : d # c => opMap'[d] = opMap[d]
    BY <2>1, <2>3 DEF TypeOK
  <2>5. Worked'
    BY <1>0, <1>7, <2>1, <2>2 DEF RestartInsert, ProcStopDelete, Worked, Working
  <2>6. Known'
    BY <2>2, <2>3, <2>4 DEF Inv, Known
  <2>7. Handled'
    <3>1. ASSUME NEW d \in Conns, d # c
          PROVE  rcv'[d] = rcv[d] /\ opMap'[d] = opMap[d]
      BY <2>2, <2>4, <3>1
    <3>2. CASE rcv[c].pc # "idle" /\ rcv[c].op = proc.op
      BY <2>1, <2>2, <3>1, <3>2 DEF Inv, Handled
    <3>3. CASE rcv[c].pc # "idle" /\ rcv[c].op # proc.op
      <4>1. /\ rcv[c].op \in OpIds /\ (rcv[c].op \in DOMAIN opMap'[c] <=> rcv[c].op \in DOMAIN opMap[c])
            /\ rcv[c].op \in DOMAIN opMap[c] => opMap'[c][rcv[c].op] = opMap[c][rcv[c].op]
        BY <2>1, <2>3, <2>4, <3>3 DEF Inv, Handled
      <4> QED
        BY <2>2, <3>1, <4>1 DEF Inv, Handled
    <3>4. CASE rcv[c].pc = "idle"
      BY <2>2, <3>1, <3>4 DEF Inv, Handled
    <3> QED
      BY <3>2, <3>3, <3>4
  <2>8. ASSUME NEW s \in live'
        PROVE  Held(s)'
    <3>1. s \in live /\ Held(s) /\ owner'[s] = owner[s]
      BY <2>2 DEF Inv
    <3>2. PICK d \in Conns, o \in OpIds : owner[s] = <<d, o>>
      BY <3>1 DEF Held
    <3>3. CASE d # c
      BY <2>2, <2>4, <3>1, <3>2, <3>3 DEF Held
    <3>4. CASE d = c /\ o = proc.op
      BY <2>1, <2>2, <3>1, <3>2, <3>4 DEF Held
    <3>5. CASE d = c /\ o # proc.op
      BY <2>2, <2>3, <2>4, <3>1, <3>2, <3>5 DEF Held
    <3> QED
      BY <3>3, <3>4, <3>5
  <2> QED
    BY <2>5, <2>6, <2>7, <2>8 DEF Inv
<1> QED
  BY <1>2, <1>3, <1>4, <1>5, <1>6, <1>7 DEF Processing

LEMMA InvStep == IInv /\ [Next]_vars => IInv'
<1> SUFFICES ASSUME IInv, [Next]_vars PROVE IInv'
  OBVIOUS
<1>1. CASE UNCHANGED vars
  <2>1. TypeOK'
    BY <1>1 DEF IInv, TypeOK, vars
  <2> QED
    BY <1>1, <2>1, Quiet DEF IInv, vars
<1>2. CASE Shutdown
  <2>1. TypeOK'
    BY <1>2, DisturbType DEF Shutdown, IInv, TypeOK, regVars, procVars, histVars
  <2> QED
    BY <1>2, <2>1, Quiet DEF Shutdown, IInv, regVars, procVars, histVars
<1> QED
  BY <1>1, <1>2, ConnType, ReceiveType, ProcessType, ConnKeeps, ReceiveKeeps, ProcessKeeps
     DEF Next, IInv

\* Threads, closing connections and the processor keep what they rely on.
THEOREM InvariantHolds == Spec => []IInv
BY InitInv, InvStep, PTL DEF Spec

\* The states of all actions have their types.
THEOREM TypesHold == Spec => []TypeOK
<1>1. IInv => TypeOK
  BY DEF IInv
<1> QED
  BY <1>1, InvariantHolds, PTL

\* A subscriber that addLiveQuery has returned is never lost to its connection: it is in
\* the OperationMap, in the hands of the thread that is about to write there, or among
\* those that onClose removes, unless the processor of async actions has touched the
\* operation.
THEOREM OwnedHolds == Spec => []OwnedUnlessMeddled
<1>1. IInv => OwnedUnlessMeddled
  BY DEF IInv, Inv, Held, OwnedUnlessMeddled
<1> QED
  BY <1>1, InvariantHolds, PTL
===============================================================================
