------------------------------ MODULE WebSocket -------------------------------
(*****************************************************************************)
(* Websocket connections and the subscriptions they hold                      *)
(* (server/src-lib/Hasura/GraphQL/Transport/WebSocket.hs and                  *)
(* WebSocket/Server.hs), with the thread that restarts the subscriptions to   *)
(* async actions (GraphQL/Execute/Action/Subscription.hs).                    *)
(*                                                                           *)
(* Live and streaming queries are the subscribers of a SubscriptionRegistry.  *)
(* A connection remembers its own in its OperationMap, by the operation id    *)
(* that the client has chosen; the processor of async actions remembers       *)
(* the subscriptions of all connections by the operation id alone.            *)
(*                                                                           *)
(* rcv[c] is the thread that handles the messages of a connection, one at a   *)
(* time, with asynchronous exceptions masked:                                 *)
(*                                                                           *)
(*   idle      - it waits for a message                                       *)
(*   planning  - onStart has made its checks and may still be cancelled       *)
(*   inserting - addLiveQuery has returned, the OperationMap does not have it *)
(*   listing   - the map of async actions does not have the operation yet     *)
(*   removing, deleting - stopOperation has looked up, has removed            *)
(*****************************************************************************)
EXTENDS Naturals, FiniteSets, Functions

CONSTANTS
    Conns,      \* connections
    OpIds,      \* operation ids that clients use
    Subs,       \* subscriber ids: every addLiveQuery makes a new one
    None,       \* no operation, no subscriber, no connection
    MaxLevel,   \* the log of the action changes so often until it is complete
    MaxDisturbances, \* bound: failures, stops, closed connections and shutdowns
    MaxStarts   \* bound: start messages

ASSUME WebSocketAssumption ==
    /\ None \notin Conns \cup OpIds \cup Subs
    /\ MaxLevel \in Nat \ {0}
    /\ {MaxDisturbances, MaxStarts} \subseteq Nat

VARIABLES
    status,    \* _wssStatus: accepting connections or shutting down
    connMap,   \* connections in the map of the status
    told,      \* connections that shutdown has asked to go
    conn,      \* conn[c]: the life of a connection
    user,      \* user[c]: _wscUser, whether the connection is initialised
    opMap,     \* opMap[c]: _wscOpMap
    rcv,       \* rcv[c]: the message that is handled
    toClose,   \* toClose[c]: subscribers that onClose is still to remove
    live, closed,   \* the registry of subscribers
    asyncMap,  \* _ssAsyncActions: by operation id
    todo,      \* opList: what the processor still has to look at in this round
    proc,      \* what the processor does
    level,     \* the action log: how often it has changed
    wanted,    \* history: subscriptions to the action that clients wait for
    owner,     \* history: the connection and the operation of a subscriber
    meddled,   \* history: operations that the processor has restarted or stopped
    lost,      \* history: operations whose entry another has taken, or whose restart failed
    starts, disturbances

connVars == <<status, connMap, told, conn, user>>
regVars  == <<live, closed>>
procVars == <<todo, proc>>
histVars == <<wanted, owner, meddled, lost>>
vars == <<status, connMap, told, conn, user, opMap, rcv, toClose, live, closed, asyncMap, todo, proc,
          level, wanted, owner, meddled, lost, starts, disturbances>>

-------------------------------------------------------------------------------
\* A live or streaming query; a live query that has relationships of async actions; async
\* actions alone, which have no subscriber.
Kinds == {"query", "action", "actionOnly"}

Handling == [pc : {"idle", "planning", "inserting", "listing", "removing", "deleting"},
             op : OpIds \cup {None}, kind : Kinds, sub : Subs \cup {None}, log : 0 .. MaxLevel]
Idle == [pc |-> "idle", op |-> None, kind |-> "query", sub |-> None, log |-> 0]

\* AsyncActionQueryLive: _laaqpCurrentLqId, _laaqpPrevActionLogMap and the connection that
\* the closures of the entry hold.
Entry == [conn : Conns, sub : Subs \cup {None}, log : 0 .. MaxLevel]
NoEntry == [conn |-> None, sub |-> None, log |-> 0]

Working == [pc : {"idle", "sending", "restarting", "adding", "inserting", "updating", "removing",
                  "deleting", "dropping"},
            op : OpIds \cup {None}, entry : Entry \cup {NoEntry}, sub : Subs \cup {None},
            log : 0 .. MaxLevel]
Resting == [pc |-> "idle", op |-> None, entry |-> NoEntry, sub |-> None, log |-> 0]

IsMap(f, S, T) == DOMAIN f \subseteq S /\ f \in [DOMAIN f -> T]
NoMap == [x \in {} |-> x]
Put(f, x, v) == [y \in DOMAIN f \cup {x} |-> IF y = x THEN v ELSE f[y]]
Delete(f, x) == Restrict(f, DOMAIN f \ {x})

TypeOK ==
    /\ status \in {"AcceptingConns", "ShuttingDown"}
    /\ connMap \subseteq Conns /\ told \subseteq Conns
    /\ conn \in [Conns -> {"new", "accepted", "open", "closing", "cleaning", "closed"}]
    /\ user \in [Conns -> {"NotInitialised", "Initialised", "InitError"}]
    /\ DOMAIN opMap = Conns
    /\ \A c \in Conns : IsMap(opMap[c], OpIds, Subs)
    /\ rcv \in [Conns -> Handling]
    /\ toClose \in [Conns -> SUBSET Subs]
    /\ live \subseteq Subs /\ closed \subseteq Subs
    /\ IsMap(asyncMap, OpIds, Entry)
    /\ IsMap(todo, OpIds, Entry)
    /\ proc \in Working
    /\ level \in 0 .. MaxLevel
    /\ wanted \subseteq Conns \X OpIds
    /\ owner \in [Subs -> (Conns \X OpIds) \cup {<<None, None>>}]
    /\ meddled \subseteq Conns \X OpIds
    /\ lost \subseteq Conns \X OpIds
    /\ starts \in 0 .. MaxStarts /\ disturbances \in 0 .. MaxDisturbances

Registry == INSTANCE SubscriptionRegistry WITH Subs <- Subs, live <- live, closed <- closed

Init ==
    /\ status = "AcceptingConns"
    /\ connMap = {} /\ told = {}
    /\ conn = [c \in Conns |-> "new"]
    /\ user = [c \in Conns |-> "NotInitialised"]
    /\ opMap = [c \in Conns |-> NoMap]
    /\ rcv = [c \in Conns |-> Idle]
    /\ toClose = [c \in Conns |-> {}]
    /\ Registry!Init
    /\ asyncMap = NoMap /\ todo = NoMap /\ proc = Resting
    /\ level = 0
    /\ wanted = {} /\ meddled = {} /\ lost = {}
    /\ owner = [s \in Subs |-> <<None, None>>]
    /\ starts = 0 /\ disturbances = 0

Disturb == disturbances < MaxDisturbances /\ disturbances' = disturbances + 1

\* newSubscriberId
Fresh == CHOOSE s \in Subs : s \notin live \cup closed

\* addLiveQuery or addStreamSubscriptionQuery, for operation o of connection c.
AddSubscriber(s, c, o) ==
    /\ Subs \ (live \cup closed) # {}
    /\ Registry!Add(s)
    /\ owner' = [owner EXCEPT ![s] = <<c, o>>]

\* removeLiveQuery or removeStreamingQuery: nothing happens when it was removed before.
RemoveSubscriber(s) ==
    IF s \in live THEN Registry!Remove(s) ELSE UNCHANGED regVars

\* The operations that lose their entry when entry is put: the one of another connection, and
\* the new one itself if the processor is about to replace or to drop what is there.
LosesTo(o, entry) ==
    {<<e.conn, o>> : e \in {f \in {asyncMap[x] : x \in DOMAIN asyncMap \cap {o}} : f.conn # entry.conn}}
    \cup (IF proc.op = o /\ proc.pc # "updating" THEN {<<entry.conn, o>>} ELSE {})

\* addAsyncActionLiveQuery
PutEntry(o, entry) ==
    /\ asyncMap' = Put(asyncMap, o, entry)
    /\ lost' = lost \cup LosesTo(o, entry)

-------------------------------------------------------------------------------
(* WebSocket/Server.hs *)

\* The status is read once before the handshake ...
AcceptRequest(c) ==
    /\ conn[c] = "new"
    /\ conn' = [conn EXCEPT ![c] = IF status = "AcceptingConns" THEN "accepted" ELSE "closed"]
    /\ UNCHANGED <<status, connMap, told, user, opMap, rcv, toClose, regVars, asyncMap, procVars,
                   level, histVars, starts, disturbances>>

\* Mutant: the status is not read again.
InsertConnUnchecked(c) == connMap' = connMap \cup {c} /\ conn' = [conn EXCEPT ![c] = "open"]

\* ... and again in the transaction that inserts the connection.
InsertConn(c) ==
    IF status = "AcceptingConns"
    THEN connMap' = connMap \cup {c} /\ conn' = [conn EXCEPT ![c] = "open"]
    ELSE conn' = [conn EXCEPT ![c] = "closed"] /\ UNCHANGED connMap

WhenAcceptingInsertConn(c) ==
    /\ conn[c] = "accepted"
    /\ InsertConn(c)
    /\ UNCHANGED <<status, told, user, opMap, rcv, toClose, regVars, asyncMap, procVars, level,
                   histVars, starts, disturbances>>

\* The client goes, the server closes the connection, or its JWT expires.  waitAnyCancel
\* waits for a message that is being handled, unless it can be interrupted.
ConnEnds(c) ==
    /\ conn[c] = "open" /\ rcv[c].pc \in {"idle", "planning"}
    /\ conn' = [conn EXCEPT ![c] = "closing"]
    /\ rcv' = [rcv EXCEPT ![c] = Idle]
    /\ connMap' = connMap \ {c}
    /\ wanted' = {w \in wanted : w[1] # c}
    /\ IF c \in told THEN UNCHANGED disturbances ELSE Disturb
    /\ UNCHANGED <<status, told, user, opMap, toClose, regVars, asyncMap, procVars, level, owner,
                   meddled, lost, starts>>

\* shutdown: the connections of the map are told to go (see Fairness).
Shutdown ==
    /\ status = "AcceptingConns"
    /\ status' = "ShuttingDown"
    /\ connMap' = {} /\ told' = connMap
    /\ Disturb
    /\ UNCHANGED <<conn, user, opMap, rcv, toClose, regVars, asyncMap, procVars, level,
                   histVars, starts>>

\* onClose lists the operations ...
OnClose(c) ==
    /\ conn[c] = "closing"
    /\ conn' = [conn EXCEPT ![c] = "cleaning"]
    /\ toClose' = [toClose EXCEPT ![c] = {opMap[c][o] : o \in DOMAIN opMap[c]}]
    /\ UNCHANGED <<status, connMap, told, user, opMap, rcv, regVars, asyncMap, procVars, level,
                   histVars, starts, disturbances>>

\* ... and removes their subscribers.
OnCloseRemove(c, s) ==
    /\ s \in toClose[c]
    /\ toClose' = [toClose EXCEPT ![c] = @ \ {s}]
    /\ RemoveSubscriber(s)
    /\ UNCHANGED <<connVars, opMap, rcv, asyncMap, procVars, level, histVars, starts, disturbances>>

OnCloseDone(c) ==
    /\ conn[c] = "cleaning" /\ toClose[c] = {}
    /\ conn' = [conn EXCEPT ![c] = "closed"]
    /\ UNCHANGED <<status, connMap, told, user, opMap, rcv, toClose, regVars, asyncMap, procVars,
                   level, histVars, starts, disturbances>>

-------------------------------------------------------------------------------
(* onConnInit *)

OnConnInit(c) ==
    /\ conn[c] = "open" /\ rcv[c] = Idle /\ user[c] # "InitError"
    /\ user' = [user EXCEPT ![c] = "Initialised"]
    /\ UNCHANGED <<status, connMap, told, conn, opMap, rcv, toClose, regVars, asyncMap, procVars,
                   level, histVars, starts, disturbances>>

OnConnInitFails(c) ==
    /\ conn[c] = "open" /\ rcv[c] = Idle /\ user[c] # "InitError"
    /\ Disturb
    /\ user' = [user EXCEPT ![c] = "InitError"]
    /\ UNCHANGED <<status, connMap, told, conn, opMap, rcv, toClose, regVars, asyncMap, procVars,
                   level, histVars, starts>>

-------------------------------------------------------------------------------
(* onStart *)

\* Mutant: nobody asks whether there is an operation with the id.
MayStartAgain(c, o) == user[c] = "Initialised"

\* The checks of onStart; whoever does not pass them is sent an error.
MayStart(c, o) == user[c] = "Initialised" /\ o \notin DOMAIN opMap[c]

\* The log of the actions is fetched before the query is planned.
OnStart(c, o, kind) ==
    /\ conn[c] = "open" /\ rcv[c] = Idle /\ MayStart(c, o)
    /\ starts < MaxStarts /\ starts' = starts + 1
    /\ rcv' = [rcv EXCEPT ![c] = [pc |-> "planning", op |-> o, kind |-> kind, sub |-> None,
                                  log |-> level]]
    /\ UNCHANGED <<connVars, opMap, toClose, regVars, asyncMap, procVars, level, histVars, disturbances>>

OnStartFails(c) ==
    /\ rcv[c].pc = "planning" /\ Disturb
    /\ rcv' = [rcv EXCEPT ![c] = Idle]
    /\ UNCHANGED <<connVars, opMap, toClose, regVars, asyncMap, procVars, level, histVars,
                   starts>>

\* Mutant: the id that addLiveQuery returns is lost.
StartedWithoutId(h, s) == [h EXCEPT !.pc = "inserting"]

Started(h, s) == [h EXCEPT !.pc = "inserting", !.sub = s]

\* startLiveQuery or startStreamingQuery
StartQuery(c) ==
    /\ rcv[c].pc = "planning" /\ rcv[c].kind # "actionOnly"
    /\ AddSubscriber(Fresh, c, rcv[c].op)
    /\ rcv' = [rcv EXCEPT ![c] = Started(@, Fresh)]
    /\ UNCHANGED <<connVars, opMap, toClose, asyncMap, procVars, level, wanted, meddled,
                   lost, starts, disturbances>>

InsertOp(c) ==
    LET h == rcv[c] IN
    /\ h.pc = "inserting"
    /\ opMap' = [opMap EXCEPT ![c] = Put(@, h.op, h.sub)]
    /\ rcv' = [rcv EXCEPT ![c] = IF h.kind = "action" THEN [h EXCEPT !.pc = "listing"] ELSE Idle]
    /\ wanted' = IF h.kind = "action" /\ h.log < MaxLevel
                 THEN wanted \cup {<<c, h.op>>} ELSE wanted \ {<<c, h.op>>}
    /\ UNCHANGED <<connVars, toClose, regVars, asyncMap, procVars, level, owner, meddled,
                   lost, starts, disturbances>>

\* addAsyncActionLiveQuery, of an operation with or without a subscriber.
ListAsyncActions(c) ==
    LET h == rcv[c] IN
    /\ h.pc = "listing" \/ (h.pc = "planning" /\ h.kind = "actionOnly")
    /\ PutEntry(h.op, [conn |-> c, sub |-> h.sub, log |-> IF h.kind = "action" THEN h.log ELSE 0])
    /\ rcv' = [rcv EXCEPT ![c] = Idle]
    /\ wanted' = IF h.kind = "actionOnly" THEN wanted \cup {<<c, h.op>>} ELSE wanted
    /\ UNCHANGED <<connVars, opMap, toClose, regVars, procVars, level, owner, meddled, starts, disturbances>>

-------------------------------------------------------------------------------
(* stopOperation *)

OnStop(c, o) ==
    /\ conn[c] = "open" /\ rcv[c] = Idle /\ Disturb
    /\ o \in DOMAIN opMap[c] \/ <<c, o>> \in wanted
    /\ rcv' = [rcv EXCEPT ![c] =
            IF o \in DOMAIN opMap[c]
            THEN [Idle EXCEPT !.pc = "removing", !.op = o, !.sub = opMap[c][o]]
            ELSE [Idle EXCEPT !.pc = "deleting", !.op = o]]
    /\ wanted' = wanted \ {<<c, o>>}
    /\ UNCHANGED <<connVars, opMap, toClose, regVars, asyncMap, procVars, level, owner,
                   meddled, lost, starts>>

StopRemove(c) ==
    /\ rcv[c].pc = "removing"
    /\ RemoveSubscriber(rcv[c].sub)
    /\ rcv' = [rcv EXCEPT ![c].pc = "deleting"]
    /\ UNCHANGED <<connVars, opMap, toClose, asyncMap, procVars, level, histVars, starts, disturbances>>

StopDelete(c) ==
    /\ rcv[c].pc = "deleting"
    /\ opMap' = [opMap EXCEPT ![c] = Delete(@, rcv[c].op)]
    /\ rcv' = [rcv EXCEPT ![c] = Idle]
    /\ UNCHANGED <<connVars, toClose, regVars, asyncMap, procVars, level, histVars, starts, disturbances>>

-------------------------------------------------------------------------------
(* asyncActionSubscriptionsProcessor *)

\* The answer of a webhook, or its failure, gets into the log of the action.
ActionAnswers ==
    /\ level < MaxLevel
    /\ level' = level + 1
    /\ UNCHANGED <<connVars, opMap, rcv, toClose, regVars, asyncMap, procVars, histVars, starts,
                   disturbances>>

\* A round: the subscriptions are listed once, then handled one by one.
ListOps ==
    /\ proc = Resting /\ todo = NoMap /\ asyncMap # NoMap
    /\ todo' = asyncMap
    /\ UNCHANGED <<connVars, opMap, rcv, toClose, regVars, asyncMap, proc, level, histVars,
                   starts, disturbances>>

\* Mutant: only the first change of the log counts.
IsFirstLog(entry) == entry.log = 0 /\ level # 0

\* A live query is restarted only when the log differs from the one that it was made with.
IsNewLog(entry) == entry.log # level

\* fetchActionLogResponses has succeeded.
FetchLog(o) ==
    LET e == todo[o] IN
    /\ proc = Resting /\ o \in DOMAIN todo
    /\ todo' = Delete(todo, o)
    /\ proc' = IF e.sub # None /\ ~IsNewLog(e) THEN Resting
               ELSE [pc |-> IF e.sub = None THEN "sending" ELSE "restarting", op |-> o,
                     entry |-> e, sub |-> None, log |-> level]
    /\ UNCHANGED <<connVars, opMap, rcv, toClose, regVars, asyncMap, level, histVars, starts,
                   disturbances>>

\* It has failed: the client is sent the error, and the operation of a live query is stopped.
FetchLogFails(o) ==
    LET e == todo[o]  ops == opMap[e.conn] IN
    /\ proc = Resting /\ o \in DOMAIN todo
    /\ Disturb
    /\ todo' = Delete(todo, o)
    /\ proc' = [Resting EXCEPT
            !.pc = IF e.sub = None THEN "dropping"
                   ELSE IF o \in DOMAIN ops THEN "removing" ELSE "deleting",
            !.op = o, !.entry = e,
            !.sub = IF e.sub # None /\ o \in DOMAIN ops THEN ops[o] ELSE None]
    /\ wanted' = wanted \ {<<e.conn, o>>}
    /\ meddled' = IF e.sub = None THEN meddled ELSE meddled \cup {<<e.conn, o>>}
    /\ UNCHANGED <<connVars, opMap, rcv, toClose, regVars, asyncMap, level, owner, lost, starts>>

\* stopOperation, for the processor.
ProcStopRemove ==
    /\ proc.pc = "removing"
    /\ RemoveSubscriber(proc.sub)
    /\ proc' = [proc EXCEPT !.pc = "deleting"]
    /\ UNCHANGED <<connVars, opMap, rcv, toClose, asyncMap, todo, level, histVars, starts, disturbances>>

ProcStopDelete ==
    /\ proc.pc = "deleting"
    /\ opMap' = [opMap EXCEPT ![proc.entry.conn] = Delete(@, proc.op)]
    /\ proc' = [proc EXCEPT !.pc = "dropping"]
    /\ UNCHANGED <<connVars, rcv, toClose, regVars, asyncMap, todo, level, histVars, starts, disturbances>>

\* sendResp, and sendCompleted once the actions are complete.
SendResponse ==
    /\ proc.pc = "sending"
    /\ IF proc.log = MaxLevel
       THEN /\ wanted' = wanted \ {<<proc.entry.conn, proc.op>>}
            /\ proc' = [proc EXCEPT !.pc = "dropping"]
       ELSE proc' = Resting /\ UNCHANGED wanted
    /\ UNCHANGED <<connVars, opMap, rcv, toClose, regVars, asyncMap, todo, level, owner, meddled,
                   lost, starts, disturbances>>

\* restartLiveQuery removes the old subscriber,
RestartRemove ==
    /\ proc.pc = "restarting"
    /\ RemoveSubscriber(proc.entry.sub)
    /\ proc' = [proc EXCEPT !.pc = "adding"]
    /\ meddled' = meddled \cup {<<proc.entry.conn, proc.op>>}
    /\ UNCHANGED <<connVars, opMap, rcv, toClose, asyncMap, todo, level, wanted, owner, lost,
                   starts, disturbances>>

\* adds a new one, whose results the client is sent,
RestartAdd ==
    LET w == <<proc.entry.conn, proc.op>> IN
    /\ proc.pc = "adding"
    /\ AddSubscriber(Fresh, w[1], w[2])
    /\ proc' = [proc EXCEPT !.pc = "inserting", !.sub = Fresh]
    /\ wanted' = IF proc.log = MaxLevel THEN wanted \ {w} ELSE wanted
    /\ UNCHANGED <<connVars, opMap, rcv, toClose, asyncMap, todo, level, meddled, lost, starts,
                   disturbances>>

\* or fails to plan it, which nobody is told,
RestartFails ==
    /\ proc.pc = "adding"
    /\ Disturb
    /\ proc' = [proc EXCEPT !.pc = "dropping"]
    /\ lost' = lost \cup {<<proc.entry.conn, proc.op>>}
    /\ UNCHANGED <<connVars, opMap, rcv, toClose, regVars, asyncMap, todo, level, wanted, owner,
                   meddled, starts>>

\* and puts it in the place of whatever the connection has under the operation id.
RestartInsert ==
    /\ proc.pc = "inserting"
    /\ opMap' = [opMap EXCEPT ![proc.entry.conn] = Put(@, proc.op, proc.sub)]
    /\ proc' = [proc EXCEPT !.pc = IF proc.log = MaxLevel THEN "dropping" ELSE "updating"]
    /\ UNCHANGED <<connVars, rcv, toClose, regVars, asyncMap, todo, level, histVars, starts, disturbances>>

UpdatedEntry == [proc.entry EXCEPT !.sub = proc.sub, !.log = proc.log]

\* addAsyncActionLiveQuery, for the new live query.
UpdateOp ==
    /\ proc.pc = "updating"
    /\ PutEntry(proc.op, UpdatedEntry)
    /\ proc' = Resting
    /\ UNCHANGED <<connVars, opMap, rcv, toClose, regVars, todo, level, wanted, owner, meddled,
                   starts, disturbances>>

\* removeAsyncActionLiveQuery, of whatever is under the operation id by now.
DropOp ==
    /\ proc.pc = "dropping"
    /\ asyncMap' = Delete(asyncMap, proc.op)
    /\ lost' = IF proc.op \in DOMAIN asyncMap /\ asyncMap[proc.op] # proc.entry
               THEN lost \cup {<<asyncMap[proc.op].conn, proc.op>>} ELSE lost
    /\ proc' = Resting
    /\ UNCHANGED <<connVars, opMap, rcv, toClose, regVars, todo, level, wanted, owner, meddled,
                   starts, disturbances>>

-------------------------------------------------------------------------------
\* What a thread does once it has started.
Receiving(c) ==
    \/ OnStartFails(c) \/ StartQuery(c) \/ InsertOp(c) \/ ListAsyncActions(c)
    \/ StopRemove(c) \/ StopDelete(c)

Closing(c) ==
    OnClose(c) \/ (\E s \in Subs : OnCloseRemove(c, s)) \/ OnCloseDone(c)

Processing ==
    \/ ListOps \/ (\E o \in OpIds : FetchLog(o))
    \/ SendResponse \/ RestartRemove \/ RestartAdd \/ RestartInsert \/ UpdateOp \/ DropOp
    \/ ProcStopRemove \/ ProcStopDelete

Next ==
    \/ \E c \in Conns :
        \/ AcceptRequest(c) \/ WhenAcceptingInsertConn(c) \/ ConnEnds(c)
        \/ Receiving(c) \/ Closing(c)
        \/ OnConnInit(c) \/ OnConnInitFails(c)
        \/ \E o \in OpIds : OnStop(c, o) \/ \E kind \in Kinds : OnStart(c, o, kind)
    \/ Shutdown
    \/ Processing \/ ActionAnswers \/ RestartFails
    \/ \E o \in OpIds : FetchLogFails(o)

Spec == Init /\ [][Next]_vars

\* Threads run.  closeAllWith closes the connections that it was given, which ends their
\* receiving threads.
Fairness ==
    /\ \A c \in Conns :
        /\ WF_vars(Receiving(c)) /\ WF_vars(Closing(c)) /\ WF_vars(WhenAcceptingInsertConn(c))
        /\ WF_vars(c \in told /\ ConnEnds(c))
    /\ WF_vars(Processing)

FairSpec == Spec /\ Fairness

-------------------------------------------------------------------------------
\* "it's crucial we don't lose lqId after addLiveQuery returns successfully": every subscriber
\* is known to the connection that it belongs to, in its OperationMap, by the thread that is
\* about to write there, or by its onClose, unless the processor of async actions has restarted
\* or stopped an operation with the same id.
OwnedUnlessMeddled ==
    \A s \in live :
        LET c == owner[s][1]  o == owner[s][2] IN
        \/ owner[s] \in meddled
        \/ /\ conn[c] \in {"open", "closing"}
           /\ (o \in DOMAIN opMap[c] /\ opMap[c][o] = s) \/ rcv[c].sub = s
        \/ conn[c] = "cleaning" /\ s \in toClose[c]

\* A shutdown leaves no subscriber behind but those that the processor has started: no
\* connection that is accepted meanwhile stays, and each connection removes its own.
DrainedAfterShutdown ==
    <>[](status = "ShuttingDown" => \A s \in live : owner[s] \in meddled)

\* Once an async action is complete, everybody who has subscribed to it before and stays is
\* sent its result, unless another connection has used the same operation id or the restart
\* of the live query has failed.
EveryActionTold ==
    \A c \in Conns : \A o \in OpIds :
        level = MaxLevel ~> (<<c, o>> \notin wanted \/ <<c, o>> \in lost)
===============================================================================
