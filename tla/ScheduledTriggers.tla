-------------------------- MODULE ScheduledTriggers ---------------------------
(*****************************************************************************)
(* Cron triggers and one-off scheduled events of several graphql-engine       *)
(* instances on one metadata database                                         *)
(* (server/src-lib/Hasura/Eventing/ScheduledTrigger.hs, the commands in       *)
(* RQL/DDL/ScheduledTrigger.hs, start and shutdown in App.hs and              *)
(* Control/Concurrent/Extended.hs).                                           *)
(*                                                                           *)
(* A cron trigger matches at the times 1, 2, ..., MaxTime.  The clock counts  *)
(* the times that have come; when a retry is due is a step of the environment, *)
(* and the tolerance of an event may be over whenever it is taken up.         *)
(*****************************************************************************)
EXTENDS Integers, FiniteSets

CONSTANTS
    Instances,      \* graphql-engine processes on the same metadata database
    Triggers,       \* names of cron triggers
    OneOffs,        \* one-off events that users may create
    Gens,           \* bound: rows that one time of one trigger may have, ever
    MaxTime,        \* bound: the last time that a trigger matches
    Upcoming,       \* how many upcoming events the generator provides (100)
    NumRetries,     \* strcNumRetries
    GracefulPolls,  \* graceful-shutdown-timeout, in polls of 5 seconds
    Unresolvable,   \* one-off events whose webhook or headers cannot be resolved
    Untransformable,\* events whose request transformation fails
    Throttled,      \* events whose webhook may answer with Retry-After
    TriesCap,       \* bound: no Retry-After is sent from this try on
    MaxFaults       \* bound: crashes and shutdowns, failed transactions and
                    \* commands of users, all together

Times      == 1 .. MaxTime
CronEvents == Triggers \X Times \X Gens
Events     == CronEvents \cup OneOffs

ASSUME ScheduledAssumption ==
    /\ MaxTime \in Nat \ {0} /\ Upcoming \in Nat \ {0} /\ NumRetries \in Nat
    /\ GracefulPolls \in Nat /\ TriesCap \in Nat
    /\ MaxFaults \in Nat
    /\ Unresolvable \subseteq OneOffs
    /\ OneOffs \cap CronEvents = {}

VARIABLES
    rows,      \* hdb_cron_events and hdb_scheduled_events, by event
    clock,     \* the last time that has come
    triggers,  \* the cron triggers in the metadata
    command,   \* the command on a cron trigger that is being executed, if any
    cached,    \* cached[i]: scCronTriggers of the schema cache of i
    stats,     \* stats[i]: {} or {what getDeprivedCronTriggerStats returned}
    phase,     \* phase[i]: where i is between start and exit
    thread,    \* thread[i]: threadStateTVar of processScheduledTriggers
    step,      \* step[i]: where its loop is
    batch,     \* batch[i]: the fetched events that are not taken up yet
    info,      \* info[i]: cronTriggersInfo
    work,      \* work[i]: {} or {the event that is being processed}
    locked,    \* locked[i]: leCronEvents and leOneOffEvents
    polls,     \* polls[i]: what is left of the graceful-shutdown timeout
    doubted,   \* history: events unlocked while some instance had fetched them
    overdue,   \* history: <<trigger, time>> that had come when it was inserted
    exits, failures, ops  \* numbers of crashes and shutdowns, ... so far

procVars == <<step, batch, info, work, locked>>
runVars  == <<phase, thread, polls>>
histVars == <<doubted, overdue>>
budget   == <<exits, failures, ops>>
dbVars   == <<rows, clock, triggers>>
vars == <<rows, clock, triggers, command, cached, stats, phase, thread, step, batch,
          info, work, locked, polls, doubted, overdue, exits, failures, ops>>

\* A transaction fails, a process ends or a user does something, within the bound.
Budget  == exits + failures + ops < MaxFaults
Failure == Budget /\ failures' = failures + 1
Exit    == Budget /\ exits' = exits + 1
Op      == Budget /\ ops' = ops + 1

-------------------------------------------------------------------------------
(* The rows and the statements on them.  Operators named for a fault, such as    *)
(* FetchableWhateverStatus, are mutants: wrong versions of the definition after *)
(* them, which the properties must refute.                                      *)

Statuses  == {"none", "scheduled", "locked", "delivered", "error", "dead", "deleted"}
Row       == [status : Statuses, tries : Nat, time : Times, retry : {"null", "future", "due"}]
NewRow(t) == [status |-> "scheduled", tries |-> 0, time |-> t, retry |-> "null"]
NoRow(t)  == [NewRow(t) EXCEPT !.status = "none"]

Exists(e) == rows[e].status \notin {"none", "deleted"}
Final     == {"delivered", "error", "dead"}

\* The WHERE clause of getScheduledEventsForDeliveryTx.
FetchableWhateverStatus(row) ==
    /\ row.status \in {"scheduled", "locked"}
    /\ row.retry = "due" \/ (row.retry = "null" /\ row.time <= clock)
Fetchable(row) ==
    /\ row.status = "scheduled"
    /\ row.retry = "due" \/ (row.retry = "null" /\ row.time <= clock)

\* hdb_cron_events_unique_scheduled: of the rows of one trigger and time, one at
\* most is scheduled.
SameSlot(e, f) == e \in CronEvents /\ f \in CronEvents /\ e[1] = f[1] /\ e[2] = f[2]
IsUnique(rs) ==
    \A e, f \in CronEvents :
        SameSlot(e, f) /\ rs[e].status = "scheduled" /\ rs[f].status = "scheduled" => e = f

NeverConflicts(slot) == FALSE
\* insertCronEventsTx with ON CONFLICT DO NOTHING: the event of a slot that is
\* inserted, if any, is one that never had a row.
Conflicts(slot) ==
    \E g \in Gens : rows[<<slot[1], slot[2], g>>].status = "scheduled"
FreshEvent(slot) ==
    {e \in CronEvents : e[1] = slot[1] /\ e[2] = slot[2] /\ rows[e].status = "none"}
Inserted(slots) ==
    {(CHOOSE e \in FreshEvent(slot) : TRUE) :
        slot \in {sl \in slots : ~Conflicts(sl) /\ FreshEvent(sl) # {}}}

InsertCronEvents(slots) ==
    /\ rows' = [e \in Events |-> IF e \in Inserted(slots) THEN NewRow(e[2]) ELSE rows[e]]
    /\ overdue' = overdue \cup {<<e[1], e[2]>> : e \in {f \in Inserted(slots) : f[2] <= clock}}

\* dropFutureCronEventsTx
DropFutureCronEvents(t) ==
    rows' = [e \in Events |->
               IF /\ e \in CronEvents /\ e[1] = t
                  /\ Exists(e) /\ rows[e].time > clock /\ rows[e].tries = 0
               THEN [rows[e] EXCEPT !.status = "deleted"]
               ELSE rows[e]]

\* generateScheduleTimes, for n times after the given one.
ScheduleTimes(from, n) == {t \in Times : from < t /\ t <= from + n}

UnlockedWhateverStatus(e) == [rows[e] EXCEPT !.status = IF Exists(e) THEN "scheduled" ELSE @]
NeverUnlocked(e) == rows[e]
\* unlockAllLockedScheduledEventsTx: the locked events of every instance.
Unlocked(e) == [rows[e] EXCEPT !.status = IF @ = "locked" THEN "scheduled" ELSE @]

InFlight(e) ==
    {i \in Instances : \/ \E c \in batch[i] : c.id = e
                       \/ \E w \in work[i] : w.id = e}

UnlockAll ==
    /\ IsUnique([e \in Events |-> Unlocked(e)])
    /\ rows' = [e \in Events |-> Unlocked(e)]
    /\ doubted' = doubted \cup {e \in Events : rows[e].status = "locked" /\ InFlight(e) # {}}
    /\ UNCHANGED failures

\* The unique index refuses the update, or the transaction fails: it is logged.
UnlockAllFails ==
    /\ \/ /\ ~IsUnique([e \in Events |-> Unlocked(e)])
          /\ UNCHANGED failures
       \/ Failure
    /\ UNCHANGED <<rows, doubted>>

-------------------------------------------------------------------------------
Copies   == [id : Events, tries : Nat]
Outcomes == {"dead", "untransformable", "accepted", "failed", "retryAfter"}
Works    == [id : Events, tries : Nat, outcome : Outcomes, logged : BOOLEAN]
Stats    == SUBSET (Triggers \X (0 .. MaxTime))
Commands == [op : {"create", "update", "delete"}, trigger : Triggers,
             next : {"drop", "insert", "commit"}]

TypeOK ==
    /\ rows \in [Events -> Row]
    /\ clock \in 0 .. MaxTime
    /\ triggers \subseteq Triggers
    /\ command \subseteq Commands /\ Cardinality(command) <= 1
    /\ cached \in [Instances -> SUBSET Triggers]
    /\ stats \in [Instances -> SUBSET Stats]
    /\ \A i \in Instances : Cardinality(stats[i]) <= 1
    /\ phase \in [Instances -> {"down", "up", "waiting", "handled"}]
    /\ thread \in [Instances -> {"forked", "initiated", "blocking"}]
    /\ step \in [Instances -> {"idle", "fetching", "fetched", "cron", "oneOff"}]
    /\ batch \in [Instances -> SUBSET Copies]
    /\ work \in [Instances -> SUBSET Works]
    /\ \A i \in Instances : Cardinality(work[i]) <= 1
    /\ info \in [Instances -> SUBSET Triggers]
    /\ locked \in [Instances -> SUBSET Events]
    /\ polls \in [Instances -> 0 .. GracefulPolls]
    /\ doubted \subseteq Events
    /\ overdue \subseteq Triggers \X Times
    /\ exits \in Nat /\ failures \in Nat /\ ops \in Nat
    /\ exits + failures + ops <= MaxFaults

\* The triggers are in the metadata and have no events yet, or none any more.
Init ==
    /\ rows = [e \in Events |-> NoRow(IF e \in OneOffs THEN 1 ELSE e[2])]
    /\ clock = 0
    /\ triggers = Triggers
    /\ command = {}
    /\ cached = [i \in Instances |-> Triggers]
    /\ stats = [i \in Instances |-> {}]
    /\ phase = [i \in Instances |-> "up"]
    /\ thread = [i \in Instances |-> "forked"]
    /\ step = [i \in Instances |-> "idle"]
    /\ batch = [i \in Instances |-> {}]
    /\ info = [i \in Instances |-> {}]
    /\ work = [i \in Instances |-> {}]
    /\ locked = [i \in Instances |-> {}]
    /\ polls = [i \in Instances |-> 0]
    /\ doubted = {} /\ overdue = {}
    /\ exits = 0 /\ failures = 0 /\ ops = 0

-------------------------------------------------------------------------------
(* runCronEventsGenerator *)

\* getDeprivedCronTriggerStatsTx: the triggers with too few upcoming events, each
\* with the time from which more are generated.
UpcomingEvents(t) ==
    {e \in CronEvents : e[1] = t /\ rows[e].status = "scheduled" /\ rows[e].tries = 0}
MaxScheduledTime(t) ==
    IF UpcomingEvents(t) = {} THEN clock
    ELSE CHOOSE m \in {e[2] : e \in UpcomingEvents(t)} :
            \A e \in UpcomingEvents(t) : e[2] <= m
DeprivedCronTriggers(i) ==
    {<<t, MaxScheduledTime(t)>> :
        t \in {u \in cached[i] : Cardinality(UpcomingEvents(u)) < Upcoming}}

\* An iteration that finds no trigger in need of events has no effect, and no
\* times after MaxTime are generated.
GetDeprivedCronTriggerStats(i) ==
    /\ phase[i] # "down" /\ stats[i] = {}
    /\ \E p \in DeprivedCronTriggers(i) : p[2] < MaxTime
    /\ stats' = [stats EXCEPT ![i] = {DeprivedCronTriggers(i)}]
    /\ UNCHANGED <<dbVars, command, cached, procVars, runVars, histVars, budget>>

\* insertCronEventsFor, in a transaction of its own; then the generator sleeps.
InsertCronEventsFor(i) ==
    /\ \E st \in stats[i] :
          InsertCronEvents({sl \in Triggers \X Times :
              \E p \in st : p[1] = sl[1] /\ sl[2] \in ScheduleTimes(p[2], Upcoming)})
    /\ stats' = [stats EXCEPT ![i] = {}]
    /\ UNCHANGED <<clock, triggers, command, cached, procVars, runVars, doubted,
                   budget>>

\* One of the two transactions fails: the error is logged.
GeneratorFails(i) ==
    /\ stats[i] # {}
    /\ Failure
    /\ stats' = [stats EXCEPT ![i] = {}]
    /\ UNCHANGED <<dbVars, command, cached, procVars, runVars, histVars, exits, ops>>

-------------------------------------------------------------------------------
(* processScheduledTriggers *)

\* The loop looks at threadStateTVar.  When it finds that a shutdown was initiated
\* it says that it is blocking and runs one more iteration.
BeginIteration(i) ==
    /\ phase[i] # "down" /\ step[i] = "idle"
    /\ thread[i] # "blocking"
    /\ thread' = [thread EXCEPT ![i] = IF @ = "initiated" THEN "blocking" ELSE @]
    /\ step' = [step EXCEPT ![i] = "fetching"]
    /\ UNCHANGED <<dbVars, command, cached, stats, batch, info, work, locked, phase, polls,
                   histVars, budget>>

\* getScheduledEventsForDelivery locks and returns all the events that are due.
GetScheduledEventsForDelivery(i) ==
    /\ step[i] = "fetching"
    /\ LET due == {e \in Events : Fetchable(rows[e])} IN
        /\ rows' = [e \in Events |-> IF e \in due THEN [rows[e] EXCEPT !.status = "locked"]
                                                  ELSE rows[e]]
        /\ batch' = [batch EXCEPT ![i] = {[id |-> e, tries |-> rows[e].tries] : e \in due}]
    /\ step' = [step EXCEPT ![i] = "fetched"]
    /\ UNCHANGED <<clock, triggers, command, cached, stats, info, work, locked, runVars,
                   histVars, budget>>

GetScheduledEventsFails(i) ==
    /\ step[i] = "fetching"
    /\ Failure
    /\ step' = [step EXCEPT ![i] = "idle"]
    /\ UNCHANGED <<dbVars, command, cached, stats, batch, info, work, locked, runVars,
                   histVars, exits, ops>>

\* The part of the batch that is processed in a step.
Part(i, kind) == {c \in batch[i] : c.id \in kind}

\* processCronEvents takes the triggers of the cache and saves the cron events.
ProcessCronEvents(i) ==
    /\ step[i] = "fetched"
    /\ info' = [info EXCEPT ![i] = cached[i]]
    /\ locked' = [locked EXCEPT ![i] = @ \cup {c.id : c \in Part(i, CronEvents)}]
    /\ step' = [step EXCEPT ![i] = "cron"]
    /\ UNCHANGED <<dbVars, command, cached, stats, batch, work, runVars, histVars, budget>>

\* processOneOffScheduledEvents follows when the last cron event is done.
ProcessOneOffEvents(i) ==
    /\ step[i] = "cron" /\ Part(i, CronEvents) = {} /\ work[i] = {}
    /\ locked' = [locked EXCEPT ![i] = @ \cup {c.id : c \in Part(i, OneOffs)}]
    /\ step' = [step EXCEPT ![i] = "oneOff"]
    /\ UNCHANGED <<dbVars, command, cached, stats, batch, info, work, runVars, histVars, budget>>

EndIteration(i) ==
    /\ step[i] = "oneOff" /\ batch[i] = {} /\ work[i] = {}
    /\ step' = [step EXCEPT ![i] = "idle"]
    /\ UNCHANGED <<dbVars, command, cached, stats, batch, info, work, locked, runVars,
                   histVars, budget>>

\* The trigger is not in the cache, or the webhook cannot be resolved.
IsSkipped(i, c) ==
    IF c.id \in CronEvents THEN c.id[1] \notin info[i] ELSE c.id \in Unresolvable

\* An event is taken up: its tolerance is over, it cannot be transformed, or the
\* webhook is called, which may have its effect whatever comes back.
PossibleOutcomes(c) ==
    IF c.id \in Untransformable THEN {"dead", "untransformable"}
    ELSE {"dead", "accepted", "failed"} \cup
         {o \in {"retryAfter"} : c.id \in Throttled /\ c.tries < TriesCap}

TakesUp(i, c) ==
    /\ c \in Part(i, IF step[i] = "cron" THEN CronEvents ELSE OneOffs)
    /\ step[i] \in {"cron", "oneOff"} /\ work[i] = {}

ProcessScheduledEvent(i, c) ==
    /\ TakesUp(i, c) /\ ~IsSkipped(i, c)
    /\ \E outcome \in PossibleOutcomes(c) :
          work' = [work EXCEPT ![i] = {[id |-> c.id, tries |-> c.tries,
                                        outcome |-> outcome, logged |-> FALSE]}]
    /\ batch' = [batch EXCEPT ![i] = @ \ {c}]
    /\ UNCHANGED <<dbVars, command, cached, stats, step, info, locked, runVars, doubted,
                   overdue, budget>>

\* The error is logged; the event stays locked, in the database and in the set.
SkipEvent(i, c) ==
    /\ TakesUp(i, c) /\ IsSkipped(i, c)
    /\ batch' = [batch EXCEPT ![i] = @ \ {c}]
    /\ UNCHANGED <<dbVars, command, cached, stats, step, info, work, locked, runVars,
                   histVars, budget>>

WasCalled(w) == w.outcome \in {"accepted", "failed", "retryAfter"}

\* insertScheduledEventInvocation, the first of two transactions.
InsertInvocation(i, w) ==
    /\ WasCalled(w) /\ ~w.logged
    /\ Exists(w.id)
    /\ rows' = [rows EXCEPT ![w.id].tries = @ + 1]
    /\ work' = [work EXCEPT ![i] = {[w EXCEPT !.logged = TRUE]}]
    /\ UNCHANGED <<clock, triggers, command, cached, stats, step, batch, info, locked,
                   runVars, histVars, budget>>

\* retryOrMarkError decides with the tries of the fetched event.
TriesExhaustedLate(tries) == tries > NumRetries
TriesExhausted(tries) == tries >= NumRetries

\* Mutant: the tries are looked at before the answer.
SetOpExhaustedFirst(row, w) ==
    CASE w.outcome = "dead" -> [row EXCEPT !.status = "dead"]
      [] w.outcome = "untransformable" \/ TriesExhausted(w.tries) -> [row EXCEPT !.status = "error"]
      [] w.outcome = "accepted" /\ ~TriesExhausted(w.tries) -> [row EXCEPT !.status = "delivered"]
      [] OTHER -> [row EXCEPT !.status = "scheduled", !.retry = "future"]

\* setScheduledEventOpTx
SetOp(row, w) ==
    CASE w.outcome = "accepted" -> [row EXCEPT !.status = "delivered"]
      [] w.outcome = "dead" -> [row EXCEPT !.status = "dead"]
      [] \/ w.outcome = "untransformable"
         \/ w.outcome = "failed" /\ TriesExhausted(w.tries) -> [row EXCEPT !.status = "error"]
      [] OTHER -> [row EXCEPT !.status = "scheduled", !.retry = "future"]

RowsAfter(w) ==
    [rows EXCEPT ![w.id] = IF Exists(w.id) THEN SetOp(@, w) ELSE @]

\* setScheduledEventOp, the second; the event is done.
SetScheduledEventOp(i, w) ==
    /\ WasCalled(w) => w.logged
    /\ IsUnique(RowsAfter(w))
    /\ rows' = RowsAfter(w)
    /\ work' = [work EXCEPT ![i] = {}]
    /\ locked' = [locked EXCEPT ![i] = @ \ {w.id}]
    /\ UNCHANGED <<clock, triggers, command, cached, stats, step, batch, info, runVars,
                   histVars, budget>>

\* A transaction fails, by itself, because the row of the invocation is gone or
\* because of the unique index.  A cron event leaves the set all the same, a
\* one-off event does not.
ProcessingFails(i, w) ==
    /\ \/ Failure
       \/ /\ \/ WasCalled(w) /\ ~w.logged /\ ~Exists(w.id)
             \/ (WasCalled(w) => w.logged) /\ ~IsUnique(RowsAfter(w))
          /\ UNCHANGED failures
    /\ work' = [work EXCEPT ![i] = {}]
    /\ locked' = [locked EXCEPT ![i] = IF w.id \in CronEvents THEN @ \ {w.id} ELSE @]
    /\ UNCHANGED <<dbVars, command, cached, stats, step, batch, info, runVars, histVars,
                   exits, ops>>

-------------------------------------------------------------------------------
(* Start, graceful shutdown and crash of an instance *)

\* prepareScheduledEvents unlocks all events before the threads are forked.
Start(i) ==
    /\ phase[i] = "down"
    /\ UnlockAll \/ UnlockAllFails
    /\ phase' = [phase EXCEPT ![i] = "up"]
    /\ cached' = [cached EXCEPT ![i] = triggers]
    /\ UNCHANGED <<clock, triggers, command, stats, procVars, thread, polls,
                   overdue, exits, ops>>

Forget(i) ==
    /\ phase' = [phase EXCEPT ![i] = "down"]
    /\ thread' = [thread EXCEPT ![i] = "forked"]
    /\ stats' = [stats EXCEPT ![i] = {}]
    /\ step' = [step EXCEPT ![i] = "idle"]
    /\ batch' = [batch EXCEPT ![i] = {}]
    /\ info' = [info EXCEPT ![i] = {}]
    /\ work' = [work EXCEPT ![i] = {}]
    /\ locked' = [locked EXCEPT ![i] = {}]
    /\ polls' = [polls EXCEPT ![i] = 0]

Crash(i) ==
    /\ phase[i] # "down"
    /\ Exit
    /\ Forget(i)
    /\ UNCHANGED <<dbVars, command, cached, histVars, failures, ops>>

BeginShutdown(i) ==
    /\ phase[i] = "up"
    /\ Exit
    /\ phase' = [phase EXCEPT ![i] = "waiting"]
    /\ thread' = [thread EXCEPT ![i] = IF @ = "forked" THEN "initiated" ELSE @]
    /\ polls' = [polls EXCEPT ![i] = GracefulPolls]
    /\ UNCHANGED <<dbVars, command, cached, stats, procVars, histVars, failures, ops>>

PollPastTimeout(i) ==
    /\ phase[i] = "waiting"
    /\ polls' = [polls EXCEPT ![i] = @ - 1]
    /\ UNCHANGED <<dbVars, command, cached, stats, procVars, phase, thread, histVars, budget>>

\* waitForProcessingAction with getProcessingScheduledEventsCount.
Poll(i) ==
    /\ phase[i] = "waiting" /\ polls[i] > 0
    /\ \/ locked[i] = {} /\ phase' = [phase EXCEPT ![i] = "handled"] /\ UNCHANGED polls
       \/ locked[i] # {} /\ polls' = [polls EXCEPT ![i] = @ - 1] /\ UNCHANGED phase
    /\ UNCHANGED <<dbVars, command, cached, stats, procVars, thread, histVars, budget>>

\* The timeout has run out: the events of all instances are unlocked.
ShutdownUnlocks(i) ==
    /\ phase[i] = "waiting" /\ polls[i] = 0
    /\ UnlockAll \/ UnlockAllFails
    /\ phase' = [phase EXCEPT ![i] = "handled"]
    /\ UNCHANGED <<clock, triggers, command, cached, stats, procVars, thread, polls,
                   overdue, exits, ops>>

StopThread(i) ==
    /\ phase[i] = "handled" /\ thread[i] = "blocking"
    /\ Forget(i)
    /\ UNCHANGED <<dbVars, command, cached, histVars, budget>>

-------------------------------------------------------------------------------
(* Commands of users: create_cron_trigger, with or without replace, and          *)
(* delete_cron_trigger change the events in transactions of their own, before    *)
(* the metadata is set (see SchemaSync).                                         *)

\* Whether the trigger exists is looked up in the cache of the instance that
\* serves the request, which may lag behind the metadata.
BeginCommand(i, cmd) ==
    /\ phase[i] # "down" /\ command = {}
    /\ Op
    /\ cmd.op = "create" <=> cmd.trigger \notin cached[i]
    /\ cmd.next = IF cmd.op = "create" THEN "insert" ELSE "drop"
    /\ command' = {cmd}
    /\ UNCHANGED <<dbVars, cached, stats, procVars, runVars, histVars, exits, failures>>

CommandDrops(cmd) ==
    /\ cmd.next = "drop"
    /\ DropFutureCronEvents(cmd.trigger)
    /\ command' = {[cmd EXCEPT !.next = IF cmd.op = "update" THEN "insert" ELSE "commit"]}
    /\ UNCHANGED <<clock, triggers, cached, stats, procVars, runVars, histVars, budget>>

CommandInserts(cmd) ==
    /\ cmd.next = "insert"
    /\ InsertCronEvents({cmd.trigger} \X ScheduleTimes(clock, Upcoming))
    /\ command' = {[cmd EXCEPT !.next = "commit"]}
    /\ UNCHANGED <<clock, triggers, cached, stats, procVars, runVars, doubted, budget>>

CommandCommits(cmd) ==
    /\ cmd.next = "commit"
    /\ triggers' = IF cmd.op = "delete" THEN triggers \ {cmd.trigger}
                                        ELSE triggers \cup {cmd.trigger}
    /\ command' = {}
    /\ UNCHANGED <<rows, clock, cached, stats, procVars, runVars, histVars, budget>>

\* A transaction fails or the metadata has changed meanwhile; what was done to the
\* events stays.
CommandFails(cmd) ==
    /\ Failure
    /\ command' = {}
    /\ UNCHANGED <<dbVars, cached, stats, procVars, runVars, histVars, exits, ops>>

\* create_scheduled_event and delete_scheduled_event
CreateScheduledEvent(e, t) ==
    /\ rows[e].status = "none"
    /\ Op
    /\ rows' = [rows EXCEPT ![e] = NewRow(t)]
    /\ UNCHANGED <<clock, triggers, command, cached, stats, procVars, runVars, histVars,
                   exits, failures>>

DeleteScheduledEvent(e) ==
    /\ Exists(e)
    /\ Op
    /\ rows' = [rows EXCEPT ![e].status = "deleted"]
    /\ UNCHANGED <<clock, triggers, command, cached, stats, procVars, runVars, histVars,
                   exits, failures>>

\* The schema cache of i catches up with the metadata.
SyncCache(i) ==
    /\ phase[i] # "down" /\ cached[i] # triggers
    /\ cached' = [cached EXCEPT ![i] = triggers]
    /\ UNCHANGED <<dbVars, command, stats, procVars, runVars, histVars, budget>>

(* The clock *)

Tick ==
    /\ clock < MaxTime
    /\ clock' = clock + 1
    /\ UNCHANGED <<rows, triggers, command, cached, stats, procVars, runVars, histVars, budget>>

RetryDue(e) ==
    /\ rows[e].retry = "future"
    /\ rows' = [rows EXCEPT ![e].retry = "due"]
    /\ UNCHANGED <<clock, triggers, command, cached, stats, procVars, runVars, histVars, budget>>

-------------------------------------------------------------------------------
ProcessorStep(i) ==
    \/ BeginIteration(i) \/ GetScheduledEventsForDelivery(i) \/ GetScheduledEventsFails(i)
    \/ ProcessCronEvents(i) \/ ProcessOneOffEvents(i) \/ EndIteration(i)
    \/ \E c \in batch[i] : ProcessScheduledEvent(i, c) \/ SkipEvent(i, c)
    \/ \E w \in work[i] : InsertInvocation(i, w) \/ SetScheduledEventOp(i, w)
                            \/ ProcessingFails(i, w)

InstanceStep(i) ==
    \/ GetDeprivedCronTriggerStats(i) \/ InsertCronEventsFor(i) \/ GeneratorFails(i)
    \/ ProcessorStep(i)
    \/ Start(i) \/ Crash(i) \/ BeginShutdown(i) \/ Poll(i) \/ ShutdownUnlocks(i)
    \/ StopThread(i) \/ SyncCache(i)

UserStep ==
    \/ \E i \in Instances, cmd \in Commands : BeginCommand(i, cmd)
    \/ \E cmd \in command : CommandDrops(cmd) \/ CommandInserts(cmd)
                             \/ CommandCommits(cmd) \/ CommandFails(cmd)
    \/ \E e \in OneOffs, t \in Times : CreateScheduledEvent(e, t)
    \/ \E e \in Events : DeleteScheduledEvent(e)

ClockStep == Tick \/ \E e \in Events : RetryDue(e)

Next == (\E i \in Instances : InstanceStep(i)) \/ UserStep \/ ClockStep

Spec == Init /\ [][Next]_vars

\* The threads run, requests time out, the clock advances, the schema sync polls and
\* an instance that is down is started again.  Nothing is assumed of failures,
\* users and tolerances.
Fairness ==
    /\ \A i \in Instances :
        /\ WF_vars(GetDeprivedCronTriggerStats(i)) /\ WF_vars(InsertCronEventsFor(i))
        /\ WF_vars(BeginIteration(i)) /\ WF_vars(GetScheduledEventsForDelivery(i))
        /\ WF_vars(ProcessCronEvents(i)) /\ WF_vars(ProcessOneOffEvents(i))
        /\ WF_vars(EndIteration(i))
        /\ WF_vars(\E c \in batch[i] : ProcessScheduledEvent(i, c) \/ SkipEvent(i, c))
        /\ WF_vars(\E w \in work[i] : \/ InsertInvocation(i, w) \/ SetScheduledEventOp(i, w)
                                     \/ ProcessingFails(i, w))
        /\ WF_vars(Start(i)) /\ WF_vars(Poll(i)) /\ WF_vars(ShutdownUnlocks(i))
        /\ WF_vars(StopThread(i)) /\ WF_vars(SyncCache(i))
    /\ WF_vars(Tick) /\ \A e \in Events : WF_vars(RetryDue(e))

FairSpec == Spec /\ Fairness

-------------------------------------------------------------------------------
(* Properties *)

\* An event that was never unlocked while some instance had it is in the hands of
\* one instance at most, and locked meanwhile, until its outcome is recorded.
ExclusiveUnlessDoubted ==
    \A e \in Events \ doubted :
        /\ Cardinality(InFlight(e)) <= 1
        /\ InFlight(e) # {} => rows[e].status \in {"locked", "deleted"}

\* Note [Scheduled event lifecycle]: nothing leaves delivered, error or dead, as
\* long as the event was not unlocked behind the back of an instance; only a
\* user may delete it.
FinalUnlessDoubted ==
    [][\A e \in Events \ doubted :
          rows[e].status \in Final => rows'[e].status \in {rows[e].status, "deleted"}]_vars

\* The webhook of an event is called num_retries + 1 times at most, and once more
\* for every crash or failed transaction, although the try and the status are
\* written by two transactions and the decision is taken with the tries of the
\* fetch: unless it was unlocked meanwhile or Retry-After prolongs it.
TriesBounded ==
    \A e \in Events \ (doubted \cup Throttled) :
        rows[e].tries <= NumRetries + 1 + exits + failures

\* A time of a cron trigger gets one event, whoever generates it and however stale
\* the statistics are, unless it had already come when it was inserted.
OneEventUnlessOverdue ==
    \A e, f \in CronEvents :
        /\ SameSlot(e, f) /\ <<e[1], e[2]>> \notin overdue
        /\ Exists(e) /\ Exists(f)
        => e = f

\* What a row and the memory of an instance are to the queue.
RowStatus(row) ==
    CASE row.status = "none" -> "absent"
      [] row.status \in {"scheduled", "locked"} -> "open"
      [] row.status = "delivered" -> "delivered"
      [] row.status \in {"error", "dead"} -> "failed"
      [] OTHER -> "withdrawn"
ClaimOn(e, fetched, taken) ==
    IF \E w \in taken : w.id = e /\ w.outcome = "accepted" THEN "accepted"
    ELSE IF \E w \in taken : w.id = e THEN "refused"
    ELSE IF \E c \in fetched : c.id = e THEN "claimed" ELSE "none"

QueueClaims == Instances \X Events
QueueStatus == [e \in Events |-> RowStatus(rows[e])]
QueueClaim  == [c \in QueueClaims |-> ClaimOn(c[2], batch[c[1]], work[c[1]])]

Queue == INSTANCE DeliveryQueue WITH
    Claims <- QueueClaims, status <- QueueStatus, claim <- QueueClaim

\* However generators, processors, commands, starts and shutdowns interleave, what they
\* do together is what DeliveryQueue allows: an event is fetched only if nobody has it, no
\* webhook is called for one that is decided, and the two transactions of an outcome
\* report what the webhook has answered, until an event is unlocked under a processor.
ImplementsQueue == Queue!Spec

\* Every event ends up delivered, in error, dead or deleted, in spite of crashes
\* and shutdowns: what was locked is unlocked by the next start.  It may stay
\* locked when a transaction failed, a time has two events (the unique index may
\* refuse to unlock them), a command was given (an event that comes due before
\* the cache has its trigger is skipped) or the webhook has no address.
EveryEventSettles ==
    \A e \in Events \ Unresolvable :
        rows[e].status = "scheduled"
            ~> \/ rows[e].status \in Final \cup {"deleted"}
               \/ failures > 0 \/ overdue # {} \/ (ops > 0 /\ e \in CronEvents)

=============================================================================
