------------------------ MODULE ScheduledTriggers_proofs -----------------------
(*****************************************************************************)
(* Proofs of the safety properties of ScheduledTriggers, for any instances,   *)
(* triggers, one-off events, times, retries and number of faults.             *)
(*                                                                           *)
(* Few actions write to the rows or take events up; all others let an         *)
(* instance forget copies at most, and disturb no part of the invariant       *)
(* (Onward).                                                                  *)
(*****************************************************************************)
EXTENDS ScheduledTriggers, FiniteSetTheorems, WellFoundedInduction, TLAPS

\* An iteration that has not fetched yet holds nothing, an event is taken up once
\* the cron events are saved, and no instance has two copies of one event: what
\* it fetches or takes up overwrites nothing.
OneCopy ==
    \A i \in Instances :
        /\ step[i] \in {"idle", "fetching"} => batch[i] = {} /\ work[i] = {}
        /\ step[i] = "fetched" => work[i] = {}
        /\ \A c, d \in batch[i] : c.id = d.id => c = d
        /\ \A c \in batch[i], w \in work[i] : c.id # w.id
        /\ \A v, w \in work[i] : v = w

\* The shutdowns that have begun and may still cost a call, and what crashes,
\* shutdowns and failed transactions may have cost so far.
ShuttingDown == {i \in Instances : phase[i] \in {"waiting", "handled"}}
Spent        == exits + failures - Cardinality(ShuttingDown)
SpentOK      == IsFiniteSet(ShuttingDown) /\ Spent \in Nat

\* ExclusiveUnlessDoubted, of one event and without cardinalities.
InOneHand(e) ==
    e \notin doubted =>
        /\ \A i, j \in InFlight(e) : i = j
        /\ InFlight(e) # {} => rows[e].status \in {"locked", "deleted"}

\* A cron event that was taken up has come.
TakenUpInTime(e) ==
    e \in CronEvents =>
        /\ rows[e].time = e[2]
        /\ \/ rows[e].retry # "null" \/ rows[e].status \in {"locked"} \cup Final
           \/ InFlight(e) # {}
           => e[2] <= clock

\* The tries of a fetched event are those of its row, but for the one that was
\* logged meanwhile.
CopiesAgree(e) ==
    e \notin doubted => \A i \in Instances :
        /\ \A c \in batch[i] : c.id = e => rows[e].tries = c.tries
        /\ \A w \in work[i] : w.id = e =>
              /\ rows[e].tries = w.tries + (IF w.logged THEN 1 ELSE 0)
              /\ w.outcome = "retryAfter" => e \in Throttled

\* The last try is that of an event that is final, or about to be.
Logged(e) == \E i \in Instances : \E w \in work[i] : w.id = e /\ w.logged
Last(e)   == IF rows[e].status \in Final \cup {"deleted"} \/ Logged(e) THEN 1 ELSE 0
TriesSpent(e) ==
    e \notin doubted \cup Throttled => rows[e].tries <= NumRetries + Spent + Last(e)

EventOK(e) == InOneHand(e) /\ TakenUpInTime(e) /\ CopiesAgree(e) /\ TriesSpent(e)

Safe == /\ \A e \in Events : EventOK(e)
        /\ IsUnique(rows) /\ OneEventUnlessOverdue
IInv == TypeOK /\ OneCopy /\ SpentOK /\ Safe

\* What every step does, and what most steps do with an event: leave its row
\* alone and add no copy; a call that was logged is forgotten at some cost only.
Onward == clock <= clock' /\ doubted \subseteq doubted' /\ Spent' >= Spent
Undisturbed(e) ==
    /\ rows'[e] = rows[e]
    /\ \A i \in Instances : /\ \A c \in batch'[i] : c.id = e => c \in batch[i]
                            /\ \A w \in work'[i] : w.id = e => w \in work[i]
    /\ Logged(e) => Logged(e)' \/ Spent' >= Spent + 1

-------------------------------------------------------------------------------
(* Types *)

LEMMA SingletonIsSmall == ASSUME NEW x PROVE Cardinality({x}) <= 1
<1>1. Cardinality({x}) = 1
  BY FS_Singleton
<1> QED
  BY <1>1

\* There is a last one among the times that have come up.
LEMMA LastTime ==
    ASSUME NEW S, S \subseteq Times, S # {}
    PROVE  \E m \in S : \A n \in S : n <= m
<1> DEFINE T == {MaxTime - n : n \in S}
<1>1. MaxTime \in Nat /\ S \subseteq Int /\ \A n \in S : 1 <= n /\ n <= MaxTime
  BY ScheduledAssumption DEF Times
<1>2. T \subseteq Nat /\ T # {}
  BY <1>1
<1>3. PICK x \in T : \A y \in T : ~ (<<y, x>> \in OpToRel(<, Nat))
  BY <1>2, NatLessThanWellFounded, WFMin
<1>4. \A y \in T : x <= y
  <2> TAKE y \in T
  <2>1. ~ (y < x)
    BY <1>2, <1>3, Zenon DEF OpToRel
  <2>2. x \in Nat /\ y \in Nat
    BY <1>2, Zenon
  <2> HIDE DEF T
  <2> QED
    BY <2>1, <2>2
<1>5. PICK m \in S : x = MaxTime - m
  OBVIOUS
<1>6. \A n \in S : MaxTime - n \in T
  OBVIOUS
<1>7. \A n \in S : n <= m
  BY <1>1, <1>4, <1>5, <1>6
<1> QED
  BY <1>7

LEMMA MaxScheduledTimeType ==
    ASSUME TypeOK, NEW t \in Triggers
    PROVE  MaxScheduledTime(t) \in 0 .. MaxTime
<1>1. CASE UpcomingEvents(t) = {}
  BY <1>1 DEF TypeOK, MaxScheduledTime
<1>2. CASE UpcomingEvents(t) # {}
  <2> DEFINE S == {e[2] : e \in UpcomingEvents(t)}
  <2>1. S \subseteq Times /\ S # {}
    BY <1>2 DEF UpcomingEvents, CronEvents
  <2>2. PICK m \in S : \A n \in S : n <= m
    BY <2>1, LastTime
  <2>3. \A e \in UpcomingEvents(t) : e[2] <= m
    BY <2>2
  <2>4. MaxScheduledTime(t) \in S
    BY <1>2, <2>3 DEF MaxScheduledTime
  <2> QED
    BY <2>1, <2>4, ScheduledAssumption DEF Times
<1> QED
  BY <1>1, <1>2

LEMMA FreshEventType ==
    ASSUME NEW slots, NEW e \in Inserted(slots)
    PROVE  /\ e \in CronEvents /\ rows[e].status = "none"
           /\ \E slot \in slots : /\ e = CHOOSE f \in FreshEvent(slot) : TRUE
                                  /\ e[1] = slot[1] /\ e[2] = slot[2] /\ ~Conflicts(slot)
<1>1. PICK slot \in slots : /\ ~Conflicts(slot) /\ FreshEvent(slot) # {}
                            /\ e = CHOOSE f \in FreshEvent(slot) : TRUE
  BY DEF Inserted
<1>2. e \in FreshEvent(slot)
  BY <1>1
<1> QED
  BY <1>1, <1>2 DEF FreshEvent

LEMMA InsertCronEventsType ==
    ASSUME TypeOK, NEW slots, InsertCronEvents(slots)
    PROVE  rows' \in [Events -> Row] /\ overdue' \subseteq Triggers \X Times
<1>1. \A e \in Inserted(slots) : e \in CronEvents /\ e[1] \in Triggers /\ e[2] \in Times
  BY FreshEventType DEF CronEvents
<1>2. \A e \in Inserted(slots) : NewRow(e[2]) \in Row
  BY <1>1 DEF NewRow, Row, Statuses
<1> QED
  BY <1>1, <1>2 DEF TypeOK, InsertCronEvents

LEMMA UnlockType ==
    ASSUME TypeOK, UnlockAll \/ UnlockAllFails
    PROVE  /\ rows' \in [Events -> Row] /\ doubted' \subseteq Events
           /\ failures' \in Nat
           /\ exits + failures' + ops <= MaxFaults
<1>1. \A e \in Events : Unlocked(e) \in Row
  BY DEF TypeOK, Unlocked, Row, Statuses
<1> QED
  BY <1>1, ScheduledAssumption DEF TypeOK, UnlockAll, UnlockAllFails, Failure, Budget

LEMMA FailureType ==
    ASSUME TypeOK, Failure, exits' = exits, ops' = ops
    PROVE  /\ exits' \in Nat /\ failures' \in Nat /\ ops' \in Nat
           /\ exits' + failures' + ops' <= MaxFaults
BY ScheduledAssumption DEF TypeOK, Failure, Budget

LEMMA ExitType ==
    ASSUME TypeOK, Exit, failures' = failures, ops' = ops
    PROVE  /\ exits' \in Nat /\ failures' \in Nat /\ ops' \in Nat
           /\ exits' + failures' + ops' <= MaxFaults
BY ScheduledAssumption DEF TypeOK, Exit, Budget

LEMMA OpType ==
    ASSUME TypeOK, Op, failures' = failures, exits' = exits
    PROVE  /\ exits' \in Nat /\ failures' \in Nat /\ ops' \in Nat
           /\ exits' + failures' + ops' <= MaxFaults
BY ScheduledAssumption DEF TypeOK, Op, Budget

LEMMA ForgetType ==
    ASSUME TypeOK, NEW i \in Instances, Forget(i)
    PROVE  /\ stats' \in [Instances -> SUBSET Stats]
           /\ \A j \in Instances : Cardinality(stats'[j]) <= 1
           /\ phase' \in [Instances -> {"down", "up", "waiting", "handled"}]
           /\ thread' \in [Instances -> {"forked", "initiated", "blocking"}]
           /\ step' \in [Instances -> {"idle", "fetching", "fetched", "cron", "oneOff"}]
           /\ batch' \in [Instances -> SUBSET Copies]
           /\ work' \in [Instances -> SUBSET Works]
           /\ \A j \in Instances : Cardinality(work'[j]) <= 1
           /\ info' \in [Instances -> SUBSET Triggers]
           /\ locked' \in [Instances -> SUBSET Events]
           /\ polls' \in [Instances -> 0 .. GracefulPolls]
<1>1. 0 \in 0 .. GracefulPolls
  BY ScheduledAssumption
<1>2. Cardinality({}) <= 1
  BY FS_EmptySet
<1> QED
  BY <1>1, <1>2 DEF TypeOK, Forget

LEMMA InitType == Init => TypeOK
<1> SUFFICES ASSUME Init PROVE TypeOK
  OBVIOUS
<1>1. \A e \in Events : NoRow(IF e \in OneOffs THEN 1 ELSE e[2]) \in Row
  <2> TAKE e \in Events
  <2>1. (IF e \in OneOffs THEN 1 ELSE e[2]) \in Times
    BY ScheduledAssumption DEF Events, CronEvents, Times
  <2> QED
    BY <2>1 DEF NoRow, NewRow, Row, Statuses
<1>2. Cardinality({}) <= 1
  BY FS_EmptySet
<1>3. 0 \in 0 .. GracefulPolls /\ 0 \in 0 .. MaxTime /\ 0 + 0 + 0 <= MaxFaults
  BY ScheduledAssumption
<1> QED
  BY <1>1, <1>2, <1>3 DEF Init, TypeOK

\* The generator.
LEMMA GeneratorType ==
    ASSUME TypeOK, NEW i \in Instances,
           GetDeprivedCronTriggerStats(i) \/ InsertCronEventsFor(i) \/ GeneratorFails(i)
    PROVE  TypeOK'
<1> USE DEF procVars, runVars, histVars, budget, dbVars
<1>1. CASE GetDeprivedCronTriggerStats(i)
  <2>1. DeprivedCronTriggers(i) \in Stats
    BY MaxScheduledTimeType DEF TypeOK, DeprivedCronTriggers, Stats
  <2>2. Cardinality({DeprivedCronTriggers(i)}) <= 1
    BY FS_Singleton
  <2> QED
    BY <1>1, <2>1, <2>2 DEF TypeOK, GetDeprivedCronTriggerStats
<1>2. Cardinality({}) <= 1
  BY FS_EmptySet
<1>3. CASE InsertCronEventsFor(i)
  <2>1. rows' \in [Events -> Row] /\ overdue' \subseteq Triggers \X Times
    BY <1>3, InsertCronEventsType DEF InsertCronEventsFor
  <2> QED
    BY <1>2, <1>3, <2>1 DEF TypeOK, InsertCronEventsFor
<1>4. CASE GeneratorFails(i)
  BY <1>2, <1>4, FailureType DEF TypeOK, GeneratorFails
<1> QED
  BY <1>1, <1>3, <1>4

LEMMA SetOpType == ASSUME NEW row \in Row, NEW w PROVE SetOp(row, w) \in Row
<1>1. \A status \in Statuses : [row EXCEPT !.status = status] \in Row
  BY DEF Row
<1>2. [row EXCEPT !.status = "scheduled", !.retry = "future"] \in Row
  BY DEF Row, Statuses
<1>3. {"delivered", "dead", "error"} \subseteq Statuses
  BY DEF Statuses
<1> DEFINE Fails == \/ w.outcome = "untransformable"
                    \/ w.outcome = "failed" /\ TriesExhausted(w.tries)
<1>4. CASE w.outcome = "accepted"
  BY <1>1, <1>3, <1>4 DEF SetOp
<1>5. CASE w.outcome = "dead"
  BY <1>1, <1>3, <1>5 DEF SetOp
<1>6. CASE w.outcome \notin {"accepted", "dead"} /\ Fails
  BY <1>1, <1>3, <1>6 DEF SetOp
<1>7. CASE w.outcome \notin {"accepted", "dead"} /\ ~Fails
  BY <1>2, <1>7 DEF SetOp
<1> QED
  BY <1>4, <1>5, <1>6, <1>7

\* The processor of scheduled events.
LEMMA ProcessorType ==
    ASSUME TypeOK, NEW i \in Instances, ProcessorStep(i)
    PROVE  TypeOK'
<1> USE DEF procVars, runVars, histVars, budget, dbVars
<1>1. ASSUME BeginIteration(i) \/ ProcessCronEvents(i) \/ ProcessOneOffEvents(i) \/ EndIteration(i)
      PROVE  TypeOK'
  <2>1. locked' \in [Instances -> SUBSET Events]
    BY <1>1 DEF TypeOK, BeginIteration, ProcessCronEvents, ProcessOneOffEvents, EndIteration, Part,
                Events
  <2> QED
    BY <1>1, <2>1 DEF TypeOK, BeginIteration, ProcessCronEvents, ProcessOneOffEvents, EndIteration
<1>2. CASE GetScheduledEventsForDelivery(i)
  <2>1. rows' \in [Events -> Row]
    <3>1. \A row \in Row : [row EXCEPT !.status = "locked"] \in Row
      BY DEF Row, Statuses
    <3> QED
      BY <1>2, <3>1 DEF TypeOK, GetScheduledEventsForDelivery
  <2>2. \A e \in Events : [id |-> e, tries |-> rows[e].tries] \in Copies
    BY DEF TypeOK, Copies, Row
  <2>3. batch' \in [Instances -> SUBSET Copies]
    BY <1>2, <2>2 DEF TypeOK, GetScheduledEventsForDelivery
  <2> QED
    BY <1>2, <2>1, <2>3 DEF TypeOK, GetScheduledEventsForDelivery
<1>3. CASE GetScheduledEventsFails(i)
  BY <1>3, FailureType DEF TypeOK, GetScheduledEventsFails
<1>4. ASSUME NEW c \in batch[i], ProcessScheduledEvent(i, c)
      PROVE  TypeOK'
  <2>1. PICK outcome \in PossibleOutcomes(c) :
          work' = [work EXCEPT ![i] = {[id |-> c.id, tries |-> c.tries,
                                        outcome |-> outcome, logged |-> FALSE]}]
    BY <1>4 DEF ProcessScheduledEvent
  <2>2. c \in Copies /\ outcome \in Outcomes
    BY DEF TypeOK, PossibleOutcomes, Outcomes
  <2>3. [id |-> c.id, tries |-> c.tries, outcome |-> outcome, logged |-> FALSE] \in Works
    BY <2>2 DEF Copies, Works
  <2>5. work' \in [Instances -> SUBSET Works] /\ \A j \in Instances : Cardinality(work'[j]) <= 1
    BY <2>1, <2>3, SingletonIsSmall DEF TypeOK
  <2> QED
    BY <1>4, <2>5 DEF TypeOK, ProcessScheduledEvent
<1>5. ASSUME NEW c \in batch[i], SkipEvent(i, c)
      PROVE  TypeOK'
  BY <1>5 DEF TypeOK, SkipEvent
<1>6. ASSUME NEW w \in work[i], InsertInvocation(i, w)
      PROVE  TypeOK'
  <2>1. w \in Works
    BY DEF TypeOK
  <2>2. [w EXCEPT !.logged = TRUE] \in Works
    BY <2>1 DEF Works
  <2>4. work' \in [Instances -> SUBSET Works] /\ \A j \in Instances : Cardinality(work'[j]) <= 1
    BY <1>6, <2>2, SingletonIsSmall DEF TypeOK, InsertInvocation
  <2>5. w.id \in Events
    BY <2>1 DEF Works
  <2>6. rows' \in [Events -> Row]
    <3>1. rows[w.id] \in Row
      BY <2>5 DEF TypeOK
    <3>2. [rows[w.id] EXCEPT !.tries = @ + 1] \in Row
      BY <3>1 DEF Row
    <3> QED
      BY <1>6, <2>5, <3>2 DEF TypeOK, InsertInvocation
  <2> QED
    BY <1>6, <2>4, <2>6 DEF TypeOK, InsertInvocation
<1>7. Cardinality({}) <= 1
  BY FS_EmptySet
<1>8. ASSUME NEW w \in work[i], SetScheduledEventOp(i, w)
      PROVE  TypeOK'
  <2>1. w.id \in Events
    BY DEF TypeOK, Works
  <2>2. SetOp(rows[w.id], w) \in Row
    BY <2>1, SetOpType DEF TypeOK
  <2>3. rows' \in [Events -> Row]
    BY <1>8, <2>1, <2>2 DEF TypeOK, SetScheduledEventOp, RowsAfter
  <2> QED
    BY <1>7, <1>8, <2>3 DEF TypeOK, SetScheduledEventOp
<1>9. ASSUME NEW w \in work[i], ProcessingFails(i, w)
      PROVE  TypeOK'
  <2>1. /\ exits' \in Nat /\ failures' \in Nat /\ ops' \in Nat
        /\ exits' + failures' + ops' <= MaxFaults
    BY <1>9, FailureType DEF TypeOK, ProcessingFails
  <2> QED
    BY <1>7, <1>9, <2>1 DEF TypeOK, ProcessingFails
<1> QED
  BY <1>1, <1>2, <1>3, <1>4, <1>5, <1>6, <1>8, <1>9 DEF ProcessorStep

\* Start and shutdown.
LEMMA RunType ==
    ASSUME TypeOK, NEW i \in Instances,
           \/ Start(i) \/ Crash(i) \/ BeginShutdown(i) \/ Poll(i) \/ ShutdownUnlocks(i)
           \/ StopThread(i) \/ SyncCache(i)
    PROVE  TypeOK'
<1> USE DEF procVars, runVars, histVars, budget, dbVars
<1>1. CASE Start(i) \/ ShutdownUnlocks(i)
  BY <1>1, UnlockType DEF TypeOK, Start, ShutdownUnlocks
<1>2. CASE Crash(i)
  BY <1>2, ForgetType, ExitType DEF TypeOK, Crash
<1>3. CASE StopThread(i)
  BY <1>3, ForgetType DEF TypeOK, StopThread
<1>4. CASE BeginShutdown(i)
  <2>1. GracefulPolls \in 0 .. GracefulPolls
    BY ScheduledAssumption
  <2> QED
    BY <1>4, <2>1, ExitType DEF TypeOK, BeginShutdown
<1>5. CASE Poll(i)
  <2>1. polls[i] > 0 => polls[i] - 1 \in 0 .. GracefulPolls
    BY ScheduledAssumption DEF TypeOK
  <2>2. /\ polls' \in [Instances -> 0 .. GracefulPolls]
        /\ phase' \in [Instances -> {"down", "up", "waiting", "handled"}]
    BY <1>5, <2>1 DEF TypeOK, Poll
  <2> QED
    BY <1>5, <2>2 DEF TypeOK, Poll
<1>6. CASE SyncCache(i)
  BY <1>6 DEF TypeOK, SyncCache
<1> QED
  BY <1>1, <1>2, <1>3, <1>4, <1>5, <1>6

LEMMA UserType ==
    ASSUME TypeOK, UserStep
    PROVE  TypeOK'
<1> USE DEF procVars, runVars, histVars, budget, dbVars
<1>1. \A x : Cardinality({x}) <= 1
  BY SingletonIsSmall
<1>2. Cardinality({}) <= 1
  BY FS_EmptySet
<1>3. ASSUME NEW i \in Instances, NEW cmd \in Commands, BeginCommand(i, cmd)
      PROVE  TypeOK'
  BY <1>1, <1>3, OpType DEF TypeOK, BeginCommand
<1>4. ASSUME NEW cmd \in command,
             CommandDrops(cmd) \/ CommandInserts(cmd) \/ CommandCommits(cmd) \/ CommandFails(cmd)
      PROVE  TypeOK'
  <2>1. cmd \in Commands /\ cmd.trigger \in Triggers
    BY DEF TypeOK, Commands
  <2>2. \A next \in {"drop", "insert", "commit"} : [cmd EXCEPT !.next = next] \in Commands
    BY <2>1 DEF Commands
  <2>3. CASE CommandDrops(cmd)
    <3>1. rows' \in [Events -> Row]
      BY <2>3 DEF TypeOK, CommandDrops, DropFutureCronEvents, Row, Statuses
    <3> QED
      BY <1>1, <2>2, <2>3, <3>1 DEF TypeOK, CommandDrops
  <2>4. CASE CommandInserts(cmd)
    <3>1. rows' \in [Events -> Row] /\ overdue' \subseteq Triggers \X Times
      BY <2>4, InsertCronEventsType DEF CommandInserts
    <3> QED
      BY <1>1, <2>2, <2>4, <3>1 DEF TypeOK, CommandInserts
  <2>5. CASE CommandCommits(cmd)
    BY <1>2, <2>1, <2>5 DEF TypeOK, CommandCommits
  <2>6. CASE CommandFails(cmd)
    BY <1>2, <2>6, FailureType DEF TypeOK, CommandFails
  <2> QED
    BY <1>4, <2>3, <2>4, <2>5, <2>6
<1>5. ASSUME NEW e \in OneOffs, NEW t \in Times, CreateScheduledEvent(e, t)
      PROVE  TypeOK'
  <2>1. NewRow(t) \in Row
    BY DEF NewRow, Row, Statuses
  <2> QED
    BY <1>5, <2>1, OpType DEF TypeOK, CreateScheduledEvent
<1>6. ASSUME NEW e \in Events, DeleteScheduledEvent(e)
      PROVE  TypeOK'
  <2>1. rows' \in [Events -> Row]
    BY <1>6 DEF TypeOK, DeleteScheduledEvent, Row, Statuses
  <2> QED
    BY <1>6, <2>1, OpType DEF TypeOK, DeleteScheduledEvent
<1> QED
  BY <1>3, <1>4, <1>5, <1>6 DEF UserStep

LEMMA ClockType ==
    ASSUME TypeOK, ClockStep
    PROVE  TypeOK'
<1> USE DEF procVars, runVars, histVars, budget, dbVars
<1>1. CASE Tick
  <2>1. clock' \in 0 .. MaxTime
    BY <1>1, ScheduledAssumption DEF TypeOK, Tick
  <2> QED
    BY <1>1, <2>1 DEF TypeOK, Tick
<1>2. ASSUME NEW e \in Events, RetryDue(e)
      PROVE  TypeOK'
  <2>1. rows' \in [Events -> Row]
    BY <1>2 DEF TypeOK, RetryDue, Row
  <2> QED
    BY <1>2, <2>1 DEF TypeOK, RetryDue
<1> QED
  BY <1>1, <1>2 DEF ClockStep

LEMMA TypeStep ==
    ASSUME TypeOK, [Next]_vars
    PROVE  TypeOK'
<1>1. CASE UNCHANGED vars
  BY <1>1 DEF TypeOK, vars
<1>2. ASSUME NEW i \in Instances, InstanceStep(i)
      PROVE  TypeOK'
  BY <1>2, GeneratorType, ProcessorType, RunType DEF InstanceStep
<1> QED
  BY <1>1, <1>2, UserType, ClockType DEF Next

-------------------------------------------------------------------------------
(* Copies and what was spent *)

LEMMA OneCopyStep ==
    ASSUME TypeOK, OneCopy, [Next]_vars
    PROVE  OneCopy'
<1> USE DEF procVars, runVars, histVars, budget, dbVars
<1>1. ASSUME step' = step, batch' = batch, work' = work
      PROVE  OneCopy'
  BY <1>1 DEF OneCopy
<1>2. ASSUME NEW i \in Instances, Forget(i)
      PROVE  OneCopy'
  BY <1>2 DEF TypeOK, OneCopy, Forget
<1>3. ASSUME NEW i \in Instances, ProcessorStep(i)
      PROVE  OneCopy'
  <2>1. ASSUME batch' = batch, work' = work,
               \/ step' = [step EXCEPT ![i] = "fetching"] /\ step[i] = "idle"
               \/ step' = [step EXCEPT ![i] = "idle"] /\ step[i] = "fetching"
               \/ step' = [step EXCEPT ![i] = "idle"] /\ batch[i] = {} /\ work[i] = {}
               \/ step' = [step EXCEPT ![i] = "cron"]
               \/ step' = [step EXCEPT ![i] = "oneOff"]
        PROVE  OneCopy'
    BY <2>1 DEF TypeOK, OneCopy
  <2>2. CASE \/ BeginIteration(i) \/ GetScheduledEventsFails(i)
             \/ ProcessCronEvents(i) \/ ProcessOneOffEvents(i) \/ EndIteration(i)
    BY <2>1, <2>2 DEF BeginIteration, GetScheduledEventsFails, ProcessCronEvents,
                      ProcessOneOffEvents, EndIteration
  <2>3. CASE GetScheduledEventsForDelivery(i)
    BY <2>3 DEF TypeOK, OneCopy, GetScheduledEventsForDelivery
  <2>4. ASSUME NEW c \in batch[i], ProcessScheduledEvent(i, c)
        PROVE  OneCopy'
    <3>1. PICK outcome :
            work' = [work EXCEPT ![i] = {[id |-> c.id, tries |-> c.tries,
                                          outcome |-> outcome, logged |-> FALSE]}]
      BY <2>4 DEF ProcessScheduledEvent
    <3>2. batch' = [batch EXCEPT ![i] = @ \ {c}] /\ step' = step /\ step[i] \in {"cron", "oneOff"}
      BY <2>4 DEF ProcessScheduledEvent, TakesUp
    <3>3. ASSUME NEW j \in Instances, j # i
          PROVE  batch'[j] = batch[j] /\ work'[j] = work[j] /\ step'[j] = step[j]
      BY <3>1, <3>2, <3>3 DEF TypeOK
    <3>4. \A w \in work'[i] : w.id = c.id
      BY <3>1 DEF TypeOK
    <3>5. \A v, w \in work'[i] : v = w
      BY <3>1 DEF TypeOK
    <3>6. batch'[i] = batch[i] \ {c}
      BY <3>2 DEF TypeOK
    <3> QED
      BY <3>2, <3>3, <3>4, <3>5, <3>6 DEF OneCopy
  <2>5. ASSUME NEW c \in batch[i], SkipEvent(i, c)
        PROVE  OneCopy'
    BY <2>5 DEF TypeOK, OneCopy, SkipEvent, TakesUp
  <2>6. ASSUME NEW w \in work[i], InsertInvocation(i, w)
        PROVE  OneCopy'
    <3>1. w \in Works /\ [w EXCEPT !.logged = TRUE].id = w.id
      BY DEF TypeOK, Works
    <3>2. work' = [work EXCEPT ![i] = {[w EXCEPT !.logged = TRUE]}] /\ batch' = batch /\ step' = step
      BY <2>6 DEF InsertInvocation
    <3>3. work'[i] = {[w EXCEPT !.logged = TRUE]}
      BY <3>2 DEF TypeOK
    <3>4. \A j \in Instances : j # i => work'[j] = work[j]
      BY <3>2 DEF TypeOK
    <3>5. \A c \in batch'[i], v \in work'[i] : c.id # v.id
      <4> TAKE c \in batch'[i], v \in work'[i]
      <4>1. v.id = w.id
        BY <3>1, <3>3
      <4>2. c \in batch[i]
        BY <3>2
      <4>3. c.id # w.id
        BY <4>2 DEF OneCopy
      <4> QED
        BY <4>1, <4>3
    <3>6. \A u, v \in work'[i] : u = v
      BY <3>3
    <3>7. step'[i] \notin {"idle", "fetching", "fetched"}
      BY <3>2 DEF OneCopy
    <3> QED
      BY <3>2, <3>4, <3>5, <3>6, <3>7 DEF OneCopy
  <2>7. ASSUME NEW w \in work[i], SetScheduledEventOp(i, w) \/ ProcessingFails(i, w)
        PROVE  OneCopy'
    BY <2>7 DEF TypeOK, OneCopy, SetScheduledEventOp, ProcessingFails
  <2> QED
    BY <1>3, <2>2, <2>3, <2>4, <2>5, <2>6, <2>7 DEF ProcessorStep
<1>4. ASSUME NEW i \in Instances, InstanceStep(i)
      PROVE  OneCopy'
  BY <1>1, <1>2, <1>3, <1>4
     DEF InstanceStep, GetDeprivedCronTriggerStats, InsertCronEventsFor, GeneratorFails, Start,
         Crash, BeginShutdown, Poll, ShutdownUnlocks, StopThread, SyncCache
<1>5. CASE UserStep
  BY <1>1, <1>5 DEF UserStep, BeginCommand, CommandDrops, CommandInserts, CommandCommits,
                    CommandFails, CreateScheduledEvent, DeleteScheduledEvent
<1>6. CASE ClockStep
  BY <1>1, <1>6 DEF ClockStep, Tick, RetryDue
<1>7. CASE UNCHANGED vars
  BY <1>1, <1>7 DEF vars
<1> QED
  BY <1>4, <1>5, <1>6, <1>7 DEF Next

\* As long as no shutdown begins or ends, faults only add to what was spent.
LEMMA SpentKept ==
    ASSUME TypeOK, TypeOK', SpentOK, ShuttingDown' = ShuttingDown,
           exits' >= exits, failures' >= failures
    PROVE  /\ SpentOK' /\ Spent' >= Spent
           /\ failures' > failures => Spent' >= Spent + 1
<1>1. Cardinality(ShuttingDown) \in Nat
  BY FS_CardinalityType DEF SpentOK
<1>2. Cardinality(ShuttingDown)' = Cardinality(ShuttingDown)
  OBVIOUS
<1>3. exits \in Nat /\ exits' \in Nat /\ failures \in Nat /\ failures' \in Nat
  BY DEF TypeOK
<1> QED
  BY <1>1, <1>2, <1>3 DEF SpentOK, Spent

\* A crash or the end of a shutdown makes up for the call of an instance.
LEMMA SpentForgotten ==
    ASSUME TypeOK, TypeOK', SpentOK, NEW i \in Instances, Crash(i) \/ StopThread(i)
    PROVE  SpentOK' /\ Spent' >= Spent + 1
<1>1. Cardinality(ShuttingDown) \in Nat /\ IsFiniteSet(ShuttingDown)
  BY FS_CardinalityType DEF SpentOK
<1>2. ShuttingDown' = ShuttingDown \ {i}
  BY DEF TypeOK, ShuttingDown, Crash, StopThread, Forget
<1>3. /\ IsFiniteSet(ShuttingDown')
      /\ Cardinality(ShuttingDown') = IF i \in ShuttingDown THEN Cardinality(ShuttingDown) - 1
                                                            ELSE Cardinality(ShuttingDown)
  BY <1>1, <1>2, FS_RemoveElement
<1>4. exits \in Nat /\ failures \in Nat /\ failures' = failures
  BY DEF TypeOK, Crash, StopThread, budget
<1>5. CASE Crash(i)
  <2>1. exits' = exits + 1
    BY <1>5 DEF Crash, Exit
  <2> QED
    BY <1>1, <1>3, <1>4, <2>1 DEF SpentOK, Spent
<1>6. CASE StopThread(i)
  <2>1. exits' = exits /\ i \in ShuttingDown
    BY <1>6 DEF StopThread, ShuttingDown, budget
  <2> QED
    BY <1>1, <1>3, <1>4, <2>1 DEF SpentOK, Spent
<1> QED
  BY <1>5, <1>6

LEMMA SpentStep ==
    ASSUME TypeOK, TypeOK', SpentOK, [Next]_vars
    PROVE  SpentOK' /\ Spent' >= Spent
<1> USE DEF procVars, runVars, histVars, budget, dbVars
<1>1. exits \in Nat /\ failures \in Nat /\ Spent \in Nat
  BY DEF TypeOK, SpentOK
<1>2. ASSUME phase' = phase, exits' = exits, failures' = failures \/ failures' = failures + 1
      PROVE  SpentOK' /\ Spent' >= Spent
  <2>1. ShuttingDown' = ShuttingDown
    BY <1>2 DEF ShuttingDown
  <2>2. exits' >= exits /\ failures' >= failures
    BY <1>1, <1>2
  <2> QED
    BY <2>1, <2>2, SpentKept
<1>3. ASSUME NEW i \in Instances, Start(i) \/ Poll(i) \/ ShutdownUnlocks(i)
      PROVE  SpentOK' /\ Spent' >= Spent
  <2>1. ShuttingDown' = ShuttingDown
    BY <1>3 DEF TypeOK, ShuttingDown, Start, Poll, ShutdownUnlocks
  <2>2. exits' >= exits /\ failures' >= failures
    BY <1>1, <1>3 DEF Start, Poll, ShutdownUnlocks, UnlockAll, UnlockAllFails, Failure
  <2> QED
    BY <2>1, <2>2, SpentKept
<1>4. ASSUME NEW i \in Instances, BeginShutdown(i)
      PROVE  SpentOK' /\ Spent' >= Spent
  <2>1. Cardinality(ShuttingDown) \in Nat /\ IsFiniteSet(ShuttingDown)
    BY FS_CardinalityType DEF SpentOK
  <2>2. ShuttingDown' = ShuttingDown \cup {i} /\ i \notin ShuttingDown
    BY <1>4 DEF TypeOK, ShuttingDown, BeginShutdown
  <2>3. IsFiniteSet(ShuttingDown') /\ Cardinality(ShuttingDown') = Cardinality(ShuttingDown) + 1
    BY <2>1, <2>2, FS_AddElement
  <2>4. exits' = exits + 1 /\ failures' = failures
    BY <1>4 DEF BeginShutdown, Exit
  <2> QED
    BY <1>1, <2>1, <2>3, <2>4 DEF SpentOK, Spent
<1>5. ASSUME NEW i \in Instances, Crash(i) \/ StopThread(i)
      PROVE  SpentOK' /\ Spent' >= Spent
  <2>1. SpentOK' /\ Spent' >= Spent + 1
    BY <1>5, SpentForgotten
  <2>2. Spent' \in Nat
    BY <2>1 DEF SpentOK
  <2> QED
    BY <1>1, <2>1, <2>2
<1>6. ASSUME NEW i \in Instances, ProcessorStep(i)
      PROVE  SpentOK' /\ Spent' >= Spent
  BY <1>2, <1>6
     DEF ProcessorStep, BeginIteration, GetScheduledEventsForDelivery, GetScheduledEventsFails,
         ProcessCronEvents, ProcessOneOffEvents, EndIteration, ProcessScheduledEvent, SkipEvent,
         InsertInvocation, SetScheduledEventOp, ProcessingFails, Failure
<1>7. ASSUME NEW i \in Instances, InstanceStep(i)
      PROVE  SpentOK' /\ Spent' >= Spent
  BY <1>2, <1>3, <1>4, <1>5, <1>6, <1>7
     DEF InstanceStep, GetDeprivedCronTriggerStats, InsertCronEventsFor, GeneratorFails, SyncCache,
         Failure
<1>8. CASE UserStep
  BY <1>2, <1>8 DEF UserStep, BeginCommand, CommandDrops, CommandInserts, CommandCommits,
                    CommandFails, CreateScheduledEvent, DeleteScheduledEvent, Failure
<1>9. CASE ClockStep \/ UNCHANGED vars
  BY <1>2, <1>9 DEF ClockStep, Tick, RetryDue, vars
<1> QED
  BY <1>7, <1>8, <1>9 DEF Next

-------------------------------------------------------------------------------
(* The invariant, by kinds of steps *)

\* In the hands of an instance or not: the copies tell.
LEMMA UndisturbedOK ==
    ASSUME TypeOK, TypeOK', SpentOK, SpentOK', Onward,
           NEW e \in Events, EventOK(e), Undisturbed(e)
    PROVE  EventOK(e)'
<1>1. InFlight(e)' \subseteq InFlight(e)
  BY DEF InFlight, Undisturbed
<1>2. InOneHand(e)'
  BY <1>1 DEF EventOK, InOneHand, Onward, Undisturbed
<1>3. TakenUpInTime(e)'
  <2>1. e \in CronEvents => e[2] \in Int
    BY ScheduledAssumption DEF CronEvents, Times
  <2>2. clock \in Int /\ clock' \in Int
    BY DEF TypeOK
  <2> QED
    BY <1>1, <2>1, <2>2 DEF EventOK, TakenUpInTime, Onward, Undisturbed
<1>4. CopiesAgree(e)'
  BY DEF EventOK, CopiesAgree, Onward, Undisturbed
<1>5. TriesSpent(e)'
  <2>1. Spent \in Nat /\ Spent' \in Nat /\ NumRetries \in Nat
    BY ScheduledAssumption DEF SpentOK
  <2>2. rows[e].tries \in Nat
    BY DEF TypeOK, Row
  <2>3. Last(e) \in {0, 1} /\ Last(e)' \in {0, 1}
    BY DEF Last
  <2>4. Last(e)' = Last(e) \/ Last(e)' = 1 \/ Spent' >= Spent + 1
    <3>1. rows'[e].status = rows[e].status
      BY DEF Undisturbed
    <3>2. CASE rows[e].status \in Final \cup {"deleted"} \/ Logged(e)'
      BY <3>1, <3>2 DEF Last
    <3>3. CASE rows[e].status \notin Final \cup {"deleted"} /\ ~Logged(e)'
      BY <3>1, <3>3 DEF Last, Undisturbed
    <3> QED
      BY <3>2, <3>3
  <2>5. Spent' + Last(e)' >= Spent + Last(e)
    BY <2>1, <2>3, <2>4 DEF Onward
  <2> QED
    BY <2>1, <2>2, <2>3, <2>5 DEF EventOK, TriesSpent, Onward, Undisturbed
<1> QED
  BY <1>2, <1>3, <1>4, <1>5 DEF EventOK

LEMMA CopiesKept ==
    ASSUME NEW e \in Events, batch' = batch, work' = work, rows'[e] = rows[e]
    PROVE  Undisturbed(e)
BY DEF Undisturbed, Logged

\* The steps that write no row.
LEMMA CalmSafe ==
    ASSUME IInv, TypeOK', SpentOK', Onward, rows' = rows, overdue' = overdue,
           \A e \in Events : Undisturbed(e)
    PROVE  Safe'
<1>1. \A e \in Events : EventOK(e)'
  BY UndisturbedOK DEF IInv, Safe
<1>2. IsUnique(rows)'
  BY DEF IInv, Safe, IsUnique
<1>3. OneEventUnlessOverdue'
  BY DEF IInv, Safe, OneEventUnlessOverdue, Exists
<1> QED
  BY <1>1, <1>2, <1>3 DEF Safe

\* An event that is not in the hands of an instance is copied nowhere.
LEMMA NotHeld ==
    ASSUME NEW e \in Events, InFlight(e) = {}
    PROVE  /\ \A i \in Instances : /\ \A c \in batch[i] : c.id # e
                                   /\ \A w \in work[i] : w.id # e
           /\ ~Logged(e)
BY DEF InFlight, Logged

LEMMA InsertSafe ==
    ASSUME IInv, TypeOK', SpentOK', Onward, NEW slots \in SUBSET (Triggers \X Times),
           InsertCronEvents(slots), batch' = batch, work' = work, clock' = clock, doubted' = doubted
    PROVE  Safe'
<1>1. ASSUME NEW e \in Inserted(slots)
      PROVE  /\ e \in CronEvents /\ e \in Events /\ rows'[e] = NewRow(e[2])
             /\ rows[e].status = "none"
             /\ e[2] <= clock => <<e[1], e[2]>> \in overdue'
             /\ \A g \in Gens : rows[<<e[1], e[2], g>>].status # "scheduled"
             /\ \A f \in Inserted(slots) : SameSlot(e, f) => e = f
  <2>1. /\ e \in CronEvents /\ rows[e].status = "none"
        /\ \E slot \in slots : /\ e = CHOOSE f \in FreshEvent(slot) : TRUE
                               /\ e[1] = slot[1] /\ e[2] = slot[2] /\ ~Conflicts(slot)
    BY <1>1, FreshEventType
  <2>2. e \in Events /\ rows'[e] = NewRow(e[2])
    BY <1>1, <2>1 DEF Events, InsertCronEvents
  <2>3. e[2] <= clock => <<e[1], e[2]>> \in overdue'
    BY <1>1 DEF InsertCronEvents
  <2>4. \A g \in Gens : rows[<<e[1], e[2], g>>].status # "scheduled"
    BY <2>1 DEF Conflicts
  <2>5. ASSUME NEW f \in Inserted(slots), SameSlot(e, f)
        PROVE  e = f
    <3>1. PICK s \in slots : e = (CHOOSE x \in FreshEvent(s) : TRUE) /\ e[1] = s[1] /\ e[2] = s[2]
      BY <2>1
    <3>2. PICK t \in slots : f = (CHOOSE x \in FreshEvent(t) : TRUE) /\ f[1] = t[1] /\ f[2] = t[2]
      BY <2>5, FreshEventType
    <3>3. s = t
      BY <2>5, <3>1, <3>2 DEF SameSlot
    <3> QED
      BY <3>1, <3>2, <3>3
  <2> QED
    BY <2>1, <2>2, <2>3, <2>4, <2>5
<1>2. ASSUME NEW e \in Events, e \notin Inserted(slots)
      PROVE  rows'[e] = rows[e]
  BY <1>2 DEF InsertCronEvents
<1>3. ASSUME NEW e \in Events
      PROVE  EventOK(e)'
  <2>1. CASE e \notin Inserted(slots)
    BY <1>2, <2>1, CopiesKept, UndisturbedOK DEF IInv, Safe
  <2>2. CASE e \in Inserted(slots)
    <3>1. /\ rows'[e] = NewRow(e[2]) /\ rows[e].status = "none"
      BY <1>1, <2>2
    <3>2. InFlight(e)' = InFlight(e) /\ Logged(e)' = Logged(e)
      BY DEF InFlight, Logged
    <3>3. EventOK(e)
      BY DEF IInv, Safe
    <3>4. e \notin doubted => InFlight(e) = {}
      BY <3>1, <3>3 DEF EventOK, InOneHand
    <3>5. InOneHand(e)' /\ CopiesAgree(e)'
      BY <3>2, <3>4, NotHeld DEF InOneHand, CopiesAgree
    <3>6. TakenUpInTime(e)'
      BY <3>1, <3>2, <3>3 DEF EventOK, TakenUpInTime, NewRow, Final
    <3>7. TriesSpent(e)'
      <4>1. Spent' \in Nat /\ NumRetries \in Nat /\ Last(e)' \in Nat /\ rows'[e].tries = 0
        BY <3>1, ScheduledAssumption DEF SpentOK, Last, NewRow
      <4> QED
        BY <4>1 DEF TriesSpent
    <3> QED
      BY <3>5, <3>6, <3>7 DEF EventOK
  <2> QED
    BY <2>1, <2>2
<1>4. ASSUME NEW e \in CronEvents, NEW f \in CronEvents, SameSlot(e, f), e \in Inserted(slots)
      PROVE  /\ rows[f].status # "scheduled"
             /\ Exists(f) => <<e[1], e[2]>> \in overdue'
  <2>1. f \in Events /\ f = <<e[1], e[2], f[3]>> /\ f[3] \in Gens /\ f[2] = e[2] /\ e[2] \in Int
    BY <1>4, ScheduledAssumption DEF SameSlot, CronEvents, Events, Times
  <2>2. rows[f].status # "scheduled"
    BY <1>1, <1>4, <2>1
  <2>3. ASSUME Exists(f) PROVE rows[f].status \in {"locked"} \cup Final
    BY <2>1, <2>2, <2>3 DEF IInv, TypeOK, Row, Statuses, Exists, Final
  <2>4. Exists(f) => f[2] <= clock
    BY <2>1, <2>3 DEF IInv, Safe, EventOK, TakenUpInTime
  <2> QED
    BY <1>1, <1>4, <2>1, <2>2, <2>4
<1>5. CronEvents \subseteq Events
  BY DEF Events
<1>6. IsUnique(rows')
  <2> SUFFICES ASSUME NEW e \in CronEvents, NEW f \in CronEvents, SameSlot(e, f),
                      rows'[e].status = "scheduled", rows'[f].status = "scheduled"
               PROVE  e = f
    BY DEF IsUnique
  <2>1. SameSlot(f, e)
    BY DEF SameSlot
  <2>2. CASE e \in Inserted(slots) /\ f \in Inserted(slots)
    BY <1>1, <2>2
  <2>3. CASE e \in Inserted(slots) /\ f \notin Inserted(slots)
    BY <1>2, <1>4, <1>5, <2>3
  <2>4. CASE e \notin Inserted(slots) /\ f \in Inserted(slots)
    BY <1>2, <1>4, <1>5, <2>1, <2>4
  <2>5. CASE e \notin Inserted(slots) /\ f \notin Inserted(slots)
    BY <1>2, <1>5, <2>5 DEF IInv, Safe, IsUnique
  <2> QED
    BY <2>2, <2>3, <2>4, <2>5
<1>7. OneEventUnlessOverdue'
  <2> SUFFICES ASSUME NEW e \in CronEvents, NEW f \in CronEvents, SameSlot(e, f),
                      <<e[1], e[2]>> \notin overdue', Exists(e)', Exists(f)'
               PROVE  e = f
    BY DEF OneEventUnlessOverdue
  <2>1. SameSlot(f, e) /\ <<f[1], f[2]>> = <<e[1], e[2]>>
    BY DEF SameSlot
  <2>2. CASE e \in Inserted(slots) /\ f \in Inserted(slots)
    BY <1>1, <2>2
  <2>3. CASE e \in Inserted(slots) /\ f \notin Inserted(slots)
    BY <1>2, <1>4, <1>5, <2>3 DEF Exists
  <2>4. CASE e \notin Inserted(slots) /\ f \in Inserted(slots)
    BY <1>2, <1>4, <1>5, <2>1, <2>4 DEF Exists
  <2>5. CASE e \notin Inserted(slots) /\ f \notin Inserted(slots)
    <3>1. overdue \subseteq overdue'
      BY DEF InsertCronEvents
    <3> QED
      BY <1>2, <1>5, <2>5, <3>1 DEF IInv, Safe, OneEventUnlessOverdue, Exists
  <2> QED
    BY <2>2, <2>3, <2>4, <2>5
<1> QED
  BY <1>3, <1>6, <1>7 DEF Safe, IsUnique

\* The steps that write rows and move no copy.
LEMMA DeleteSafe ==
    ASSUME IInv, TypeOK', SpentOK', Onward,
           \A e \in Events : \/ rows'[e] = rows[e]
                             \/ Exists(e) /\ rows'[e] = [rows[e] EXCEPT !.status = "deleted"],
           batch' = batch, work' = work, overdue' = overdue
    PROVE  Safe'
<1>1. ASSUME NEW e \in Events, rows'[e] # rows[e]
      PROVE  /\ rows'[e].status = "deleted" /\ rows'[e].tries = rows[e].tries
             /\ rows'[e].time = rows[e].time /\ rows'[e].retry = rows[e].retry
  BY <1>1 DEF IInv, TypeOK, Row
<1>2. ASSUME NEW e \in Events
      PROVE  EventOK(e)'
  <2>1. CASE rows'[e] = rows[e]
    BY <2>1, CopiesKept, UndisturbedOK DEF IInv, Safe
  <2>2. CASE rows'[e] # rows[e]
    <3>1. EventOK(e) /\ InFlight(e)' = InFlight(e)
      BY DEF IInv, Safe, InFlight
    <3>2. InOneHand(e)'
      BY <1>1, <2>2, <3>1 DEF EventOK, InOneHand, Onward
    <3>3. TakenUpInTime(e)'
      <4>1. e \in CronEvents => e[2] \in Int
        BY ScheduledAssumption DEF CronEvents, Times
      <4>2. clock \in Int /\ clock' \in Int
        BY DEF IInv, TypeOK
      <4> QED
        BY <1>1, <2>2, <3>1, <4>1, <4>2 DEF EventOK, TakenUpInTime, Onward, Final
    <3>4. CopiesAgree(e)'
      BY <1>1, <2>2, <3>1 DEF EventOK, CopiesAgree, Onward
    <3>5. TriesSpent(e)'
      <4>1. Last(e)' = 1 /\ Last(e) \in {0, 1}
        BY <1>1, <2>2 DEF Last
      <4>2. Spent \in Nat /\ Spent' \in Nat /\ NumRetries \in Nat /\ rows[e].tries \in Nat
        BY ScheduledAssumption DEF IInv, SpentOK, TypeOK, Row
      <4> QED
        BY <1>1, <2>2, <3>1, <4>1, <4>2 DEF EventOK, TriesSpent, Onward
    <3> QED
      BY <3>2, <3>3, <3>4, <3>5 DEF EventOK
  <2> QED
    BY <2>1, <2>2
<1>3. \A e \in Events : rows'[e].status = "deleted" \/ rows'[e].status = rows[e].status
  BY <1>1
<1>4. CronEvents \subseteq Events
  BY DEF Events
<1>5. IsUnique(rows)'
  BY <1>3, <1>4 DEF IInv, Safe, IsUnique
<1>6. OneEventUnlessOverdue'
  BY <1>3, <1>4 DEF IInv, Safe, OneEventUnlessOverdue, Exists
<1> QED
  BY <1>2, <1>5, <1>6 DEF Safe

LEMMA CreateSafe ==
    ASSUME IInv, TypeOK', SpentOK', Onward, NEW e \in OneOffs, NEW t \in Times,
           rows[e].status = "none", rows' = [rows EXCEPT ![e] = NewRow(t)],
           batch' = batch, work' = work, overdue' = overdue, doubted' = doubted
    PROVE  Safe'
<1>1. e \in Events /\ e \notin CronEvents
  BY ScheduledAssumption DEF Events
<1>2. rows'[e] = NewRow(t) /\ \A f \in Events : f # e => rows'[f] = rows[f]
  BY <1>1 DEF IInv, TypeOK
<1>3. \A f \in Events : f # e => EventOK(f)'
  BY <1>2, CopiesKept, UndisturbedOK DEF IInv, Safe
<1>4. EventOK(e)'
  <2>1. EventOK(e)
    BY <1>1 DEF IInv, Safe
  <2>2. InFlight(e)' = InFlight(e) /\ (e \notin doubted => InFlight(e) = {})
    BY <2>1 DEF EventOK, InOneHand, InFlight
  <2>3. InOneHand(e)' /\ CopiesAgree(e)'
    BY <1>1, <2>2, NotHeld DEF InOneHand, CopiesAgree
  <2>4. TakenUpInTime(e)'
    BY <1>1 DEF TakenUpInTime
  <2>5. TriesSpent(e)'
    <3>1. Spent' \in Nat /\ NumRetries \in Nat /\ Last(e)' \in Nat /\ rows'[e].tries = 0
      BY <1>2, ScheduledAssumption DEF SpentOK, Last, NewRow
    <3> QED
      BY <3>1 DEF TriesSpent
  <2> QED
    BY <2>3, <2>4, <2>5 DEF EventOK
<1>5. \A f \in CronEvents : rows'[f] = rows[f]
  BY <1>1, <1>2 DEF Events
<1>6. IsUnique(rows)' /\ OneEventUnlessOverdue'
  BY <1>5 DEF IInv, Safe, IsUnique, OneEventUnlessOverdue, Exists
<1> QED
  BY <1>3, <1>4, <1>6 DEF Safe

LEMMA RetryDueSafe ==
    ASSUME IInv, TypeOK', SpentOK', Onward, NEW e \in Events, RetryDue(e)
    PROVE  Safe'
<1> USE DEF procVars, runVars, histVars, budget, dbVars
<1>1. /\ rows[e].retry = "future" /\ rows' = [rows EXCEPT ![e].retry = "due"]
      /\ batch' = batch /\ work' = work /\ overdue' = overdue /\ doubted' = doubted /\ clock' = clock
  BY DEF RetryDue
<1>2. /\ rows'[e].status = rows[e].status /\ rows'[e].tries = rows[e].tries
      /\ rows'[e].time = rows[e].time
      /\ \A f \in Events : f # e => rows'[f] = rows[f]
  BY <1>1 DEF IInv, TypeOK, Row
<1>3. \A f \in Events : f # e => EventOK(f)'
  BY <1>1, <1>2, CopiesKept, UndisturbedOK DEF IInv, Safe
<1>4. EventOK(e)'
  <2>1. EventOK(e) /\ InFlight(e)' = InFlight(e)
    BY <1>1 DEF IInv, Safe, InFlight
  <2>2. InOneHand(e)' /\ TakenUpInTime(e)' /\ CopiesAgree(e)'
    BY <1>1, <1>2, <2>1 DEF EventOK, InOneHand, TakenUpInTime, CopiesAgree
  <2>3. TriesSpent(e)'
    <3>1. Last(e)' = Last(e)
      BY <1>1, <1>2 DEF Last, Logged
    <3>2. Spent \in Nat /\ Spent' \in Nat /\ Last(e) \in {0, 1} /\ rows[e].tries \in Nat
          /\ NumRetries \in Nat
      BY ScheduledAssumption DEF IInv, SpentOK, Last, TypeOK, Row
    <3> QED
      BY <1>1, <1>2, <2>1, <3>1, <3>2 DEF EventOK, TriesSpent, Onward
  <2> QED
    BY <2>2, <2>3 DEF EventOK
<1>5. CronEvents \subseteq Events /\ \A f \in Events : rows'[f].status = rows[f].status
  BY <1>2 DEF Events
<1>6. IsUnique(rows)' /\ OneEventUnlessOverdue'
  BY <1>1, <1>5 DEF IInv, Safe, IsUnique, OneEventUnlessOverdue, Exists
<1> QED
  BY <1>3, <1>4, <1>6 DEF Safe

\* UnlockAll doubts the events that some instance has.
LEMMA UnlockSafe ==
    ASSUME IInv, TypeOK', SpentOK', Onward, UnlockAll, batch' = batch, work' = work,
           overdue' = overdue, clock' = clock
    PROVE  Safe'
<1>1. ASSUME NEW e \in Events
      PROVE  /\ \/ rows[e].status # "locked" /\ rows'[e] = rows[e]
                \/ rows[e].status = "locked" /\ rows'[e] = [rows[e] EXCEPT !.status = "scheduled"]
             /\ rows'[e].tries = rows[e].tries /\ rows'[e].time = rows[e].time
             /\ rows'[e].retry = rows[e].retry
  <2>1. rows[e] \in Row /\ rows'[e] = Unlocked(e)
    BY DEF UnlockAll, IInv, TypeOK
  <2> QED
    BY <2>1 DEF Unlocked, Row
<1>2. ASSUME NEW e \in Events
      PROVE  EventOK(e)'
  <2>1. CASE rows[e].status # "locked"
    BY <1>1, <2>1, CopiesKept, UndisturbedOK DEF IInv, Safe
  <2>2. CASE rows[e].status = "locked"
    <3>1. EventOK(e) /\ InFlight(e)' = InFlight(e)
      BY DEF IInv, Safe, InFlight
    <3>2. rows'[e].status = "scheduled"
      BY <1>1, <2>2 DEF IInv, TypeOK, Row
    <3>3. e \notin doubted' => InFlight(e) = {} /\ e \notin doubted
      BY <2>2 DEF UnlockAll
    <3>4. InOneHand(e)' /\ CopiesAgree(e)'
      BY <3>1, <3>3, NotHeld DEF InOneHand, CopiesAgree
    <3>5. TakenUpInTime(e)'
      BY <1>1, <2>2, <3>1, <3>2 DEF EventOK, TakenUpInTime, Final
    <3>6. TriesSpent(e)'
      <4>1. e \notin doubted' => Last(e) = 0
        BY <2>2, <3>3, NotHeld DEF Last, Final
      <4>2. Spent \in Nat /\ Spent' \in Nat /\ Last(e)' \in {0, 1} /\ rows[e].tries \in Nat
            /\ NumRetries \in Nat
        BY ScheduledAssumption DEF IInv, SpentOK, Last, TypeOK, Row
      <4> QED
        <5> SUFFICES ASSUME e \notin doubted' \cup Throttled
                     PROVE  rows'[e].tries <= NumRetries + Spent' + Last(e)'
          BY DEF TriesSpent
        <5>1. rows[e].tries <= NumRetries + Spent + Last(e)
          BY <3>1, <3>3 DEF EventOK, TriesSpent
        <5>2. Last(e) = 0 /\ rows'[e].tries = rows[e].tries
          BY <1>1, <4>1
        <5>3. Spent' >= Spent
          BY DEF Onward
        <5> QED
          BY <4>2, <5>1, <5>2, <5>3
    <3> QED
      BY <3>4, <3>5, <3>6 DEF EventOK
  <2> QED
    BY <2>1, <2>2
<1>3. IsUnique(rows)'
  BY DEF UnlockAll, IsUnique
<1>4. \A e \in Events : Exists(e)' => Exists(e)
  BY <1>1 DEF Exists
<1>5. OneEventUnlessOverdue'
  BY <1>4 DEF IInv, Safe, OneEventUnlessOverdue, Events
<1> QED
  BY <1>2, <1>3, <1>5 DEF Safe

\* The steps of the processor.
LEMMA FetchSafe ==
    ASSUME IInv, TypeOK', SpentOK', Onward, NEW i \in Instances, GetScheduledEventsForDelivery(i)
    PROVE  Safe'
<1> USE DEF procVars, runVars, histVars, budget, dbVars
<1> DEFINE due == {e \in Events : Fetchable(rows[e])}
<1>1. /\ rows' = [e \in Events |-> IF e \in due THEN [rows[e] EXCEPT !.status = "locked"] ELSE rows[e]]
      /\ batch' = [batch EXCEPT ![i] = {[id |-> e, tries |-> rows[e].tries] : e \in due}]
      /\ work' = work /\ clock' = clock /\ doubted' = doubted /\ overdue' = overdue
  BY DEF GetScheduledEventsForDelivery
<1>2. batch[i] = {} /\ work[i] = {}
  BY DEF GetScheduledEventsForDelivery, IInv, OneCopy
<1>3. \A j \in Instances : j # i => batch'[j] = batch[j]
  BY <1>1 DEF IInv, TypeOK
<1>4. batch'[i] = {[id |-> e, tries |-> rows[e].tries] : e \in due}
  BY <1>1 DEF IInv, TypeOK
<1>5. ASSUME NEW e \in Events, e \notin due
      PROVE  EventOK(e)'
  <2>1. rows'[e] = rows[e] /\ \A c \in batch'[i] : c.id # e
    BY <1>1, <1>4, <1>5
  <2>2. Undisturbed(e)
    BY <1>1, <1>3, <2>1 DEF Undisturbed, Logged
  <2> QED
    BY <2>2, UndisturbedOK DEF IInv, Safe
<1>6. ASSUME NEW e \in due
      PROVE  /\ rows[e].status = "scheduled" /\ rows'[e].status = "locked"
             /\ rows'[e].tries = rows[e].tries /\ rows'[e].time = rows[e].time
             /\ rows'[e].retry = rows[e].retry
             /\ rows[e].retry = "due" \/ rows[e].time <= clock
             /\ rows'[e] \in Row
  BY <1>1 DEF Fetchable, IInv, TypeOK, Row, Statuses
<1>7. ASSUME NEW e \in due
      PROVE  EventOK(e)'
  <2>1. EventOK(e)
    BY DEF IInv, Safe
  <2>2. InOneHand(e)' /\ CopiesAgree(e)'
    <3> SUFFICES ASSUME e \notin doubted
                 PROVE  (InOneHand(e) /\ CopiesAgree(e))'
      BY <1>1 DEF InOneHand, CopiesAgree
    <3>1. InFlight(e) = {}
      BY <1>6, <2>1 DEF EventOK, InOneHand
    <3>2. \A j \in Instances : (\A c \in batch[j] : c.id # e) /\ (\A w \in work[j] : w.id # e)
      BY <3>1, NotHeld
    <3>3. InFlight(e)' \subseteq {i}
      BY <1>1, <1>3, <3>2 DEF InFlight
    <3>4. InOneHand(e)'
      BY <1>6, <3>3 DEF InOneHand
    <3>5. CopiesAgree(e)'
      BY <1>1, <1>3, <1>4, <1>6, <3>2 DEF CopiesAgree
    <3> QED
      BY <3>4, <3>5
  <2>3. TakenUpInTime(e)'
    BY <1>1, <1>6, <2>1 DEF EventOK, TakenUpInTime
  <2>4. TriesSpent(e)'
    <3>1. Last(e)' = Last(e)
      BY <1>1, <1>6 DEF Last, Logged, Final
    <3>2. Spent \in Nat /\ Spent' \in Nat /\ Last(e) \in {0, 1} /\ rows[e].tries \in Nat
          /\ NumRetries \in Nat
      BY ScheduledAssumption DEF IInv, SpentOK, Last, TypeOK, Row
    <3> QED
      BY <1>1, <1>6, <2>1, <3>1, <3>2 DEF EventOK, TriesSpent, Onward
  <2> QED
    BY <2>2, <2>3, <2>4 DEF EventOK
<1>8. \A e \in Events : rows'[e].status = rows[e].status \/
                        (rows'[e].status = "locked" /\ rows[e].status = "scheduled")
  BY <1>1, <1>6
<1> HIDE DEF due
<1>9. IsUnique(rows)' /\ OneEventUnlessOverdue'
  BY <1>1, <1>8 DEF IInv, Safe, IsUnique, OneEventUnlessOverdue, Exists, Events
<1> QED
  BY <1>5, <1>7, <1>9 DEF Safe

LEMMA TakeUpSafe ==
    ASSUME IInv, TypeOK', SpentOK', Onward, NEW i \in Instances, NEW c \in batch[i],
           ProcessScheduledEvent(i, c)
    PROVE  Safe'
<1> USE DEF procVars, runVars, histVars, budget, dbVars
<1>1. PICK outcome \in PossibleOutcomes(c) :
        work' = [work EXCEPT ![i] = {[id |-> c.id, tries |-> c.tries,
                                      outcome |-> outcome, logged |-> FALSE]}]
  BY DEF ProcessScheduledEvent
<1>2. /\ batch' = [batch EXCEPT ![i] = @ \ {c}] /\ work[i] = {}
      /\ rows' = rows /\ clock' = clock /\ doubted' = doubted /\ overdue' = overdue
  BY DEF ProcessScheduledEvent, TakesUp
<1>3. \A j \in Instances : batch'[j] \subseteq batch[j] /\ (j # i => work'[j] = work[j])
  BY <1>1, <1>2 DEF IInv, TypeOK
<1>4. \A w \in work'[i] : /\ w.id = c.id /\ w.tries = c.tries /\ w.logged = FALSE
                          /\ w.outcome = outcome
  BY <1>1 DEF IInv, TypeOK
<1>5. c \in Copies /\ c.id \in Events /\ c.tries \in Nat
  BY DEF IInv, TypeOK, Copies
<1>6. \A e \in Events : Logged(e) => Logged(e)'
  BY <1>2, <1>3 DEF Logged
<1>7. ASSUME NEW e \in Events, e # c.id
      PROVE  EventOK(e)'
  <2>1. Undisturbed(e)
    BY <1>2, <1>3, <1>4, <1>6, <1>7 DEF Undisturbed
  <2> QED
    BY <2>1, UndisturbedOK DEF IInv, Safe
<1>8. EventOK(c.id)'
  <2>1. EventOK(c.id) /\ i \in InFlight(c.id)
    BY <1>5 DEF IInv, Safe, InFlight
  <2>2. InFlight(c.id)' \subseteq InFlight(c.id)
    BY <1>3, <2>1 DEF InFlight
  <2>3. InOneHand(c.id)' /\ TakenUpInTime(c.id)'
    BY <1>2, <2>1, <2>2 DEF EventOK, InOneHand, TakenUpInTime
  <2>4. CopiesAgree(c.id)'
    <3>1. outcome = "retryAfter" => c.id \in Throttled
      BY DEF PossibleOutcomes
    <3>2. c.id \notin doubted => rows[c.id].tries = c.tries
      BY <2>1 DEF EventOK, CopiesAgree
    <3>3. \A w \in work'[i] : /\ c.id \notin doubted => rows[c.id].tries = w.tries + 0
                              /\ ~w.logged /\ (w.outcome = "retryAfter" => c.id \in Throttled)
      BY <1>4, <1>5, <3>1, <3>2
    <3> QED
      BY <1>2, <1>3, <2>1, <3>3 DEF EventOK, CopiesAgree
  <2>5. TriesSpent(c.id)'
    <3>1. Last(c.id)' \in {0, 1} /\ Last(c.id) \in {0, 1} /\ Last(c.id)' >= Last(c.id)
      BY <1>2, <1>5, <1>6 DEF Last
    <3>2. Spent \in Nat /\ Spent' \in Nat /\ rows[c.id].tries \in Nat /\ NumRetries \in Nat
      BY <1>5, ScheduledAssumption DEF IInv, SpentOK, TypeOK, Row
    <3> QED
      BY <1>2, <2>1, <3>1, <3>2 DEF EventOK, TriesSpent, Onward
  <2> QED
    BY <2>3, <2>4, <2>5 DEF EventOK
<1>9. IsUnique(rows)' /\ OneEventUnlessOverdue'
  BY <1>2 DEF IInv, Safe, IsUnique, OneEventUnlessOverdue, Exists
<1> QED
  BY <1>7, <1>8, <1>9 DEF Safe

\* What is known of an event that is being processed.
LEMMA AtWork ==
    ASSUME IInv, NEW i \in Instances, NEW w \in work[i]
    PROVE  /\ w \in Works /\ w.id \in Events /\ w.tries \in Nat /\ w.logged \in BOOLEAN
           /\ rows[w.id] \in Row /\ rows[w.id].tries \in Nat
           /\ EventOK(w.id) /\ i \in InFlight(w.id)
           /\ work[i] = {w} /\ \A c \in batch[i] : c.id # w.id
           /\ w.id \notin doubted =>
                /\ InFlight(w.id) = {i} /\ rows[w.id].status \in {"locked", "deleted"}
                /\ rows[w.id].tries = w.tries + (IF w.logged THEN 1 ELSE 0)
                /\ w.outcome = "retryAfter" => w.id \in Throttled
                /\ Logged(w.id) <=> w.logged
<1>1. w \in Works /\ w.id \in Events /\ w.tries \in Nat /\ w.logged \in BOOLEAN
  BY DEF IInv, TypeOK, Works
<1>2. rows[w.id] \in Row /\ rows[w.id].tries \in Nat
  BY <1>1 DEF IInv, TypeOK, Row
<1>3. EventOK(w.id) /\ i \in InFlight(w.id)
  BY <1>1 DEF IInv, Safe, InFlight
<1>4. work[i] = {w} /\ \A c \in batch[i] : c.id # w.id
  BY DEF IInv, OneCopy
<1>5. ASSUME w.id \notin doubted
      PROVE  /\ InFlight(w.id) = {i} /\ rows[w.id].status \in {"locked", "deleted"}
             /\ rows[w.id].tries = w.tries + (IF w.logged THEN 1 ELSE 0)
             /\ w.outcome = "retryAfter" => w.id \in Throttled
             /\ Logged(w.id) <=> w.logged
  <2>1. InFlight(w.id) = {i} /\ rows[w.id].status \in {"locked", "deleted"}
    BY <1>3, <1>5 DEF EventOK, InOneHand
  <2>2. /\ rows[w.id].tries = w.tries + (IF w.logged THEN 1 ELSE 0)
        /\ w.outcome = "retryAfter" => w.id \in Throttled
    BY <1>3, <1>5 DEF EventOK, CopiesAgree
  <2>3. Logged(w.id) => w.logged
    BY <1>4, <2>1 DEF Logged, InFlight
  <2>4. w.logged => Logged(w.id)
    BY DEF Logged
  <2> QED
    BY <2>1, <2>2, <2>3, <2>4
<1> QED
  BY <1>1, <1>2, <1>3, <1>4, <1>5

LEMMA LogSafe ==
    ASSUME IInv, TypeOK', SpentOK', Onward, NEW i \in Instances, NEW w \in work[i],
           InsertInvocation(i, w)
    PROVE  Safe'
<1> USE DEF procVars, runVars, histVars, budget, dbVars
<1> DEFINE v == [w EXCEPT !.logged = TRUE]
<1>1. /\ ~w.logged /\ Exists(w.id)
      /\ rows' = [rows EXCEPT ![w.id].tries = @ + 1] /\ work' = [work EXCEPT ![i] = {v}]
      /\ batch' = batch /\ clock' = clock /\ doubted' = doubted /\ overdue' = overdue
  BY DEF InsertInvocation
<1>2. /\ work'[i] = {v} /\ \A j \in Instances : j # i => work'[j] = work[j]
      /\ v.id = w.id /\ v.tries = w.tries /\ v.logged /\ v.outcome = w.outcome
  BY <1>1, AtWork DEF IInv, TypeOK, Works
<1>3. /\ rows'[w.id].status = rows[w.id].status /\ rows'[w.id].tries = rows[w.id].tries + 1
      /\ rows'[w.id].time = rows[w.id].time /\ rows'[w.id].retry = rows[w.id].retry
      /\ \A e \in Events : e # w.id => rows'[e] = rows[e]
  BY <1>1, AtWork DEF IInv, TypeOK, Row
<1> HIDE DEF v
<1>4. \A e \in Events : Logged(e) => Logged(e)'
  BY <1>2, AtWork DEF Logged
<1>5. ASSUME NEW e \in Events, e # w.id
      PROVE  EventOK(e)'
  <2>1. Undisturbed(e)
    BY <1>1, <1>2, <1>3, <1>4, <1>5 DEF Undisturbed
  <2> QED
    BY <2>1, UndisturbedOK DEF IInv, Safe
<1>6. EventOK(w.id)'
  <2>1. InFlight(w.id)' = InFlight(w.id)
    BY <1>1, <1>2, AtWork DEF InFlight
  <2>2. EventOK(w.id)
    BY AtWork
  <2>3. InOneHand(w.id)' /\ TakenUpInTime(w.id)'
    BY <1>1, <1>3, <2>1, <2>2 DEF EventOK, InOneHand, TakenUpInTime
  <2>4. CopiesAgree(w.id)'
    <3> SUFFICES ASSUME w.id \notin doubted
                 PROVE  CopiesAgree(w.id)'
      BY <1>1 DEF CopiesAgree
    <3>1. /\ \A j \in Instances : \A c \in batch[j] : c.id # w.id
          /\ \A j \in Instances : j # i => \A u \in work[j] : u.id # w.id
      BY AtWork DEF InFlight
    <3>2. rows'[w.id].tries = v.tries + 1 /\ (v.outcome = "retryAfter" => w.id \in Throttled)
      BY <1>1, <1>2, <1>3, AtWork
    <3> QED
      BY <1>1, <1>2, <3>1, <3>2 DEF CopiesAgree
  <2>5. TriesSpent(w.id)'
    <3> SUFFICES ASSUME w.id \notin doubted \cup Throttled
                 PROVE  rows'[w.id].tries <= NumRetries + Spent' + Last(w.id)'
      BY <1>1 DEF TriesSpent
    <3>1. rows[w.id].status = "locked" /\ ~Logged(w.id)
      BY <1>1, AtWork DEF Exists
    <3>2. Last(w.id) = 0
      BY <3>1 DEF Last, Final
    <3>3. rows[w.id].tries <= NumRetries + Spent + Last(w.id)
      BY <2>2 DEF EventOK, TriesSpent
    <3>4. Logged(w.id)'
      BY <1>2 DEF Logged
    <3>5. Last(w.id)' = 1
      BY <3>4 DEF Last
    <3>6. Spent \in Nat /\ Spent' \in Nat /\ rows[w.id].tries \in Nat /\ NumRetries \in Nat
      BY AtWork, ScheduledAssumption DEF IInv, SpentOK
    <3> QED
      BY <1>3, <3>2, <3>3, <3>5, <3>6 DEF Onward
  <2> QED
    BY <2>3, <2>4, <2>5 DEF EventOK
<1>7. \A e \in Events : rows'[e].status = rows[e].status
  BY <1>3
<1>8. IsUnique(rows)' /\ OneEventUnlessOverdue'
  BY <1>1, <1>7 DEF IInv, Safe, IsUnique, OneEventUnlessOverdue, Exists, Events
<1> QED
  BY <1>5, <1>6, <1>8 DEF Safe

\* What setScheduledEventOpTx makes of the row.
LEMMA SetOpOf ==
    ASSUME NEW row \in Row, NEW w
    PROVE  /\ SetOp(row, w).tries = row.tries /\ SetOp(row, w).time = row.time
           /\ \/ SetOp(row, w).status \in Final /\ SetOp(row, w).retry = row.retry
              \/ /\ SetOp(row, w).status = "scheduled" /\ SetOp(row, w).retry = "future"
                 /\ w.outcome \notin {"accepted", "dead", "untransformable"}
                 /\ w.outcome = "failed" => ~TriesExhausted(w.tries)
<1> DEFINE Fails == \/ w.outcome = "untransformable"
                    \/ w.outcome = "failed" /\ TriesExhausted(w.tries)
<1>1. CASE w.outcome = "accepted"
  BY <1>1 DEF SetOp, Row, Final
<1>2. CASE w.outcome = "dead"
  BY <1>2 DEF SetOp, Row, Final
<1>3. CASE w.outcome \notin {"accepted", "dead"} /\ Fails
  BY <1>3 DEF SetOp, Row, Final
<1>4. CASE w.outcome \notin {"accepted", "dead"} /\ ~Fails
  BY <1>4 DEF SetOp, Row, Final
<1> QED
  BY <1>1, <1>2, <1>3, <1>4

\* An event that was not doubted is rescheduled while it has tries left.
LEMMA Rescheduled ==
    ASSUME IInv, NEW i \in Instances, NEW w \in work[i], WasCalled(w) => w.logged,
           w.id \notin doubted \cup Throttled, SetOp(rows[w.id], w).status = "scheduled"
    PROVE  rows[w.id].tries <= NumRetries
<1>1. w \in Works /\ rows[w.id] \in Row /\ w.tries \in Nat /\ NumRetries \in Nat
  BY AtWork, ScheduledAssumption
<1>2. /\ w.outcome \notin {"accepted", "dead", "untransformable"}
      /\ w.outcome = "failed" => ~TriesExhausted(w.tries)
  BY <1>1, SetOpOf DEF Final
<1>3. w.outcome = "failed"
  BY <1>1, <1>2, AtWork DEF Works, Outcomes
<1>4. w.tries < NumRetries /\ w.logged
  BY <1>1, <1>2, <1>3 DEF TriesExhausted, WasCalled
<1>5. rows[w.id].tries = w.tries + 1
  BY <1>4, AtWork
<1> QED
  BY <1>1, <1>4, <1>5

LEMMA DoneSafe ==
    ASSUME IInv, TypeOK', SpentOK', Onward, NEW i \in Instances, NEW w \in work[i],
           SetScheduledEventOp(i, w) \/ ProcessingFails(i, w),
           failures' = failures + 1 => Spent' >= Spent + 1
    PROVE  Safe'
<1> USE DEF procVars, runVars, histVars, budget, dbVars
<1>1. /\ work' = [work EXCEPT ![i] = {}] /\ batch' = batch
      /\ clock' = clock /\ doubted' = doubted /\ overdue' = overdue
      /\ \A e \in Events : e # w.id => rows'[e] = rows[e]
      /\ \/ rows'[w.id] = rows[w.id]
         \/ /\ rows'[w.id] = SetOp(rows[w.id], w)
            /\ rows[w.id].status \notin {"none", "deleted"}
  <2>1. rows' = rows \/ rows' = RowsAfter(w)
    BY DEF SetScheduledEventOp, ProcessingFails
  <2>2. /\ \A e \in Events : e # w.id => RowsAfter(w)[e] = rows[e]
        /\ RowsAfter(w)[w.id] = IF Exists(w.id) THEN SetOp(rows[w.id], w) ELSE rows[w.id]
    BY AtWork DEF RowsAfter, IInv, TypeOK
  <2>3. /\ work' = [work EXCEPT ![i] = {}] /\ batch' = batch
        /\ clock' = clock /\ doubted' = doubted /\ overdue' = overdue
    BY DEF SetScheduledEventOp, ProcessingFails
  <2> QED
    BY <2>1, <2>2, <2>3 DEF Exists
<1>2. work'[i] = {} /\ \A j \in Instances : j # i => work'[j] = work[j]
  BY <1>1 DEF IInv, TypeOK
<1>3. rows'[w.id].tries = rows[w.id].tries /\ rows'[w.id].time = rows[w.id].time
  BY <1>1, AtWork, SetOpOf
<1>4. ASSUME NEW e \in Events, e # w.id
      PROVE  EventOK(e)'
  <2>1. Logged(e) => Logged(e)'
    BY <1>2, <1>4, AtWork DEF Logged
  <2>2. Undisturbed(e)
    BY <1>1, <1>2, <1>4, <2>1 DEF Undisturbed
  <2> QED
    BY <2>2, UndisturbedOK DEF IInv, Safe
<1>5. EventOK(w.id)'
  <2>1. InFlight(w.id)' \subseteq InFlight(w.id) /\ i \notin InFlight(w.id)'
    BY <1>1, <1>2, AtWork DEF InFlight
  <2>2. EventOK(w.id) /\ i \in InFlight(w.id)
    BY AtWork
  <2>3. w.id \notin doubted => InFlight(w.id)' = {}
    BY <2>1, AtWork
  <2>4. InOneHand(w.id)' /\ CopiesAgree(w.id)'
    <3>1. w.id \notin doubted => \A j \in Instances : /\ \A c \in batch'[j] : c.id # w.id
                                                      /\ \A u \in work'[j] : u.id # w.id
      BY <2>3 DEF InFlight
    <3> QED
      BY <1>1, <2>3, <3>1 DEF InOneHand, CopiesAgree
  <2>5. TakenUpInTime(w.id)'
    BY <1>1, <1>3, <2>2 DEF EventOK, TakenUpInTime
  <2>6. TriesSpent(w.id)'
    <3> SUFFICES ASSUME w.id \notin doubted \cup Throttled
                 PROVE  rows[w.id].tries <= NumRetries + Spent' + Last(w.id)'
      BY <1>1, <1>3 DEF TriesSpent
    <3>1. /\ Spent \in Nat /\ Spent' \in Nat /\ rows[w.id].tries \in Nat /\ NumRetries \in Nat
          /\ Last(w.id) \in {0, 1} /\ Last(w.id)' \in {0, 1}
      BY AtWork, ScheduledAssumption DEF IInv, SpentOK, Last
    <3>2. rows[w.id].tries <= NumRetries + Spent + Last(w.id)
      BY <2>2 DEF EventOK, TriesSpent
    <3>3. CASE Spent' >= Spent + 1
      BY <3>1, <3>2, <3>3
    <3>4. CASE rows'[w.id].status \in Final \cup {"deleted"}
      <4>1. Last(w.id)' = 1
        BY <3>4 DEF Last
      <4> QED
        BY <3>1, <3>2, <4>1 DEF Onward
    <3>5. CASE rows[w.id].tries <= NumRetries
      BY <3>1, <3>5
    <3>6. CASE SetScheduledEventOp(i, w)
      <4>1. CASE ~Exists(w.id)
        <5>1. rows'[w.id].status = "deleted"
          BY <1>1, <3>6, <4>1, AtWork DEF Exists
        <5> QED
          BY <3>4, <5>1
      <4>2. CASE Exists(w.id)
        <5>1. rows'[w.id] = SetOp(rows[w.id], w) /\ (WasCalled(w) => w.logged)
          BY <3>6, <4>2, AtWork DEF SetScheduledEventOp, RowsAfter, IInv, TypeOK
        <5> QED
          BY <3>4, <3>5, <5>1, AtWork, SetOpOf, Rescheduled
      <4> QED
        BY <4>1, <4>2
    <3>7. CASE ProcessingFails(i, w)
      <4>1. CASE failures' = failures + 1
        BY <3>3, <4>1
      <4>2. CASE ~Exists(w.id)
        BY <1>1, <3>4, <3>7, <4>2, AtWork DEF Exists, ProcessingFails
      <4>3. CASE (WasCalled(w) => w.logged) /\ ~IsUnique(RowsAfter(w)) /\ Exists(w.id)
        <5>1. SetOp(rows[w.id], w).status = "scheduled"
          <6> SUFFICES ASSUME SetOp(rows[w.id], w).status # "scheduled"
                       PROVE  IsUnique(RowsAfter(w))
            BY <4>3
          <6>1. \A e \in Events : RowsAfter(w)[e].status = "scheduled" => rows[e].status = "scheduled"
            BY AtWork DEF RowsAfter, IInv, TypeOK
          <6> QED
            BY <6>1 DEF IInv, Safe, IsUnique, Events
        <5> QED
          BY <3>5, <4>3, <5>1, Rescheduled
      <4> QED
        BY <3>7, <4>1, <4>2, <4>3 DEF ProcessingFails, Failure
    <3> QED
      BY <3>6, <3>7
  <2> QED
    BY <2>4, <2>5, <2>6 DEF EventOK
<1>6. IsUnique(rows)'
  <2>1. CASE SetScheduledEventOp(i, w)
    BY <2>1 DEF SetScheduledEventOp, IsUnique
  <2>2. CASE ProcessingFails(i, w)
    BY <2>2 DEF ProcessingFails, IInv, Safe, IsUnique
  <2> QED
    BY <2>1, <2>2
<1>7. \A e \in Events : Exists(e)' => Exists(e)
  BY <1>1 DEF Exists
<1>8. OneEventUnlessOverdue'
  BY <1>1, <1>7 DEF IInv, Safe, OneEventUnlessOverdue, Events
<1> QED
  BY <1>4, <1>5, <1>6, <1>8 DEF Safe

-------------------------------------------------------------------------------
(* The theorems *)

LEMMA InitInv == Init => IInv
<1> SUFFICES ASSUME Init PROVE IInv
  OBVIOUS
<1>1. TypeOK
  BY InitType
<1>2. /\ \A i \in Instances : batch[i] = {} /\ work[i] = {} /\ phase[i] = "up"
      /\ \A e \in Events : rows[e] = NoRow(IF e \in OneOffs THEN 1 ELSE e[2])
      /\ exits = 0 /\ failures = 0
  BY DEF Init
<1>3. OneCopy
  BY <1>2 DEF OneCopy
<1>4. ShuttingDown = {}
  BY <1>2 DEF ShuttingDown
<1>5. SpentOK /\ Spent = 0
  BY <1>2, <1>4, FS_EmptySet DEF SpentOK, Spent
<1>6. ASSUME NEW e \in Events
      PROVE  /\ EventOK(e) /\ ~Exists(e)
             /\ rows[e].status = "none"
  <2>1. InFlight(e) = {} /\ Last(e) \in {0, 1}
    BY <1>2 DEF InFlight, Last
  <2>2. rows[e].status = "none" /\ rows[e].tries = 0 /\ rows[e].retry = "null"
    BY <1>2 DEF NoRow, NewRow
  <2>3. e \in CronEvents => rows[e].time = e[2]
    <3> SUFFICES ASSUME e \in CronEvents PROVE rows[e].time = e[2]
      OBVIOUS
    <3>1. e \notin OneOffs
      BY ScheduledAssumption
    <3>2. rows[e] = NoRow(e[2])
      BY <1>2, <3>1
    <3> QED
      BY <3>2 DEF NoRow, NewRow
  <2>4. InOneHand(e) /\ TakenUpInTime(e) /\ CopiesAgree(e)
    BY <1>2, <2>1, <2>2, <2>3 DEF InOneHand, TakenUpInTime, CopiesAgree, Final
  <2>5. TriesSpent(e)
    BY <1>5, <2>1, <2>2, ScheduledAssumption DEF TriesSpent
  <2> QED
    BY <2>2, <2>4, <2>5 DEF EventOK, Exists
<1>7. IsUnique(rows) /\ OneEventUnlessOverdue
  BY <1>6 DEF IsUnique, OneEventUnlessOverdue, Events
<1> QED
  BY <1>1, <1>3, <1>5, <1>6, <1>7 DEF IInv, Safe

LEMMA ProcessorSafe ==
    ASSUME IInv, TypeOK', SpentOK', Onward, NEW i \in Instances, ProcessorStep(i)
    PROVE  Safe'
<1> USE DEF procVars, runVars, histVars, budget, dbVars
<1>1. CASE \/ BeginIteration(i) \/ GetScheduledEventsFails(i)
           \/ ProcessCronEvents(i) \/ ProcessOneOffEvents(i) \/ EndIteration(i)
  BY <1>1, CopiesKept, CalmSafe DEF BeginIteration, GetScheduledEventsFails,
                                   ProcessCronEvents, ProcessOneOffEvents, EndIteration
<1>2. ASSUME NEW c \in batch[i], SkipEvent(i, c)
      PROVE  Safe'
  <2>1. /\ rows' = rows /\ work' = work /\ overdue' = overdue
        /\ batch' = [batch EXCEPT ![i] = @ \ {c}]
    BY <1>2 DEF SkipEvent
  <2>2. \A j \in Instances : batch'[j] \subseteq batch[j]
    BY <2>1 DEF IInv, TypeOK
  <2>3. \A e \in Events : Undisturbed(e)
    BY <2>1, <2>2 DEF Undisturbed, Logged
  <2> QED
    BY <2>1, <2>3, CalmSafe
<1>3. ASSUME NEW w \in work[i], SetScheduledEventOp(i, w) \/ ProcessingFails(i, w)
      PROVE  Safe'
  <2>1. ShuttingDown' = ShuttingDown /\ exits' = exits
    BY <1>3 DEF ShuttingDown, SetScheduledEventOp, ProcessingFails
  <2>2. exits \in Nat /\ failures \in Nat /\ failures' \in Nat
    BY DEF IInv, TypeOK
  <2>3. failures' >= failures
    BY <1>3, <2>2 DEF SetScheduledEventOp, ProcessingFails, Failure
  <2>4. failures' = failures + 1 => Spent' >= Spent + 1
    BY <2>1, <2>2, <2>3, SpentKept DEF IInv
  <2> QED
    BY <1>3, <2>4, DoneSafe
<1> QED
  BY <1>1, <1>2, <1>3, FetchSafe, TakeUpSafe, LogSafe DEF ProcessorStep

LEMMA RunSafe ==
    ASSUME IInv, TypeOK', SpentOK', Onward, NEW i \in Instances,
           \/ Start(i) \/ Crash(i) \/ BeginShutdown(i) \/ Poll(i) \/ ShutdownUnlocks(i)
           \/ StopThread(i) \/ SyncCache(i)
    PROVE  Safe'
<1> USE DEF procVars, runVars, histVars, budget, dbVars
<1>1. CASE BeginShutdown(i) \/ Poll(i) \/ SyncCache(i)
  BY <1>1, CopiesKept, CalmSafe DEF BeginShutdown, Poll, SyncCache
<1>2. CASE Crash(i) \/ StopThread(i)
  <2>1. Spent' >= Spent + 1
    BY <1>2, SpentForgotten DEF IInv
  <2>2. rows' = rows /\ overdue' = overdue
    BY <1>2 DEF Crash, StopThread
  <2>3. \A j \in Instances : batch'[j] \subseteq batch[j] /\ work'[j] \subseteq work[j]
    BY <1>2 DEF Crash, StopThread, Forget, IInv, TypeOK
  <2>4. \A e \in Events : Undisturbed(e)
    BY <2>1, <2>2, <2>3 DEF Undisturbed
  <2> QED
    BY <2>2, <2>4, CalmSafe
<1>3. CASE Start(i) \/ ShutdownUnlocks(i)
  <2>1. batch' = batch /\ work' = work /\ overdue' = overdue /\ clock' = clock
    BY <1>3 DEF Start, ShutdownUnlocks
  <2>2. CASE UnlockAll
    BY <2>1, <2>2, UnlockSafe
  <2>3. CASE UnlockAllFails
    BY <2>1, <2>3, CopiesKept, CalmSafe DEF UnlockAllFails
  <2> QED
    BY <1>3, <2>2, <2>3 DEF Start, ShutdownUnlocks
<1> QED
  BY <1>1, <1>2, <1>3

LEMMA UserSafe ==
    ASSUME IInv, TypeOK', SpentOK', Onward, UserStep
    PROVE  Safe'
<1> USE DEF procVars, runVars, histVars, budget, dbVars
<1>1. ASSUME NEW i \in Instances, NEW cmd \in Commands, BeginCommand(i, cmd)
      PROVE  Safe'
  BY <1>1, CopiesKept, CalmSafe DEF BeginCommand
<1>2. ASSUME NEW cmd \in command, CommandCommits(cmd) \/ CommandFails(cmd)
      PROVE  Safe'
  BY <1>2, CopiesKept, CalmSafe DEF CommandCommits, CommandFails
<1>3. ASSUME NEW cmd \in command, CommandDrops(cmd)
      PROVE  Safe'
  <2>1. /\ DropFutureCronEvents(cmd.trigger)
        /\ batch' = batch /\ work' = work /\ overdue' = overdue
    BY <1>3 DEF CommandDrops
  <2>2. \A e \in Events : \/ rows'[e] = rows[e]
                          \/ Exists(e) /\ rows'[e] = [rows[e] EXCEPT !.status = "deleted"]
    BY <2>1 DEF DropFutureCronEvents
  <2> QED
    BY <2>1, <2>2, DeleteSafe
<1>4. ASSUME NEW cmd \in command, CommandInserts(cmd)
      PROVE  Safe'
  <2>1. {cmd.trigger} \X ScheduleTimes(clock, Upcoming) \in SUBSET (Triggers \X Times)
    BY DEF IInv, TypeOK, Commands, ScheduleTimes
  <2> QED
    BY <1>4, <2>1, InsertSafe DEF CommandInserts
<1>5. ASSUME NEW e \in OneOffs, NEW t \in Times, CreateScheduledEvent(e, t)
      PROVE  Safe'
  BY <1>5, CreateSafe DEF CreateScheduledEvent
<1>6. ASSUME NEW e \in Events, DeleteScheduledEvent(e)
      PROVE  Safe'
  <2>1. /\ Exists(e) /\ rows' = [rows EXCEPT ![e].status = "deleted"]
        /\ batch' = batch /\ work' = work /\ overdue' = overdue
    BY <1>6 DEF DeleteScheduledEvent
  <2>2. \A f \in Events : \/ rows'[f] = rows[f]
                          \/ Exists(f) /\ rows'[f] = [rows[f] EXCEPT !.status = "deleted"]
    BY <2>1 DEF IInv, TypeOK
  <2> QED
    BY <2>1, <2>2, DeleteSafe
<1> QED
  BY <1>1, <1>2, <1>3, <1>4, <1>5, <1>6 DEF UserStep

LEMMA InvStep ==
    ASSUME IInv, [Next]_vars
    PROVE  IInv'
<1> USE DEF procVars, runVars, histVars, budget, dbVars
<1>1. TypeOK' /\ OneCopy'
  BY TypeStep, OneCopyStep DEF IInv
<1>2. SpentOK' /\ Spent' >= Spent
  BY <1>1, SpentStep DEF IInv
<1>3. Onward
  <2>1. clock \in Nat
    BY ScheduledAssumption DEF IInv, TypeOK
  <2> DEFINE Forward == (clock' = clock \/ clock' = clock + 1) /\ doubted \subseteq doubted'
  <2>2. ASSUME NEW i \in Instances, ProcessorStep(i)
        PROVE  Forward
    BY <2>2 DEF ProcessorStep, BeginIteration, GetScheduledEventsForDelivery,
           GetScheduledEventsFails, ProcessCronEvents, ProcessOneOffEvents, EndIteration,
           ProcessScheduledEvent, SkipEvent, InsertInvocation, SetScheduledEventOp, ProcessingFails
  <2>3. ASSUME NEW i \in Instances, InstanceStep(i), ~ProcessorStep(i)
        PROVE  Forward
    <3>1. CASE \/ GetDeprivedCronTriggerStats(i) \/ InsertCronEventsFor(i) \/ GeneratorFails(i)
               \/ Crash(i) \/ BeginShutdown(i) \/ Poll(i) \/ StopThread(i) \/ SyncCache(i)
      BY <3>1 DEF GetDeprivedCronTriggerStats, InsertCronEventsFor, GeneratorFails,
             Crash, BeginShutdown, Poll, StopThread, SyncCache
    <3>2. CASE Start(i) \/ ShutdownUnlocks(i)
      BY <3>2 DEF Start, ShutdownUnlocks, UnlockAll, UnlockAllFails
    <3> QED
      BY <2>3, <3>1, <3>2 DEF InstanceStep
  <2>4. ASSUME UserStep
        PROVE  Forward
    BY <2>4 DEF UserStep, BeginCommand, CommandDrops, CommandInserts, CommandCommits, CommandFails,
           CreateScheduledEvent, DeleteScheduledEvent
  <2>5. ASSUME ClockStep \/ UNCHANGED vars
        PROVE  Forward
    BY <2>5 DEF ClockStep, Tick, RetryDue, vars
  <2>6. Forward
    BY <2>2, <2>3, <2>4, <2>5 DEF Next
  <2> QED
    BY <1>2, <2>1, <2>6 DEF Onward
<1>4. Safe'
  <2>1. ASSUME NEW i \in Instances, GetDeprivedCronTriggerStats(i) \/ GeneratorFails(i)
        PROVE  Safe'
    BY <1>1, <1>2, <1>3, <2>1, CopiesKept, CalmSafe DEF GetDeprivedCronTriggerStats, GeneratorFails
  <2>2. ASSUME NEW i \in Instances, InsertCronEventsFor(i)
        PROVE  Safe'
    <3>1. PICK slots \in SUBSET (Triggers \X Times) : InsertCronEvents(slots)
      BY <2>2 DEF InsertCronEventsFor
    <3> QED
      BY <1>1, <1>2, <1>3, <2>2, <3>1, InsertSafe DEF InsertCronEventsFor
  <2>3. ASSUME NEW i \in Instances, InstanceStep(i)
        PROVE  Safe'
    BY <1>1, <1>2, <1>3, <2>1, <2>2, <2>3, ProcessorSafe, RunSafe DEF InstanceStep
  <2>4. CASE UserStep
    BY <1>1, <1>2, <1>3, <2>4, UserSafe
  <2>5. CASE Tick \/ UNCHANGED vars
    BY <1>1, <1>2, <1>3, <2>5, CopiesKept, CalmSafe DEF Tick, vars
  <2>6. ASSUME NEW e \in Events, RetryDue(e)
        PROVE  Safe'
    BY <1>1, <1>2, <1>3, <2>6, RetryDueSafe
  <2> QED
    BY <2>3, <2>4, <2>5, <2>6 DEF Next, ClockStep
<1> QED
  BY <1>1, <1>2, <1>4 DEF IInv

\* The inductive invariant of the module holds in every reachable state.
THEOREM InvariantHolds == Spec => []IInv
<1> QED
  BY InitInv, InvStep, PTL DEF Spec

\* The variables of Spec range over their types, for any constants.
THEOREM TypesHold == Spec => []TypeOK
<1>1. IInv => TypeOK
  BY DEF IInv
<1> QED
  BY <1>1, InvariantHolds, PTL

\* An event that was never unlocked while some instance had it is in the hands of
\* one instance at most, and locked (or deleted) meanwhile: InOneHand.
THEOREM ExclusiveHolds == Spec => []ExclusiveUnlessDoubted
<1>1. IInv => ExclusiveUnlessDoubted
  <2> SUFFICES ASSUME IInv, NEW e \in Events \ doubted
               PROVE  /\ Cardinality(InFlight(e)) <= 1
                      /\ InFlight(e) # {} => rows[e].status \in {"locked", "deleted"}
    BY DEF ExclusiveUnlessDoubted
  <2>1. InOneHand(e)
    BY DEF IInv, Safe, EventOK
  <2>2. CASE InFlight(e) = {}
    <3>1. Cardinality(InFlight(e)) = 0
      BY <2>2, FS_EmptySet
    <3> QED
      BY <2>2, <3>1
  <2>3. CASE InFlight(e) # {}
    <3>1. PICK i : InFlight(e) = {i}
      BY <2>1, <2>3 DEF InOneHand
    <3>2. Cardinality(InFlight(e)) = 1
      BY <3>1, FS_Singleton
    <3> QED
      BY <2>1, <2>3, <3>2 DEF InOneHand
  <2> QED
    BY <2>2, <2>3
<1> QED
  BY <1>1, InvariantHolds, PTL

\* The webhook of an event is called num_retries + 1 times at most, and once more
\* for every crash, shutdown or failed transaction: TriesSpent.
THEOREM TriesBoundedHolds == Spec => []TriesBounded
<1>1. IInv => TriesBounded
  <2> SUFFICES ASSUME IInv, NEW e \in Events \ (doubted \cup Throttled)
               PROVE  rows[e].tries <= NumRetries + 1 + exits + failures
    BY DEF TriesBounded
  <2>1. rows[e].tries <= NumRetries + Spent + Last(e) /\ Last(e) \in {0, 1}
    BY DEF IInv, Safe, EventOK, TriesSpent, Last
  <2>2. /\ rows[e].tries \in Nat /\ NumRetries \in Nat /\ exits \in Nat /\ failures \in Nat
        /\ Cardinality(ShuttingDown) \in Nat
    BY ScheduledAssumption, FS_CardinalityType DEF IInv, SpentOK, TypeOK, Row
  <2> QED
    BY <2>1, <2>2 DEF Spent
<1> QED
  BY <1>1, InvariantHolds, PTL

\* A time of a cron trigger gets one event unless it had come when it was inserted.
THEOREM OneEventHolds == Spec => []OneEventUnlessOverdue
<1>1. IInv => OneEventUnlessOverdue
  BY DEF IInv, Safe
<1> QED
  BY <1>1, InvariantHolds, PTL

\* Nothing leaves delivered, error or dead but by deletion, as long as the event
\* was not unlocked behind the back of an instance: such an event is in the hands
\* of no instance, so that no outcome is still to be recorded.
THEOREM FinalHolds == Spec => FinalUnlessDoubted
<1> DEFINE Kept == \A e \in Events \ doubted :
                     rows[e].status \in Final => rows'[e].status \in {rows[e].status, "deleted"}
<1>1. IInv /\ [Next]_vars => Kept
  <2> SUFFICES ASSUME IInv, [Next]_vars, NEW e \in Events \ doubted, rows[e].status \in Final
               PROVE  rows'[e].status \in {rows[e].status, "deleted"}
    OBVIOUS
  <2> USE DEF procVars, runVars, histVars, budget, dbVars
  <2>1. InFlight(e) = {}
    BY DEF IInv, Safe, EventOK, InOneHand, Final
  <2>2. rows[e].status \notin {"none", "scheduled", "locked"} /\ rows[e] \in Row
    BY DEF Final, IInv, TypeOK
  <2>3. ASSUME NEW slots, InsertCronEvents(slots)
        PROVE  rows'[e] = rows[e]
    BY <2>2, <2>3, FreshEventType DEF InsertCronEvents
  <2>4. ASSUME UnlockAll \/ UnlockAllFails
        PROVE  rows'[e] = rows[e]
    <3>1. Unlocked(e) = rows[e]
      BY <2>2 DEF Unlocked, Row
    <3> QED
      BY <2>4, <3>1 DEF UnlockAll, UnlockAllFails
  <2>5. ASSUME NEW i \in Instances, ProcessorStep(i)
        PROVE  rows'[e] = rows[e]
    <3>1. CASE GetScheduledEventsForDelivery(i)
      BY <2>2, <3>1 DEF GetScheduledEventsForDelivery, Fetchable
    <3>2. ASSUME NEW w \in work[i], InsertInvocation(i, w) \/ SetScheduledEventOp(i, w)
          PROVE  rows'[e] = rows[e]
      <4>1. w.id # e
        BY <2>1, NotHeld
      <4> QED
        BY <3>2, <4>1, AtWork DEF InsertInvocation, SetScheduledEventOp, RowsAfter, IInv, TypeOK
    <3> QED
      BY <2>5, <3>1, <3>2 DEF ProcessorStep, BeginIteration, GetScheduledEventsFails,
         ProcessCronEvents, ProcessOneOffEvents, EndIteration, ProcessScheduledEvent, SkipEvent,
         ProcessingFails
  <2>6. ASSUME NEW i \in Instances, InstanceStep(i)
        PROVE  rows'[e] = rows[e]
    BY <2>3, <2>4, <2>5, <2>6
       DEF InstanceStep, GetDeprivedCronTriggerStats, InsertCronEventsFor, GeneratorFails, Start,
           Crash, BeginShutdown, Poll, ShutdownUnlocks, StopThread, SyncCache
  <2>7. ASSUME UserStep
        PROVE  rows'[e].status \in {rows[e].status, "deleted"}
    <3>1. ASSUME NEW cmd \in command, CommandDrops(cmd)
          PROVE  rows'[e].status \in {rows[e].status, "deleted"}
      BY <2>2, <3>1 DEF CommandDrops, DropFutureCronEvents, Row
    <3>2. ASSUME NEW f \in OneOffs, NEW t \in Times, CreateScheduledEvent(f, t)
          PROVE  rows'[e] = rows[e]
      BY <2>2, <3>2 DEF CreateScheduledEvent, IInv, TypeOK
    <3>3. ASSUME NEW f \in Events, DeleteScheduledEvent(f)
          PROVE  rows'[e].status \in {rows[e].status, "deleted"}
      BY <2>2, <3>3 DEF DeleteScheduledEvent, IInv, TypeOK, Row
    <3> QED
      BY <2>3, <2>7, <3>1, <3>2, <3>3
         DEF UserStep, BeginCommand, CommandInserts, CommandCommits, CommandFails
  <2>8. ASSUME ClockStep
        PROVE  rows'[e].status = rows[e].status
    BY <2>2, <2>8 DEF ClockStep, Tick, RetryDue, IInv, TypeOK, Row
  <2> QED
    BY <2>6, <2>7, <2>8 DEF Next, vars
<1> QED
  BY <1>1, InvariantHolds, PTL DEF Spec, FinalUnlessDoubted

-------------------------------------------------------------------------------
(* ScheduledTriggers implements DeliveryQueue. *)

\* What an instance has fetched has a row.
FetchedFirst == \A e \in Events : InFlight(e) # {} => rows[e].status # "none"

\* A row that is there once stays, or is marked as deleted.
LEMMA RowsStay ==
    ASSUME IInv, [Next]_vars, NEW e \in Events, rows[e].status # "none"
    PROVE  rows'[e].status # "none"
<1> USE DEF procVars, runVars, histVars, budget, dbVars
<1>0. \A f \in Events : rows[f] \in Row
  BY DEF IInv, TypeOK
<1>1. CASE rows' = rows
  BY <1>1
<1>2. ASSUME NEW slots, InsertCronEvents(slots)
      PROVE  rows'[e].status # "none"
  BY <1>2, FreshEventType DEF InsertCronEvents
<1>3. ASSUME UnlockAll \/ UnlockAllFails
      PROVE  rows'[e].status # "none"
  <2>1. rows'[e] = rows[e] \/ rows'[e] = Unlocked(e)
    BY <1>3 DEF UnlockAll, UnlockAllFails
  <2>2. Unlocked(e).status # "none"
    BY <1>0 DEF Unlocked, Row
  <2> QED
    BY <2>1, <2>2
<1>4. ASSUME NEW i \in Instances, GetScheduledEventsForDelivery(i)
      PROVE  rows'[e].status # "none"
  BY <1>0, <1>4 DEF GetScheduledEventsForDelivery, Row
<1>5. ASSUME NEW i \in Instances, NEW w \in work[i], InsertInvocation(i, w)
      PROVE  rows'[e].status # "none"
  BY <1>0, <1>5, AtWork DEF InsertInvocation, IInv, TypeOK, Row
<1>6. ASSUME NEW i \in Instances, NEW w \in work[i], SetScheduledEventOp(i, w)
      PROVE  rows'[e].status # "none"
  <2>1. rows'[e] = rows[e] \/ rows'[e] = SetOp(rows[e], w)
    BY <1>6, AtWork DEF SetScheduledEventOp, RowsAfter, IInv, TypeOK
  <2>2. SetOp(rows[e], w).status # "none"
    BY <1>0, SetOpOf DEF Final
  <2> QED
    BY <2>1, <2>2
<1>7. ASSUME NEW i \in Instances, InstanceStep(i)
      PROVE  rows'[e].status # "none"
  BY <1>1, <1>2, <1>3, <1>4, <1>5, <1>6, <1>7
     DEF InstanceStep, ProcessorStep, GetDeprivedCronTriggerStats, InsertCronEventsFor,
         GeneratorFails, Start, Crash, BeginShutdown, Poll, ShutdownUnlocks, StopThread, SyncCache,
         BeginIteration, GetScheduledEventsFails, ProcessCronEvents, ProcessOneOffEvents,
         EndIteration, ProcessScheduledEvent, SkipEvent, ProcessingFails
<1>8. ASSUME UserStep
      PROVE  rows'[e].status # "none"
  <2>1. ASSUME NEW cmd \in command, CommandDrops(cmd)
        PROVE  rows'[e].status # "none"
    BY <1>0, <2>1 DEF CommandDrops, DropFutureCronEvents, Row
  <2>2. ASSUME NEW f \in OneOffs, NEW t \in Times, CreateScheduledEvent(f, t)
        PROVE  rows'[e].status # "none"
    BY <2>2 DEF CreateScheduledEvent, IInv, TypeOK, NewRow
  <2>3. ASSUME NEW f \in Events, DeleteScheduledEvent(f)
        PROVE  rows'[e].status # "none"
    BY <1>0, <2>3 DEF DeleteScheduledEvent, IInv, TypeOK, Row
  <2> QED
    BY <1>1, <1>2, <1>8, <2>1, <2>2, <2>3
       DEF UserStep, BeginCommand, CommandInserts, CommandCommits, CommandFails
<1>9. ASSUME ClockStep
      PROVE  rows'[e].status # "none"
  BY <1>0, <1>9 DEF ClockStep, Tick, RetryDue, IInv, TypeOK, Row
<1> QED
  BY <1>1, <1>7, <1>8, <1>9 DEF Next, vars

\* Only a fetch puts an event into the hands of an instance.
LEMMA HandsEmpty ==
    ASSUME IInv, [Next]_vars, NEW e \in Events, InFlight(e)' # {}
    PROVE  \/ InFlight(e) # {}
           \/ rows[e].status = "scheduled"
<1> USE DEF procVars, runVars, histVars, budget, dbVars
<1>1. CASE batch' = batch /\ work' = work
  BY <1>1 DEF InFlight
<1>2. ASSUME NEW i \in Instances, Forget(i)
      PROVE  InFlight(e)' \subseteq InFlight(e)
  BY <1>2 DEF Forget, InFlight, IInv, TypeOK
<1>3. ASSUME NEW i \in Instances, GetScheduledEventsForDelivery(i)
      PROVE  InFlight(e) # {} \/ rows[e].status = "scheduled"
  <2> SUFFICES ASSUME ~Fetchable(rows[e]) PROVE InFlight(e)' \subseteq InFlight(e)
    BY DEF Fetchable
  <2>1. \A c \in batch'[i] : c.id # e
    BY <1>3 DEF GetScheduledEventsForDelivery, IInv, TypeOK
  <2>2. \A j \in Instances : j # i => batch'[j] = batch[j]
    BY <1>3 DEF GetScheduledEventsForDelivery, IInv, TypeOK
  <2>3. work' = work
    BY <1>3 DEF GetScheduledEventsForDelivery
  <2> QED
    BY <2>1, <2>2, <2>3 DEF InFlight
<1>4. ASSUME NEW i \in Instances, NEW c \in batch[i], ProcessScheduledEvent(i, c) \/ SkipEvent(i, c)
      PROVE  InFlight(e)' \subseteq InFlight(e)
  <2>1. /\ \A j \in Instances : batch'[j] \subseteq batch[j]
        /\ \A j \in Instances : j # i => work'[j] = work[j]
        /\ \A w \in work'[i] : w.id = c.id \/ w \in work[i]
    BY <1>4 DEF ProcessScheduledEvent, SkipEvent, IInv, TypeOK
  <2> QED
    BY <2>1 DEF InFlight
<1>5. ASSUME NEW i \in Instances, NEW w \in work[i],
             InsertInvocation(i, w) \/ SetScheduledEventOp(i, w) \/ ProcessingFails(i, w)
      PROVE  InFlight(e)' \subseteq InFlight(e)
  <2>1. w \in Works
    BY AtWork
  <2>2. /\ batch' = batch /\ \A j \in Instances : j # i => work'[j] = work[j]
        /\ \A v \in work'[i] : v.id = w.id
    BY <1>5, <2>1 DEF InsertInvocation, SetScheduledEventOp, ProcessingFails, IInv, TypeOK, Works
  <2> QED
    BY <2>2 DEF InFlight
<1>6. ASSUME NEW i \in Instances, InstanceStep(i)
      PROVE  InFlight(e) # {} \/ rows[e].status = "scheduled"
  BY <1>1, <1>2, <1>3, <1>4, <1>5, <1>6
     DEF InstanceStep, ProcessorStep, GetDeprivedCronTriggerStats, InsertCronEventsFor,
         GeneratorFails, Start, Crash, BeginShutdown, Poll, ShutdownUnlocks, StopThread, SyncCache,
         BeginIteration, GetScheduledEventsFails, ProcessCronEvents, ProcessOneOffEvents,
         EndIteration
<1>7. ASSUME UserStep \/ ClockStep
      PROVE  batch' = batch /\ work' = work
  BY <1>7 DEF UserStep, ClockStep, BeginCommand, CommandDrops, CommandInserts, CommandCommits,
              CommandFails, CreateScheduledEvent, DeleteScheduledEvent, Tick, RetryDue
<1> QED
  BY <1>1, <1>6, <1>7 DEF Next, vars

LEMMA FetchedFirstHolds == Spec => []FetchedFirst
<1>1. Init => FetchedFirst
  BY DEF Init, FetchedFirst, InFlight
<1>2. IInv /\ FetchedFirst /\ [Next]_vars => FetchedFirst'
  <2> SUFFICES ASSUME IInv, FetchedFirst, [Next]_vars, NEW e \in Events, InFlight(e)' # {}
               PROVE  rows'[e].status # "none"
    BY DEF FetchedFirst
  <2>1. rows[e].status # "none"
    BY HandsEmpty DEF FetchedFirst
  <2> QED
    BY <2>1, RowsStay
<1> QED
  BY <1>1, <1>2, InvariantHolds, PTL DEF Spec

\* The queue's view of the rows and of the memory of the instances, point by point.
LEMMA QueueViews ==
    /\ QueueStatus = [e \in Events |-> QueueStatus[e]]
    /\ QueueStatus' = [e \in Events |-> QueueStatus'[e]]
    /\ QueueClaim = [c \in QueueClaims |-> QueueClaim[c]]
    /\ QueueClaim' = [c \in QueueClaims |-> QueueClaim'[c]]
    /\ \A c \in QueueClaims : c[1] \in Instances /\ c[2] \in Events /\ c = <<c[1], c[2]>>
    /\ \A i \in Instances, e \in Events : <<i, e>> \in QueueClaims
BY DEF QueueStatus, QueueClaim, QueueClaims

\* An instance has a claim on the events that it has in its memory.
LEMMA ClaimsInHand ==
    /\ \A c \in QueueClaims : QueueClaim[c] = "none" <=> c[1] \notin InFlight(c[2])
    /\ \A e \in Events : Queue!Free(e) <=> InFlight(e) = {}
<1>1. \A c \in QueueClaims : QueueClaim[c] = "none" <=> c[1] \notin InFlight(c[2])
  BY DEF QueueClaim, QueueClaims, ClaimOn, InFlight
<1>2. ASSUME NEW e \in Events PROVE Queue!Free(e) <=> InFlight(e) = {}
  <2>1. ASSUME Queue!Free(e), NEW i \in InFlight(e) PROVE FALSE
    <3>1. <<i, e>> \in QueueClaims
      BY QueueViews DEF InFlight
    <3> QED
      BY <1>1, <2>1, <3>1 DEF Queue!Free
  <2> QED
    BY <1>1, <2>1 DEF Queue!Free
<1> QED
  BY <1>1, <1>2

\* Steps that decide nothing and at most forget events give up claims.
LEMMA QueueGivesUp ==
    ASSUME QueueStatus' = QueueStatus, doubted' = doubted,
           \A c \in QueueClaims : QueueClaim'[c] \in {QueueClaim[c], "none"}
    PROVE  Queue!Next
<1> DEFINE C == {c \in QueueClaims : QueueClaim'[c] = "none"}
<1>1. QueueClaim' = [c \in QueueClaims |-> IF c \in C THEN "none" ELSE QueueClaim[c]]
  BY QueueViews
<1>2. C \in SUBSET QueueClaims
  OBVIOUS
<1> HIDE DEF C
<1>3. Queue!GiveUp(C)
  BY <1>1 DEF Queue!GiveUp
<1> QED
  BY <1>2, <1>3 DEF Queue!Next

LEMMA MemoryKept ==
    ASSUME batch' = batch, work' = work PROVE QueueClaim' = QueueClaim
BY DEF QueueClaim

LEMMA RowsKept ==
    ASSUME rows' = rows PROVE QueueStatus' = QueueStatus
BY DEF QueueStatus

\* New rows are put into the queue, whoever makes them.
LEMMA QueuePuts ==
    ASSUME batch' = batch, work' = work, doubted' = doubted, NEW E \in SUBSET Events,
           \A e \in E : rows[e].status = "none" /\ rows'[e].status = "scheduled",
           \A e \in Events \ E : rows'[e] = rows[e]
    PROVE  Queue!Next
<1>1. \A e \in E : QueueStatus[e] = "absent"
  BY DEF QueueStatus, RowStatus
<1>2. \A e \in Events : QueueStatus'[e] = IF e \in E THEN "open" ELSE QueueStatus[e]
  BY DEF QueueStatus, RowStatus
<1>3. QueueStatus' = [e \in Events |-> IF e \in E THEN "open" ELSE QueueStatus[e]]
  BY <1>2, QueueViews
<1>4. Queue!Put(E)
  BY <1>1, <1>3, MemoryKept DEF Queue!Put
<1> QED
  BY <1>4 DEF Queue!Next

LEMMA InsertPuts ==
    ASSUME NEW slots, InsertCronEvents(slots), batch' = batch, work' = work, doubted' = doubted
    PROVE  Queue!Next
<1> DEFINE E == Inserted(slots)
<1>1. /\ E \in SUBSET Events
      /\ \A e \in E : rows[e].status = "none"
  BY FreshEventType DEF Events
<1>2. \A e \in Events : rows'[e] = IF e \in E THEN NewRow(e[2]) ELSE rows[e]
  BY DEF InsertCronEvents
<1> HIDE DEF E
<1>3. ASSUME NEW e \in E PROVE rows'[e].status = "scheduled"
  <2>1. rows'[e] = NewRow(e[2])
    BY <1>1, <1>2
  <2> QED
    BY <2>1 DEF NewRow
<1> QED
  BY <1>1, <1>2, <1>3, QueuePuts

\* Rows that are marked as deleted are withdrawn, by whatever command.
LEMMA DeleteWithdraws ==
    ASSUME IInv, batch' = batch, work' = work, doubted' = doubted,
           \A e \in Events : \/ rows'[e] = rows[e]
                             \/ Exists(e) /\ rows'[e] = [rows[e] EXCEPT !.status = "deleted"]
    PROVE  Queue!Next
<1> DEFINE E == {e \in Events : rows'[e] # rows[e]}
<1>1. E \in SUBSET Events /\ \A e \in Events : e \notin E => rows'[e] = rows[e]
  OBVIOUS
<1>2. ASSUME NEW e \in E PROVE Exists(e) /\ rows'[e].status = "deleted"
  <2>1. rows[e] \in Row
    BY DEF IInv, TypeOK
  <2>2. Exists(e) /\ rows'[e] = [rows[e] EXCEPT !.status = "deleted"]
    OBVIOUS
  <2> QED
    BY <2>1, <2>2 DEF Row
<1> HIDE DEF E
<1>3. \A e \in E : QueueStatus[e] # "absent" /\ QueueStatus'[e] = "withdrawn"
  BY <1>1, <1>2 DEF QueueStatus, RowStatus, Exists
<1>4. \A e \in Events : QueueStatus'[e] = IF e \in E THEN "withdrawn" ELSE QueueStatus[e]
  BY <1>1, <1>3 DEF QueueStatus
<1>5. QueueStatus' = [e \in Events |-> IF e \in E THEN "withdrawn" ELSE QueueStatus[e]]
  BY <1>4, QueueViews
<1>6. Queue!Withdraw(E)
  BY <1>3, <1>5, MemoryKept DEF Queue!Withdraw
<1> QED
  BY <1>1, <1>6 DEF Queue!Next

\* A start or a shutdown unlocks the events of all instances.
LEMMA UnlockDoubts ==
    ASSUME IInv, UnlockAll, batch' = batch, work' = work
    PROVE  Queue!Next
<1> DEFINE E == {e \in Events : rows[e].status = "locked" /\ InFlight(e) # {}}
<1>1. E \in SUBSET Events /\ \A e \in E : ~Queue!Free(e)
  BY ClaimsInHand
<1>2. doubted' = doubted \cup E /\ rows' = [e \in Events |-> Unlocked(e)]
  BY DEF UnlockAll
<1>3. \A e \in Events : rows[e] \in Row
  BY DEF IInv, TypeOK
<1> HIDE DEF E
<1>4. \A e \in Events : QueueStatus'[e] = QueueStatus[e]
  <2> SUFFICES ASSUME NEW e \in Events PROVE RowStatus(rows'[e]) = RowStatus(rows[e])
    BY DEF QueueStatus
  <2>1. CASE rows[e].status = "locked"
    <3>1. rows'[e].status = "scheduled"
      BY <1>2, <1>3, <2>1 DEF Unlocked, Row
    <3> QED
      BY <2>1, <3>1 DEF RowStatus
  <2>2. CASE rows[e].status # "locked"
    <3>1. rows'[e].status = rows[e].status
      BY <1>2, <1>3, <2>2 DEF Unlocked, Row
    <3> QED
      BY <3>1 DEF RowStatus
  <2> QED
    BY <2>1, <2>2
<1>5. QueueStatus' = QueueStatus
  BY <1>4, QueueViews
<1>6. Queue!Doubt(E)
  BY <1>1, <1>2, <1>5, MemoryKept DEF Queue!Doubt
<1> QED
  BY <1>1, <1>6 DEF Queue!Next

\* The fetch claims the events that are due; none is in other hands unless it is doubted.
LEMMA FetchClaims ==
    ASSUME IInv, NEW i \in Instances, GetScheduledEventsForDelivery(i)
    PROVE  Queue!Next
<1> DEFINE due == {e \in Events : Fetchable(rows[e])}
           C == {c \in QueueClaims : c[1] = i /\ c[2] \in due}
<1>1. /\ rows' = [e \in Events |-> IF e \in due THEN [rows[e] EXCEPT !.status = "locked"] ELSE rows[e]]
      /\ batch' = [batch EXCEPT ![i] = {[id |-> e, tries |-> rows[e].tries] : e \in due}]
      /\ work' = work /\ doubted' = doubted
  BY DEF GetScheduledEventsForDelivery, histVars
<1>2. batch[i] = {} /\ work[i] = {}
  BY DEF GetScheduledEventsForDelivery, IInv, OneCopy
<1>3. /\ \A j \in Instances : j # i => batch'[j] = batch[j]
      /\ \A e \in Events : (\E c \in batch'[i] : c.id = e) <=> e \in due
  <2>1. batch'[i] = {[id |-> e, tries |-> rows[e].tries] : e \in due}
    BY <1>1 DEF IInv, TypeOK
  <2>2. \A j \in Instances : j # i => batch'[j] = batch[j]
    BY <1>1 DEF IInv, TypeOK
  <2>3. ASSUME NEW e \in due PROVE \E c \in batch'[i] : c.id = e
    <3>1. [id |-> e, tries |-> rows[e].tries] \in batch'[i]
      BY <2>1
    <3> QED
      BY <3>1
  <2>4. ASSUME NEW c \in batch'[i] PROVE c.id \in due
    <3>1. PICK e \in due : c = [id |-> e, tries |-> rows[e].tries]
      BY <2>1
    <3> QED
      BY <3>1
  <2> QED
    BY <2>2, <2>3, <2>4
<1>4. \A e \in due : e \in Events /\ rows[e].status = "scheduled"
  BY DEF Fetchable
<1>5. \A e \in Events : /\ e \in due => rows'[e].status = "locked"
                        /\ e \notin due => rows'[e] = rows[e]
  BY <1>1 DEF IInv, TypeOK, Row
<1>6. C \in SUBSET QueueClaims /\ \A c, d \in C : c[2] = d[2] => c = d
  BY QueueViews
<1>7. \A c \in C : c \in QueueClaims /\ c[1] = i /\ c[2] \in due
  OBVIOUS
<1>8. \A c \in QueueClaims : c \in C <=> c[1] = i /\ c[2] \in due
  OBVIOUS
<1> HIDE DEF due, C
<1>9. \A c \in C : QueueClaim[c] = "none"
  BY <1>2, <1>7 DEF QueueClaim, ClaimOn
<1>10. \A c \in C : QueueStatus[c[2]] = "open"
  BY <1>4, <1>7 DEF QueueStatus, RowStatus
<1>11. \A c \in C : c[2] \in doubted \/ Queue!Free(c[2])
  <2> SUFFICES ASSUME NEW c \in C, c[2] \notin doubted PROVE InFlight(c[2]) = {}
    BY <1>4, <1>7, ClaimsInHand
  <2>1. InOneHand(c[2]) /\ rows[c[2]].status = "scheduled"
    BY <1>4, <1>7 DEF IInv, Safe, EventOK
  <2> QED
    BY <2>1 DEF InOneHand
<1>12. \A e \in Events : QueueStatus'[e] = QueueStatus[e]
  BY <1>4, <1>5 DEF QueueStatus, RowStatus
<1>13. QueueStatus' = QueueStatus
  BY <1>12, QueueViews
<1>14. \A c \in QueueClaims : QueueClaim'[c] = IF c \in C THEN "claimed" ELSE QueueClaim[c]
  <2> SUFFICES ASSUME NEW c \in QueueClaims
               PROVE  QueueClaim'[c] = IF c \in C THEN "claimed" ELSE QueueClaim[c]
    OBVIOUS
  <2>1. c[1] \in Instances /\ c[2] \in Events
    BY QueueViews
  <2>2. CASE c[1] # i
    BY <1>1, <1>3, <1>7, <2>1, <2>2 DEF QueueClaim
  <2>3. CASE c[1] = i
    <3>1. QueueClaim'[c] = IF c[2] \in due THEN "claimed" ELSE "none"
      BY <1>1, <1>2, <1>3, <2>1, <2>3 DEF QueueClaim, ClaimOn
    <3>2. QueueClaim[c] = "none"
      BY <1>2, <2>3 DEF QueueClaim, ClaimOn
    <3> QED
      BY <1>8, <2>3, <3>1, <3>2
  <2> QED
    BY <2>2, <2>3
<1>15. QueueClaim' = [c \in QueueClaims |-> IF c \in C THEN "claimed" ELSE QueueClaim[c]]
  BY <1>14, QueueViews
<1>16. Queue!Claim(C)
  BY <1>1, <1>6, <1>9, <1>10, <1>11, <1>13, <1>15 DEF Queue!Claim
<1> QED
  BY <1>6, <1>16 DEF Queue!Next

\* The claims of the other instances stay, and those on other events.
LEMMA OtherClaims ==
    ASSUME NEW i \in Instances, NEW e \in Events,
           \A j \in Instances : j # i => batch'[j] = batch[j] /\ work'[j] = work[j],
           \A c : c.id # e => (c \in batch'[i] <=> c \in batch[i]),
           \A w : w.id # e => (w \in work'[i] <=> w \in work[i])
    PROVE  \A c \in QueueClaims : c # <<i, e>> => QueueClaim'[c] = QueueClaim[c]
<1> SUFFICES ASSUME NEW c \in QueueClaims, c # <<i, e>>
             PROVE  ClaimOn(c[2], batch'[c[1]], work'[c[1]]) = ClaimOn(c[2], batch[c[1]], work[c[1]])
  BY DEF QueueClaim
<1>1. CASE c[1] # i
  BY <1>1, QueueViews
<1>2. CASE c[1] = i
  <2>1. c[2] # e
    BY <1>2, QueueViews
  <2> QED
    BY <1>2, <2>1 DEF ClaimOn
<1> QED
  BY <1>1, <1>2

\* The webhook is called, or not, for an event that is not decided.
LEMMA TakeUpAnswers ==
    ASSUME IInv, FetchedFirst, NEW i \in Instances, NEW b \in batch[i],
           ProcessScheduledEvent(i, b)
    PROVE  Queue!Next
<1> DEFINE e == b.id
           c == <<i, e>>
<1>1. PICK outcome \in PossibleOutcomes(b) :
        work' = [work EXCEPT ![i] = {[id |-> b.id, tries |-> b.tries,
                                      outcome |-> outcome, logged |-> FALSE]}]
  BY DEF ProcessScheduledEvent
<1> DEFINE answer == IF outcome = "accepted" THEN "accepted" ELSE "refused"
<1>2. batch' = [batch EXCEPT ![i] = @ \ {b}] /\ work[i] = {} /\ rows' = rows /\ doubted' = doubted
  BY DEF ProcessScheduledEvent, TakesUp, dbVars
<1>3. e \in Events /\ c \in QueueClaims /\ i \in InFlight(e)
  BY DEF IInv, TypeOK, Copies, InFlight, QueueClaims
<1>4. /\ \A j \in Instances : j # i => batch'[j] = batch[j] /\ work'[j] = work[j]
      /\ batch'[i] = batch[i] \ {b}
      /\ \A w \in work'[i] : w.id = e /\ w.outcome = outcome
      /\ \E w \in work'[i] : w.id = e
  <2> DEFINE v == [id |-> b.id, tries |-> b.tries, outcome |-> outcome, logged |-> FALSE]
  <2>1. work'[i] = {v}
    BY <1>1 DEF IInv, TypeOK
  <2>2. v.id = e /\ v.outcome = outcome
    OBVIOUS
  <2>3. /\ \A j \in Instances : j # i => batch'[j] = batch[j] /\ work'[j] = work[j]
        /\ batch'[i] = batch[i] \ {b}
    BY <1>1, <1>2 DEF IInv, TypeOK
  <2> HIDE DEF v
  <2> QED
    BY <2>1, <2>2, <2>3
<1>5. QueueClaim[c] = "claimed"
  BY <1>2, <1>3 DEF QueueClaim, ClaimOn
<1>6. QueueClaim'[c] = answer
  BY <1>3, <1>4 DEF QueueClaim, ClaimOn
<1>7. \A d \in QueueClaims : d # c => QueueClaim'[d] = QueueClaim[d]
  BY <1>2, <1>3, <1>4, OtherClaims
<1>8. e \in doubted \/ Queue!Undecided(e)
  <2>1. e \notin doubted => rows[e].status \in {"locked", "deleted"}
    BY <1>3 DEF IInv, Safe, EventOK, InOneHand
  <2> QED
    BY <1>3, <2>1 DEF Queue!Undecided, QueueStatus, RowStatus
<1>9. QueueClaim' = [QueueClaim EXCEPT ![c] = answer]
  <2>1. \A d \in QueueClaims : QueueClaim'[d] = IF d = c THEN answer ELSE QueueClaim[d]
    BY <1>6, <1>7
  <2> QED
    BY <1>3, <2>1, QueueViews
<1>10. c[2] = e /\ answer \in {"accepted", "refused"}
  OBVIOUS
<1> HIDE DEF answer, c
<1>11. Queue!Answer(c, answer)
  BY <1>2, <1>5, <1>8, <1>9, <1>10, RowsKept DEF Queue!Answer
<1> QED
  BY <1>3, <1>10, <1>11 DEF Queue!Next

\* What setScheduledEventOpTx makes of a row is a verdict on the answer.
LEMMA SetOpVerdict ==
    ASSUME NEW row \in Row, NEW w
    PROVE  RowStatus(SetOp(row, w)) \in
              IF w.outcome = "accepted" THEN {"delivered"} ELSE {"open", "failed"}
<1> DEFINE Fails == \/ w.outcome = "untransformable"
                    \/ w.outcome = "failed" /\ TriesExhausted(w.tries)
<1>1. CASE w.outcome = "accepted"
  BY <1>1 DEF SetOp, Row, RowStatus
<1>2. CASE w.outcome = "dead"
  BY <1>2 DEF SetOp, Row, RowStatus
<1>3. CASE w.outcome \notin {"accepted", "dead"} /\ Fails
  BY <1>3 DEF SetOp, Row, RowStatus
<1>4. CASE w.outcome \notin {"accepted", "dead"} /\ ~Fails
  BY <1>4 DEF SetOp, Row, RowStatus
<1> QED
  BY <1>1, <1>2, <1>3, <1>4

LEMMA SetOpReports ==
    ASSUME IInv, FetchedFirst, NEW i \in Instances, NEW w \in work[i], SetScheduledEventOp(i, w)
    PROVE  Queue!Next
<1> DEFINE e == w.id
           c == <<i, e>>
           verdict == QueueStatus'[e]
<1>1. /\ rows' = RowsAfter(w) /\ work' = [work EXCEPT ![i] = {}]
      /\ batch' = batch /\ doubted' = doubted
  BY DEF SetScheduledEventOp, histVars
<1>2. /\ e \in Events /\ c \in QueueClaims /\ rows[e] \in Row /\ i \in InFlight(e)
      /\ work[i] = {w} /\ \A b \in batch[i] : b.id # e
  BY AtWork, QueueViews
<1>3. /\ rows'[e] = IF Exists(e) THEN SetOp(rows[e], w) ELSE rows[e]
      /\ \A f \in Events : f # e => rows'[f] = rows[f]
  BY <1>1, <1>2 DEF RowsAfter, IInv, TypeOK
<1>4. work'[i] = {} /\ \A j \in Instances : j # i => work'[j] = work[j]
  BY <1>1 DEF IInv, TypeOK
<1>5. QueueClaim[c] = IF w.outcome = "accepted" THEN "accepted" ELSE "refused"
  BY <1>2 DEF QueueClaim, ClaimOn
<1>6. QueueClaim' = [QueueClaim EXCEPT ![c] = "none"]
  <2>1. QueueClaim'[c] = "none"
    BY <1>1, <1>2, <1>4 DEF QueueClaim, ClaimOn
  <2>2. \A d \in QueueClaims : d # c => QueueClaim'[d] = QueueClaim[d]
    BY <1>1, <1>2, <1>4, OtherClaims
  <2>3. \A d \in QueueClaims : QueueClaim'[d] = IF d = c THEN "none" ELSE QueueClaim[d]
    BY <2>1, <2>2
  <2> QED
    BY <1>2, <2>3, QueueViews
<1>7. rows[e].status # "none"
  BY <1>2 DEF FetchedFirst
<1>8. e \in doubted \/ Queue!Undecided(e)
  <2>1. e \notin doubted => rows[e].status \in {"locked", "deleted"}
    BY AtWork
  <2> QED
    BY <1>2, <2>1 DEF Queue!Undecided, QueueStatus, RowStatus
<1>9. verdict \in Queue!Verdicts(c)
  <2>1. CASE ~Exists(e)
    <3>1. QueueStatus[e] = "withdrawn" /\ verdict = "withdrawn"
      BY <1>2, <1>3, <1>7, <2>1 DEF Exists, QueueStatus, RowStatus
    <3> QED
      BY <3>1 DEF Queue!Verdicts
  <2>2. CASE Exists(e)
    <3>1. verdict \in IF w.outcome = "accepted" THEN {"delivered"} ELSE {"open", "failed"}
      BY <1>2, <1>3, <2>2, SetOpVerdict DEF QueueStatus
    <3>2. QueueStatus[e] # "withdrawn"
      BY <1>2, <1>7, <2>2 DEF Exists, QueueStatus, RowStatus, Row, Statuses
    <3> QED
      BY <1>5, <3>1, <3>2 DEF Queue!Verdicts
  <2> QED
    BY <2>1, <2>2
<1>10. QueueStatus' = [QueueStatus EXCEPT ![e] = verdict]
  <2>1. \A f \in Events : QueueStatus'[f] = IF f = e THEN verdict ELSE QueueStatus[f]
    BY <1>3 DEF QueueStatus
  <2> QED
    BY <1>2, <2>1, QueueViews
<1>11. verdict \in Queue!Statuses /\ c[2] = e
  BY <1>2 DEF QueueStatus, RowStatus, Queue!Statuses
<1>12. QueueClaim[c] \in {"accepted", "refused"}
  BY <1>5
<1> HIDE DEF verdict, c
<1>13. Queue!Report(c, verdict)
  BY <1>1, <1>6, <1>8, <1>9, <1>10, <1>11, <1>12 DEF Queue!Report
<1> QED
  BY <1>2, <1>11, <1>13 DEF Queue!Next

\* Two steps of a processor that decide nothing: an event is skipped or cannot be
\* recorded, and is forgotten; and the invocation is logged.
LEMMA SkipGivesUp ==
    ASSUME IInv, NEW i \in Instances, NEW b \in batch[i], SkipEvent(i, b)
    PROVE  Queue!Next
<1>1. /\ rows' = rows /\ doubted' = doubted /\ work' = work /\ work[i] = {}
      /\ batch' = [batch EXCEPT ![i] = @ \ {b}]
  BY DEF SkipEvent, TakesUp, dbVars, histVars
<1>2. b.id \in Events
  BY DEF IInv, TypeOK, Copies
<1>3. batch'[i] = batch[i] \ {b} /\ \A j \in Instances : j # i => batch'[j] = batch[j]
  BY <1>1 DEF IInv, TypeOK
<1>4. \A c \in QueueClaims : c # <<i, b.id>> => QueueClaim'[c] = QueueClaim[c]
  BY <1>1, <1>2, <1>3, OtherClaims
<1>5. <<i, b.id>> \in QueueClaims /\ QueueClaim[<<i, b.id>>] = "claimed"
      /\ QueueClaim'[<<i, b.id>>] \in {"claimed", "none"}
  BY <1>1, <1>2 DEF QueueClaims, QueueClaim, ClaimOn
<1>6. \A c \in QueueClaims : QueueClaim'[c] \in {QueueClaim[c], "none"}
  BY <1>4, <1>5
<1> QED
  BY <1>1, <1>6, RowsKept, QueueGivesUp

LEMMA FailureGivesUp ==
    ASSUME IInv, NEW i \in Instances, NEW w \in work[i], ProcessingFails(i, w)
    PROVE  Queue!Next
<1>1. /\ rows' = rows /\ doubted' = doubted /\ batch' = batch
      /\ work' = [work EXCEPT ![i] = {}]
  BY DEF ProcessingFails, dbVars, histVars
<1>2. w.id \in Events /\ work[i] = {w} /\ \A c \in batch[i] : c.id # w.id
  BY AtWork
<1>3. work'[i] = {} /\ \A j \in Instances : j # i => work'[j] = work[j]
  BY <1>1 DEF IInv, TypeOK
<1>4. \A c \in QueueClaims : c # <<i, w.id>> => QueueClaim'[c] = QueueClaim[c]
  BY <1>1, <1>2, <1>3, OtherClaims
<1>5. <<i, w.id>> \in QueueClaims /\ QueueClaim'[<<i, w.id>>] = "none"
  BY <1>1, <1>2, <1>3 DEF QueueClaims, QueueClaim, ClaimOn
<1>6. \A c \in QueueClaims : QueueClaim'[c] \in {QueueClaim[c], "none"}
  BY <1>4, <1>5
<1> QED
  BY <1>1, <1>6, RowsKept, QueueGivesUp

LEMMA LogKeepsClaim ==
    ASSUME IInv, NEW i \in Instances, NEW w \in work[i], InsertInvocation(i, w)
    PROVE  Queue!Next
<1> DEFINE v == [w EXCEPT !.logged = TRUE]
<1>1. /\ rows' = [rows EXCEPT ![w.id].tries = @ + 1] /\ doubted' = doubted /\ batch' = batch
      /\ work' = [work EXCEPT ![i] = {v}]
  BY DEF InsertInvocation, histVars
<1>2. w \in Works /\ w.id \in Events /\ work[i] = {w}
  BY AtWork
<1>3. v.id = w.id /\ v.outcome = w.outcome
  BY <1>2 DEF Works
<1>4. work'[i] = {v} /\ \A j \in Instances : j # i => work'[j] = work[j]
  BY <1>1 DEF IInv, TypeOK
<1> HIDE DEF v
<1>5. \A c \in QueueClaims : c # <<i, w.id>> => QueueClaim'[c] = QueueClaim[c]
  BY <1>1, <1>2, <1>3, <1>4, OtherClaims
<1>6. QueueClaim'[<<i, w.id>>] = QueueClaim[<<i, w.id>>]
  <2>1. <<i, w.id>> \in QueueClaims
    BY <1>2, QueueViews
  <2>2. \A f \in Events : ClaimOn(f, batch'[i], work'[i]) = ClaimOn(f, batch[i], work[i])
    BY <1>1, <1>2, <1>3, <1>4 DEF ClaimOn
  <2> QED
    BY <1>2, <2>1, <2>2 DEF QueueClaim
<1>7. \A c \in QueueClaims : QueueClaim'[c] \in {QueueClaim[c], "none"}
  BY <1>5, <1>6
<1>8. \A e \in Events : rows'[e].status = rows[e].status
  BY <1>1, <1>2 DEF IInv, TypeOK, Row
<1>9. \A e \in Events : QueueStatus'[e] = QueueStatus[e]
  BY <1>8 DEF QueueStatus, RowStatus
<1>10. QueueStatus' = QueueStatus
  BY <1>9, QueueViews
<1> QED
  BY <1>1, <1>7, <1>10, QueueGivesUp

LEMMA ForgetGivesUp ==
    ASSUME IInv, NEW i \in Instances, Crash(i) \/ StopThread(i)
    PROVE  Queue!Next
<1>1. /\ rows' = rows /\ doubted' = doubted
      /\ batch' = [batch EXCEPT ![i] = {}] /\ work' = [work EXCEPT ![i] = {}]
  BY DEF Crash, StopThread, Forget, dbVars, histVars
<1>2. /\ batch'[i] = {} /\ work'[i] = {}
      /\ \A j \in Instances : j # i => batch'[j] = batch[j] /\ work'[j] = work[j]
  BY <1>1 DEF IInv, TypeOK
<1>3. \A c \in QueueClaims : QueueClaim'[c] \in {QueueClaim[c], "none"}
  <2> SUFFICES ASSUME NEW c \in QueueClaims PROVE QueueClaim'[c] \in {QueueClaim[c], "none"}
    OBVIOUS
  <2>1. CASE c[1] = i
    BY <1>2, <2>1 DEF QueueClaim, ClaimOn
  <2>2. CASE c[1] # i
    BY <1>2, <2>2, QueueViews DEF QueueClaim
  <2> QED
    BY <2>1, <2>2
<1> QED
  BY <1>1, <1>3, RowsKept, QueueGivesUp

\* Steps that write neither rows nor copies.
LEMMA SilentStep ==
    ASSUME rows' = rows, batch' = batch, work' = work, doubted' = doubted
    PROVE  Queue!Next
BY RowsKept, MemoryKept, QueueGivesUp

LEMMA RetryDueSilent ==
    ASSUME IInv, NEW e \in Events, RetryDue(e)
    PROVE  Queue!Next
<1>1. \A f \in Events : rows'[f].status = rows[f].status
  BY DEF RetryDue, IInv, TypeOK, Row
<1>2. \A f \in Events : QueueStatus'[f] = QueueStatus[f]
  BY <1>1 DEF QueueStatus, RowStatus
<1>3. QueueStatus' = QueueStatus
  BY <1>2, QueueViews
<1>4. batch' = batch /\ work' = work /\ doubted' = doubted
  BY DEF RetryDue, procVars, histVars
<1> QED
  BY <1>3, <1>4, MemoryKept, QueueGivesUp

LEMMA CreatePuts ==
    ASSUME IInv, NEW e \in OneOffs, NEW t \in Times, CreateScheduledEvent(e, t)
    PROVE  Queue!Next
<1>1. /\ e \in Events /\ rows[e].status = "none" /\ rows' = [rows EXCEPT ![e] = NewRow(t)]
      /\ batch' = batch /\ work' = work /\ doubted' = doubted
  BY DEF CreateScheduledEvent, Events, procVars, histVars
<1>2. rows'[e] = NewRow(t) /\ \A f \in Events \ {e} : rows'[f] = rows[f]
  BY <1>1 DEF IInv, TypeOK
<1>3. rows'[e].status = "scheduled"
  BY <1>2 DEF NewRow
<1>4. {e} \in SUBSET Events
  BY <1>1
<1> QED
  BY <1>1, <1>2, <1>3, <1>4, QueuePuts

LEMMA QueueStep ==
    ASSUME IInv, FetchedFirst, [Next]_vars
    PROVE  Queue!Next
<1> USE DEF procVars, runVars, histVars, budget, dbVars
<1>1. ASSUME NEW i \in Instances, ProcessorStep(i)
      PROVE  Queue!Next
  <2>1. CASE \/ BeginIteration(i) \/ GetScheduledEventsFails(i)
             \/ ProcessCronEvents(i) \/ ProcessOneOffEvents(i) \/ EndIteration(i)
    BY <2>1, SilentStep DEF BeginIteration, GetScheduledEventsFails, ProcessCronEvents,
                            ProcessOneOffEvents, EndIteration
  <2> QED
    BY <1>1, <2>1, FetchClaims, TakeUpAnswers, SkipGivesUp, LogKeepsClaim, SetOpReports,
       FailureGivesUp DEF ProcessorStep
<1>2. ASSUME NEW i \in Instances, Start(i) \/ ShutdownUnlocks(i)
      PROVE  Queue!Next
  <2>1. batch' = batch /\ work' = work /\ (UnlockAll \/ UnlockAllFails)
    BY <1>2 DEF Start, ShutdownUnlocks
  <2> QED
    BY <2>1, UnlockDoubts, SilentStep DEF UnlockAllFails
<1>3. ASSUME NEW i \in Instances, InsertCronEventsFor(i)
      PROVE  Queue!Next
  BY <1>3, InsertPuts DEF InsertCronEventsFor
<1>4. ASSUME NEW i \in Instances, InstanceStep(i)
      PROVE  Queue!Next
  BY <1>1, <1>2, <1>3, <1>4, ForgetGivesUp, SilentStep
     DEF InstanceStep, GetDeprivedCronTriggerStats, GeneratorFails, BeginShutdown, Poll, SyncCache
<1>5. ASSUME NEW cmd \in command, CommandDrops(cmd)
      PROVE  Queue!Next
  BY <1>5, DeleteWithdraws DEF CommandDrops, DropFutureCronEvents
<1>6. ASSUME NEW cmd \in command, CommandInserts(cmd)
      PROVE  Queue!Next
  BY <1>6, InsertPuts DEF CommandInserts
<1>7. ASSUME NEW e \in Events, DeleteScheduledEvent(e)
      PROVE  Queue!Next
  <2>1. /\ Exists(e) /\ rows' = [rows EXCEPT ![e].status = "deleted"]
        /\ batch' = batch /\ work' = work /\ doubted' = doubted
    BY <1>7 DEF DeleteScheduledEvent
  <2>2. \A f \in Events : \/ rows'[f] = rows[f]
                          \/ Exists(f) /\ rows'[f] = [rows[f] EXCEPT !.status = "deleted"]
    BY <2>1 DEF IInv, TypeOK
  <2> QED
    BY <2>1, <2>2, DeleteWithdraws
<1>8. CASE UserStep
  BY <1>5, <1>6, <1>7, <1>8, CreatePuts, SilentStep
     DEF UserStep, BeginCommand, CommandCommits, CommandFails
<1>9. CASE ClockStep
  BY <1>9, RetryDueSilent, SilentStep DEF ClockStep, Tick
<1>10. CASE UNCHANGED vars
  BY <1>10, SilentStep DEF vars
<1> QED
  BY <1>4, <1>8, <1>9, <1>10 DEF Next

\* ScheduledTriggers implements DeliveryQueue: through generators, processors, commands,
\* starts and shutdowns, nobody takes an event that is taken or decided.
THEOREM QueueImplemented == Spec => ImplementsQueue
<1>1. Init => Queue!Init
  <2> SUFFICES ASSUME Init PROVE Queue!Init
    OBVIOUS
  <2>1. \A e \in Events : QueueStatus[e] = "absent"
    BY DEF Init, NoRow, NewRow, QueueStatus, RowStatus
  <2>2. \A c \in QueueClaims : QueueClaim[c] = "none"
    BY DEF Init, QueueClaims, QueueClaim, ClaimOn
  <2> QED
    BY <2>1, <2>2, QueueViews DEF Init, Queue!Init
<1>2. IInv /\ FetchedFirst /\ [Next]_vars => Queue!Next
  BY QueueStep
<1> QED
  BY <1>1, <1>2, InvariantHolds, FetchedFirstHolds, PTL
  DEF Spec, ImplementsQueue, Queue!Spec

================================================================================
