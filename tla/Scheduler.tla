------------------------------ MODULE Scheduler ------------------------------
(***************************************************************************)
(* The scheduler of one-time and recurring tasks                           *)
(* (server/internal/scheduler/scheduler.go), the order in which main       *)
(* starts it, and the form that changes a schedule under it.  Every 15 s   *)
(* it reads the pending scheduled tasks into a map and pushes the one-time *)
(* ones whose time has come; a recurring task gets a cron entry, whose     *)
(* goroutine pushes the id each time it fires.  Nothing ever removes a     *)
(* cron entry, and the map keeps the copy of a row it has once read.       *)
(*                                                                         *)
(* The other side of the queue is TaskDispatch; here it is what a task     *)
(* meets there: an id whose row is pending is sent, any other forgotten.   *)
(***************************************************************************)
EXTENDS TaskStore, Naturals, Sequences

CONSTANTS
  QueueCap,     \* capacity of taskQueue
  Creations,    \* the schedule types each task can be created with
  Expressions,  \* the cron expressions the forms are given
  BadCron,      \* those of them that do not parse
  NoExpression, \* a NULL cron_expression
  MaxTime,      \* time runs from 0 to MaxTime
  MaxFirings,   \* bound on the goroutines of one entry that wait to push
  MaxEdits,     \* bound on changes of a schedule
  MaxRestarts,  \* bound on the ends of the server process
  MaxErrors     \* bound on failed queries

ASSUME SchedulerAssumption ==
  /\ QueueCap \in Nat \ {0}
  /\ Creations \in [Tasks -> SUBSET {"NONE", "ONCE", "RECURRING"}]
  /\ BadCron \subseteq Expressions /\ NoExpression \notin Expressions
  /\ MaxTime \in Nat /\ MaxFirings \in Nat /\ MaxEdits \in Nat
  /\ MaxRestarts \in Nat /\ MaxErrors \in Nat

VARIABLES
  scheduledAt,  \* tasks.scheduled_at
  expression,   \* tasks.cron_expression
  now,          \* the clock
  taskQueue,    \* the ids in the channel
  tasks,        \* the map of the scheduler: the copies of rows it keeps
  cron,         \* the cron entries of each task: the expressions they were made with
  firing,       \* how many goroutines of its entries wait to push
  loop,         \* the scheduler's own goroutine; in main until serving
  serving,      \* main has started the servers: forms, streams and cron run
  times,        \* history: the times each task has been planned for
  early,        \* history: one-time tasks sent before their time
  edits, restarts, errors  \* how much of the bounds is used

process == <<taskQueue, tasks, cron, firing, loop, serving>>
rows == <<storeVars, scheduledAt, expression, times>>
bounds == <<edits, restarts, errors>>
vars == <<rows, process, now, early, bounds>>

-----------------------------------------------------------------------------
Times == 0..MaxTime

\* A copy in the map: absent, or of a row that was pending then, with its time.
NoCopy == [schedule |-> "absent", at |-> 0]
Copy == [schedule : ScheduleTypes \cup {"absent"}, at : Times]

\* todo: the due copies of this pass that are still to be pushed.
Loop == [pc : {"down", "wait", "load", "check"}, todo : SUBSET Tasks]
At(pc) == [pc |-> pc, todo |-> {}]

TypeOK ==
  /\ StoreTypeOK
  /\ scheduledAt \in [Tasks -> Times]
  /\ now \in Times
  /\ taskQueue \in Seq(Tasks)
  /\ Len(taskQueue) <= QueueCap
  /\ tasks \in [Tasks -> Copy]
  /\ expression \in [Tasks -> Expressions \cup {NoExpression}]
  /\ cron \in [Tasks -> Seq(Expressions)]
  /\ firing \in [Tasks -> 0..MaxFirings]
  /\ loop \in Loop
  /\ serving \in BOOLEAN
  /\ times \in [Tasks -> SUBSET Times]
  /\ early \subseteq Tasks
  /\ edits \in 0..MaxEdits /\ restarts \in 0..MaxRestarts /\ errors \in 0..MaxErrors

\* The first start, on an empty database.
Init ==
  /\ StoreInit
  /\ scheduledAt = [t \in Tasks |-> 0]
  /\ expression = [t \in Tasks |-> NoExpression]
  /\ now = 0
  /\ taskQueue = <<>>
  /\ tasks = [t \in Tasks |-> NoCopy]
  /\ cron = [t \in Tasks |-> <<>>]
  /\ firing = [t \in Tasks |-> 0]
  /\ loop = At("load")
  /\ serving = FALSE
  /\ times = [t \in Tasks |-> {}]
  /\ early = {}
  /\ edits = 0 /\ restarts = 0 /\ errors = 0

HasRoom == Len(taskQueue) < QueueCap

-----------------------------------------------------------------------------
(* The forms: a one-time task gets any time that is not over yet, a recurring one  *)
(* any expression that is not empty; nobody parses it.  The column of another type *)
(* becomes NULL.                                                                   *)

PlannedFor(t, schedule) ==
  /\ IF schedule = "ONCE"
     THEN \E at \in now..MaxTime :
            /\ scheduledAt' = [scheduledAt EXCEPT ![t] = at]
            /\ times' = [times EXCEPT ![t] = @ \cup {at}]
     ELSE UNCHANGED <<scheduledAt, times>>
  /\ \E e \in IF schedule = "RECURRING" THEN Expressions ELSE {NoExpression} :
       expression' = [expression EXCEPT ![t] = e]

Create(t) ==
  /\ serving
  /\ \E schedule \in Creations[t] :
       CreateTask(t, schedule, NoTask) /\ PlannedFor(t, schedule)
  /\ UNCHANGED <<process, now, early, bounds>>

\* Only the row changes; the scheduler is not told.
Reschedule(t) ==
  /\ serving
  /\ edits < MaxEdits
  /\ edits' = edits + 1
  /\ \E schedule \in {"NONE", "ONCE", "RECURRING"} :
       UpdateTaskSchedule(t, schedule) /\ PlannedFor(t, schedule)
  /\ UNCHANGED <<process, now, early, restarts, errors>>

-----------------------------------------------------------------------------
(* The scheduler's goroutine. *)

Tick ==
  /\ serving
  /\ loop.pc = "wait"
  /\ loop' = At("load")
  /\ UNCHANGED <<rows, taskQueue, tasks, cron, firing, serving, now, early, bounds>>

GetScheduledTasks_AnyType == {t \in Tasks : task[t].status = "pending"}

GetScheduledTasks ==
  {t \in Tasks : /\ task[t].schedule \in {"ONCE", "RECURRING"}
                 /\ task[t].status = "pending"}

NewRecurring_Again ==
  {t \in GetScheduledTasks : /\ task[t].schedule = "RECURRING"
                             /\ expression[t] \notin BadCron}

NewRecurring_AtStart ==
  {t \in GetScheduledTasks : /\ task[t].schedule = "RECURRING"
                             /\ tasks[t] = NoCopy
                             /\ expression[t] \notin BadCron
                             /\ ~ serving}

\* A recurring task that is in the map is taken for registered, whatever its copy is
\* of and whatever expression it was registered with.  An expression that does not
\* parse makes no entry and no copy, so every refresh tries it again.
NewRecurring ==
  {t \in GetScheduledTasks : /\ task[t].schedule = "RECURRING"
                             /\ tasks[t] = NoCopy
                             /\ expression[t] \notin BadCron}

Load_KeepsCopies ==
  /\ loop.pc = "load"
  /\ tasks' = [t \in Tasks |->
       IF t \in GetScheduledTasks /\ expression[t] \notin BadCron /\ tasks[t] = NoCopy
       THEN [schedule |-> task[t].schedule,
             at |-> IF task[t].schedule = "ONCE" THEN scheduledAt[t] ELSE 0]
       ELSE tasks[t]]
  /\ cron' = [t \in Tasks |->
       IF t \in NewRecurring THEN Append(cron[t], expression[t]) ELSE cron[t]]
  /\ loop' = At("check")
  /\ UNCHANGED <<rows, taskQueue, firing, serving, now, early, bounds>>

\* add, AddRecurring: a one-time row replaces the copy, a new recurring one is
\* registered as well.  Only pending rows are read.
LoadScheduledTasks ==
  /\ loop.pc = "load"
  /\ tasks' = [t \in Tasks |->
       IF t \in NewRecurring \/ (t \in GetScheduledTasks /\ task[t].schedule # "RECURRING")
       THEN [schedule |-> task[t].schedule,
             at |-> IF task[t].schedule = "ONCE" THEN scheduledAt[t] ELSE 0]
       ELSE tasks[t]]
  /\ cron' = [t \in Tasks |->
       IF t \in NewRecurring THEN Append(cron[t], expression[t]) ELSE cron[t]]
  /\ loop' = At("check")
  /\ UNCHANGED <<rows, taskQueue, firing, serving, now, early, bounds>>

\* A refresh goes on with the map as it is; at the start the process exits.
LoadFails ==
  /\ loop.pc = "load"
  /\ errors < MaxErrors
  /\ errors' = errors + 1
  /\ loop' = At(IF serving THEN "check" ELSE "down")
  /\ UNCHANGED <<rows, taskQueue, tasks, cron, firing, serving, now, early,
                 edits, restarts>>

Due_Whenever == {t \in Tasks : tasks[t].schedule = "ONCE"}

\* The one-time copies whose time has come, by the clock read before the pass.
Due == {t \in Tasks : tasks[t].schedule = "ONCE" /\ tasks[t].at <= now}

\* The pass over the map ends where it began: in main, which goes on to start cron
\* and the servers, or in the goroutine.
CheckAndQueueDueTasks ==
  /\ loop.pc = "check"
  /\ IF loop.todo = {} /\ Due = {}
     THEN /\ loop' = At("wait")
          /\ serving' = TRUE
     ELSE /\ loop.todo = {}
          /\ loop' = [loop EXCEPT !.todo = Due]
          /\ UNCHANGED serving
  /\ UNCHANGED <<rows, taskQueue, tasks, cron, firing, now, early, bounds>>

QueueDue_Unbounded(t) ==
  /\ loop.pc = "check"
  /\ t \in loop.todo
  /\ taskQueue' = Append(taskQueue, t)
  /\ tasks' = [tasks EXCEPT ![t] = NoCopy]
  /\ loop' = IF loop.todo = {t} THEN At("wait") ELSE [loop EXCEPT !.todo = @ \ {t}]
  /\ serving' = (serving \/ loop.todo = {t})
  /\ UNCHANGED <<rows, cron, firing, now, early, bounds>>

\* The push blocks while the queue is full; then the copy is deleted.
QueueDue(t) ==
  /\ loop.pc = "check"
  /\ t \in loop.todo
  /\ HasRoom
  /\ taskQueue' = Append(taskQueue, t)
  /\ tasks' = [tasks EXCEPT ![t] = NoCopy]
  /\ loop' = IF loop.todo = {t} THEN At("wait") ELSE [loop EXCEPT !.todo = @ \ {t}]
  /\ serving' = (serving \/ loop.todo = {t})
  /\ UNCHANGED <<rows, cron, firing, now, early, bounds>>

-----------------------------------------------------------------------------
(* The cron library runs each firing of an entry in a goroutine of its own. *)

Fire(t) ==
  /\ serving
  /\ cron[t] # <<>>
  /\ firing[t] < MaxFirings
  /\ firing' = [firing EXCEPT ![t] = @ + 1]
  /\ UNCHANGED <<rows, taskQueue, tasks, cron, loop, serving, now, early, bounds>>

QueueRecurring(t) ==
  /\ firing[t] > 0
  /\ HasRoom
  /\ taskQueue' = Append(taskQueue, t)
  /\ firing' = [firing EXCEPT ![t] = @ - 1]
  /\ UNCHANGED <<rows, tasks, cron, loop, serving, now, early, bounds>>

-----------------------------------------------------------------------------
(* What the ids meet in TaskDispatch, and a result. *)

Dispatch ==
  /\ serving
  /\ taskQueue # <<>>
  /\ taskQueue' = Tail(taskQueue)
  /\ LET t == Head(taskQueue) IN
       /\ UpdateTaskStatusIfCurrent(t, "pending", "assigned")
       /\ early' = IF /\ task[t].status = "pending" /\ task[t].schedule = "ONCE"
                      /\ now < scheduledAt[t]
                   THEN early \cup {t} ELSE early
  /\ UNCHANGED <<results, held, scheduledAt, expression, times, tasks, cron, firing, loop, serving,
                 now, bounds>>

Finish(t) ==
  /\ serving
  /\ task[t].status = "assigned"
  /\ MarkTaskCompleted(t, IF task[t].schedule = "RECURRING" THEN "pending" ELSE "completed")
  /\ UNCHANGED <<results, held, scheduledAt, expression, times, process, now, early, bounds>>

-----------------------------------------------------------------------------
Advance ==
  /\ now < MaxTime
  /\ now' = now + 1
  /\ UNCHANGED <<rows, process, early, bounds>>

\* The process ends at any moment: map, entries, queue and goroutines are gone.
Crash ==
  /\ restarts < MaxRestarts
  /\ restarts' = restarts + 1
  /\ loop' = At("down")
  /\ serving' = FALSE
  /\ taskQueue' = <<>>
  /\ tasks' = [t \in Tasks |-> NoCopy]
  /\ cron' = [t \in Tasks |-> <<>>]
  /\ firing' = [t \in Tasks |-> 0]
  /\ UNCHANGED <<rows, now, early, edits, errors>>

Restart ==
  /\ loop.pc = "down"
  /\ loop' = At("load")
  /\ UNCHANGED <<rows, taskQueue, tasks, cron, firing, serving, now, early, bounds>>

Next ==
  \/ \E t \in Tasks : Create(t)
  \/ \E t \in Tasks : Reschedule(t)
  \/ Tick
  \/ LoadScheduledTasks
  \/ LoadFails
  \/ CheckAndQueueDueTasks
  \/ \E t \in Tasks : QueueDue(t)
  \/ \E t \in Tasks : Fire(t)
  \/ \E t \in Tasks : QueueRecurring(t)
  \/ Dispatch
  \/ \E t \in Tasks : Finish(t)
  \/ Advance
  \/ Crash
  \/ Restart

Spec == Init /\ [][Next]_vars

\* The ticker and the goroutines run, time passes, the queue is served (which takes
\* a stream whose handler reads it), a process that has ended is started again.  A
\* goroutine that waits to push waits in the channel's FIFO of senders.
FairSpec ==
  /\ Spec
  /\ WF_vars(Tick) /\ WF_vars(LoadScheduledTasks) /\ WF_vars(CheckAndQueueDueTasks)
  /\ \A t \in Tasks : SF_vars(QueueDue(t))
  /\ WF_vars(Dispatch) /\ WF_vars(Advance) /\ WF_vars(Restart)

-----------------------------------------------------------------------------
(* Properties. *)

\* The scheduler pushes nothing but ids of tasks that have had a schedule: that is
\* what TaskDispatch assumes of it (SchedulerQueues).
OnlyScheduledQueued ==
  \A t \in Tasks :
    \/ tasks[t] # NoCopy
    \/ cron[t] # <<>>
    \/ firing[t] > 0
    \/ \E k \in 1..Len(taskQueue) : taskQueue[k] = t
    => held[t] \cap {"ONCE", "RECURRING"} # {}

\* A one-time task leaves before its time only if it was edited: it has a cron entry
\* from the time it was recurring, or a copy in the map with an earlier time it had.
EarlyOnlyAfterEdit ==
  \A t \in early :
    "RECURRING" \in held[t] \/ \E before, after \in times[t] : before < after

\* A recurring task is registered once; for a second entry it must have been one-time
\* in between (whose push takes the copy out of the map).
RegisteredOnce ==
  \A t \in Tasks : Len(cron[t]) > 1 => "ONCE" \in held[t]

\* Once its time has come a one-time task is sent, over crashes, failed refreshes and
\* changes of mind, unless it is changed to something else.
OnceSent ==
  \A t \in Tasks :
    task[t].status = "pending" /\ task[t].schedule = "ONCE" /\ scheduledAt[t] <= now
      ~> task[t].status # "pending" \/ task[t].schedule # "ONCE" \/ scheduledAt[t] > now

\* A pending task that recurs by expression e.
Recurs(t, e) ==
  task[t].status = "pending" /\ task[t].schedule = "RECURRING" /\ expression[t] = e

Registered(t, e) == \E k \in 1..Len(cron[t]) : cron[t][k] = e

\* The refresh takes t for registered, because its copy is of a recurring row, and the
\* entry that went with that copy is for another expression.
HidesBehindCopy(t, e) ==
  tasks[t].schedule = "RECURRING" /\ cron[t] # <<>> /\ cron[t][Len(cron[t])] # e

\* A pending recurring task gets a cron entry for the expression its row has, if that
\* parses, over restarts, failed refreshes and changes of its type - unless the row's
\* expression was changed while the map held a recurring copy of it: see
\* RecurringFollowsSchedule.
RecurringRegistered ==
  \A t \in Tasks, e \in Expressions \ BadCron :
    Recurs(t, e) ~> Registered(t, e) \/ ~ Recurs(t, e) \/ HidesBehindCopy(t, e)

\* "Recurring. The task will be executed periodically according to the specified
\* schedule." (docs/guide.en.md:225): as long as a pending task recurs by a valid
\* expression, there is an entry for it some time.
RecurringFollowsSchedule ==
  \A t \in Tasks, e \in Expressions \ BadCron :
    Recurs(t, e) ~> Registered(t, e) \/ ~ Recurs(t, e)
=============================================================================
