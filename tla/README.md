# Agents management: verification project

TLA+ models of the server and agent in this repository (`server/`, `agent/`), checked by
TLC on small instances, with theorems proved by TLAPS for every value of the constants.
The server hands tasks to agents over gRPC streams, collects their results, starts
scheduled and chained tasks, and turns alerts in the output of tasks into notifications.

## 1. Inventory

| Component | State | Operations | What makes it correct |
|---|---|---|---|
| Task store (`storage/postgres.go`, tables `tasks`, `task_results`) | rows with status, schedule, prerequisite; results | one SQL statement per operation; two updates are conditional on the status (`...IfCurrent`), `MarkTaskCompleted` and `UpdateTaskSchedule` are not | the status column means what it says |
| Task dispatch (`server.go`, `AssignTasks` ... `sendTaskToAgent`) | one channel `taskQueue` of ids for all agents; per stream a handler goroutine with its local slices | tick: take the ids that are there, send one's own, push the others back, poll; acknowledge | commands reach only their agent, once per stream; ids are not lost; every handler makes progress |
| Results (`SubmitTaskResult`, `triggerChainedTasks`) | one goroutine per call, with a copy of the row | save result, write status, alert, push chained tasks | a final status stays; chained tasks follow a success, and only then |
| Agent listener (`agent/internal/agent.go`) | one stream, one goroutine per command | acknowledge, execute, report once, reconnect after 15 s | - |
| Scheduler (`scheduler/scheduler.go`) | map of copies of rows, cron entries that are never removed | refresh every 15 s, push due one-time tasks, push on each cron firing | on time, by the schedule of the row, nothing forgotten over a restart |
| Web console (`web/handlers.go`, `web/server.go`) | one goroutine per request, with the roles it was authenticated with and the rows it has read | create tasks for several agents, change schedules, users, roles, policies and bindings, import and export, toggle and delete agents, pages | checks hold when the write happens; what a loop has done when it stops is known |
| Notifications (`notification_*.go`) | events, deliveries | store, deduplicate, route, send, write, retry | a message arrives, and twice only for a reason; duplicates are quiet, first events are not |
| Presence (`RegisterAgent`, `SendHeartbeat`, `agent_status_service.go`, toggle) | status and time of the last heartbeat | register, beat, sweep, toggle, delete | an agent that beats is not offline, a dead one does not stay online |
| Event broker (`events/events.go`) and browser streams | set of client channels, a channel of one | subscribe, unsubscribe, broadcast, stop | nobody waits for a slow browser; what a page shows is true unless it missed an event |
| Log streams (`StreamLogs`, `pipeLogs`) | a buffer per stream | append, flush at 100, flush at the end | a finished task shows everything its command wrote, unless a batch was lost |
| Files and packages (`UploadTaskFile`, `getTaskPackage`, agent file and Python handlers) | files | chunks, truncation, clean-up | a good file is not replaced by half of one |
| Agent identity and update (`agent/internal/agent.go`) | id file, binary | read or create id; verify, replace, restart | one id per host; a binary is whole |
| Access (`auth/auth.go`, users, roles) | users, roles, roles of users; no sessions, every request is authenticated | authenticate, change roles and status, check permissions | one administrator remains |
| Command policies (`exec_policies.go`) | policies, bindings | validate, merge, interpolate, import | a command runs only with the parameters its policy allows |

How they interact: the forms and the store communicate through rows; the scheduler, the
result calls and the stream handlers share `taskQueue` (capacity 100, all sends block); a
handler and its agent share a stream; an agent's result calls are independent unary calls on
the same connection; a result call runs the alert pipeline and broadcasts to browsers before
it triggers chained tasks; the retry processor and the result calls share the delivery rows.
Heartbeats, registration, the sweep and the console share the status column of agents;
requests to the console share the tables of users, policies and bindings, with the tasks
they create; a command's readers share a log stream, two commands may share a file.

What is hard: everything between a database read and the write that depends on it; one
queue emptied and refilled by several consumers and blocked producers; the two halves of
"send, then write that it was sent"; reconnecting agents whose old handler still runs; a
restart between any two steps. `PROJECT.json` lists the places under `hazards`.

## 2. Modules

| Module | Models | Status |
|---|---|---|
| `TaskStore` | `tasks` and `task_results`, each repository operation one atomic update | done |
| `TaskLifecycle` | abstract specification: what the status of a task may do | done |
| `TaskDispatch` | streams, queue, sends, acknowledgements, result calls, chaining, failures; EXTENDS `TaskStore` | done |
| `TaskDispatchProofs` | theorems about `TaskDispatch` | done |
| `Scheduler` | refresh, map, cron entries, start-up order; EXTENDS `TaskStore` | done |
| `Notifications` | events, deduplication, routes, deliveries, retries | done |
| `MC...` | instances for TLC | done |
| `SchedulerProofs`, `NotificationsProofs` | theorems about `Scheduler` and `Notifications` | done |
| `Access` | users, roles, authentication, permissions | done |
| `ExecPolicy` | policies, bindings, foreign keys; validation, merge and interpolation; EXTENDS `Access` | done |
| `Console` | concurrent requests to the web console; EXTENDS `ExecPolicy` | done |
| `ConsoleProofs` | theorems about requests to the console in `Console` | done |
| `PolicyProofs` | theorems about command policies in `Console`; EXTENDS `ConsoleProofs` | done |
| `Presence` | id file, registration, heartbeats, sweep, toggle, deletion | done |
| `LiveView` | broadcasts, broker, browsers | done |
| `AgentRuntime` | what a command does: files, logs, results, updates; EXTENDS `Presence`, `LiveView` | done |
| `Fleet` | the three together with the page of a task, plans and budgets | done |
| `FleetProofs` | theorems about agents in `Fleet` | done |
| `RuntimeProofs` | theorems about commands, files and logs in `Fleet`; EXTENDS `FleetProofs` | done |
| `LiveProofs` | theorems about pages and badges in `Fleet`; EXTENDS `RuntimeProofs` | done |

The order follows what a failure costs: task dispatch decides whether commands run at all,
then what starts them (scheduler), then what tells somebody about them (notifications),
then who may do what (console), then what a command does and who sees it (fleet). Abstract
specification: `TaskLifecycle`.

### TaskStore, TaskLifecycle, TaskDispatch

`task[t]` is a row: `status` (`"absent"` before it exists), `schedule` (`"NONE"` is NULL),
`prerequisite`. `results` is the set of recorded results. `held` is a history variable with
the schedule types a task has had; `OneShot(t)` says it has never been RECURRING.

`handler[s]` is the goroutine of `AssignTasks` on stream `s`. Its `pc` follows the code:
`select` (the select loop), `receive`/`load`/`send`/`record` (one round of
`dispatchQueuedTasks` and `sendTaskToAgent`), `requeue` (the pushes of deferred ids), `poll`
(then `send`/`record` again for the polled snapshot). `depth`, `cur`, `deferred`, `snap` are
the local variables. A database call and a channel operation are separate steps; a database
call made with the stream's context may fail when the connection is gone or when the
database does.

`attempt[i]` follows one command: on the wire, running on the agent, then its result call:
`read` (GetTaskByID), `save` (CreateTaskResult), `mark` (MarkTaskCompleted), `chain`
(GetTasksByPrerequisite), `push` (one blocking push per chained task), `done`. `lost` is a
command or a call that comes to nothing. `ack` is the PROCESSING acknowledgement; RECEIVED
is ignored by the server and left out.

Failures: a connection breaks, an agent's process ends (also by the panic on a closed
channel), the server's process ends and starts again, a database call fails. A command in
flight on a broken connection may be lost or may already have its goroutine; a result call
whose connection breaks may be cancelled at its next database call. An old handler stays
until it notices, and the agent may open another stream meanwhile: two streams of one agent
are two elements of `Streams`.

`SchedulerQueues` is the scheduler as seen from here: it may push the id of a task whenever
that task has ever been ONCE or RECURRING. `Scheduler!OnlyScheduledQueued` shows that the
scheduler does no more.

`TaskLifecycle` says what a reader of the status column may conclude: assigned means a
command was sent; running follows assigned; a final status is that of a recorded result;
back to pending happens only to tasks that have been recurring and have a result.
`TaskDispatch` implements it (`ImplementsLifecycle`).

### Scheduler

`tasks` is the map of copies, `cron[t]` the cron entries of a task, each with the expression it
was made with, `expression[t]` the column the forms write, `firing[t]` the goroutines that wait to push, `loop` the scheduler's goroutine (in `main` until `serving`).
`QueueDue` is one blocking push of the pass with the deletion that follows. `Dispatch` and
`Finish` stand for what an id meets in `TaskDispatch`: a row that is pending is sent, a
result makes a recurring task pending again. Time is a small counter; cron fires at any time.
An expression is a model value, and those in `BadCron` do not parse: the form accepts them
and `AddRecurring` logs an error at every refresh.

### Notifications

`event` and `delivery` are the rows, `call[e]` the alert part of a result call, `processor`
the retry processor with the batch of rows as it has read them, `admin` the manual retries
between their check and their write. `Message` is the provider: it takes the message or not,
and an error may come back for a message that has arrived. `excused` collects every reason
for which a message may arrive twice. How old a duplicate may be is left open: the query may
or may not find an event. The alerts themselves (`Alert`) are constants: what a payload
says, which rules match, which destinations the task has.

### Access, ExecPolicy, Console

`user` and `role` are the tables; `AuthenticateUser` gives the set of role names a request
works with until it ends. A role name is a tuple of its parts (`<<"agent", a, "task_view">>`
for `agent.<a>.task_view`): only its parts matter. `agents`, `policies` and `bindings` are
tables with their cascades. A template is a sequence of tokens, words and placeholders; a
value is a text as well, so a value may contain a placeholder, and because the code replaces
one parameter after the other in the order of a Go map, the result is a set of texts.

`request[r]` is the goroutine of a request. `Open` authenticates it and makes the checks that
need no query; `Entry` says where its handler goes on. Then one step per statement:
`CheckLastAdmin` ... `WriteStatus` / `WriteRoles`; `StartRow` (permission and files of one
agent), `ReadPolicy`, `ReadBinding`, `InsertTask` and back for the next agent; `Read` for each
query of a page; `ListAgents`, `ImportPolicy`, `ImportBinding` for each item of an import.
`Fail` is a statement that fails. Among the agents of a form may be an id that does not parse
(`NoAgent`), which is only found out when its turn comes (`StartRow`). `submission` is what the
browsers send, chosen in the initial state; `made`, `stored` and `raced` are histories: task rows with the policy, binding and
command they were made of, rows an import stored, and a demotion that relied on a list of
administrators that had changed.

Three named assumptions say what the constants are, and TLC evaluates them: `AccountsAssumption`
(the first users are typed and one of them can administer: the start of the server creates an
administrator), `RowsAssumption` (the first rows satisfy the keys of the migrations: references, ids and names of policies, pairs of
bindings, in an exported file too; a policy has finitely many parameters, a value is a text) and `FormsAssumption` (a form that parses has typed fields; a task
form that parses names an agent, `handlers.go:1355`; a new binding has an id nothing else has,
`uuid.New`). A form that does not parse may hold anything.

### Presence, LiveView, AgentRuntime, Fleet

`idFile[h]`, `process[h]` are the file and the process of a host, `agent[i]` a row with its
status and the heartbeat periods since its last heartbeat, `toggle` a request between its read
and its write. The row is written by `RegisterAgent`, `SendHeartbeat`,
`SetOfflineStatusForInactiveAgents`, `ToggleWrite` and `DeleteAgent`.

`status[t]` is the column of `tasks`; whoever writes it (`ToPublish`) reads the row again
(`GetForPublish`) and broadcasts what it read (`Broadcast`), which may wait for the broker.
`PassOn` offers the event to every browser (`Offer`). `browser[b]` has its channel and the
badges of its page.

`command[c]` is the goroutine of a command on the agent and then its result call; its `pc`
follows the handlers: `package`, `target`, `write`, `apply` for files, `open`, `run`, `close`
for a process with its logs, `submit`, `mark`, `publish` for the result. `handler[c]` is the part
of the agent's stream on the server. A file is the sequence of the commands that wrote its
chunks, so a mixed or truncated file is visible. `left[s]` counts the lines the process has yet
to write to a pipe, `reading` the readers that still live, `buffer` the lines the server has not
stored. After an update that was applied the agent ends, whatever became of the call that reports
it (`AfterCall`). `page` is the page of a task between its three queries; the second and the third
may fail (`ViewFails`), the page is shown all the same, and `page.unread` says what it lacks. Histories: `delivered`, `spoiled`, `shared`, `lossy`, `overtaken`, `registered`,
`silenced`.

Four named assumptions say what the constants are: `IdAssumption`, `BufferAssumption` (a stream
collects at least one line), `ViewAssumption` (two goroutines broadcast for a command, the one of
the stream and the one of the result; a user sees tasks) and `PlanAssumption`: the agents that run
at the start have different ids (`uuid.New`), jobs are tasks as they were stored (`IsJob`), and no
push goes to the directory of the agent's own binary, which only an update writes; every file a job
may write (`Targets`) is in the plan.

`TaskDispatch` and `AgentRuntime` look at the same goroutines: the first at how a command gets
to an agent and what its result means for the status, with everything a command does as one
outcome; the second at what lies between, with the dispatch reduced to `Send`.

## 3. Runs

| Run | Instance | Shows |
|---|---|---|
| `dispatch` | 2 agents, the first with an old and a new stream, 2 commands, queue of 1, 1 failure of any kind, in two plans: an immediate task and one that may be chained to it, a stream per agent; a ONCE task queued again and again with 1 change of schedule, over both streams of its agent | `SentToOwner`, `ChainedWaits`, `TriggerKept`, `ReportedStaysFinished`, `OncePerStream`, `ImplementsLifecycle` |
| `dispatch_live` | one stream, no failure, fairness | `ImmediateFinishes`, `ChainFollows` |
| `handler_starved` | 2 agents, queue of 1, no failure, fairness | violated: `ImmediateFinishes` |
| `chain_lost` | 2 agents with a stream each, a task that may be chained to the other agent's, queue of 2, 1 broken connection | violated: `TriggerNeverLost` |
| `recurring_stuck` | one recurring task, no failure | violated: `RecurringReturnsToPending` |
| `scheduler` | a scheduled and an edited immediate task, 3 expressions one of which is malformed, 1 edit, 1 restart, 1 failed query, fairness | `OnlyScheduledQueued`, `EarlyOnlyAfterEdit`, `RegisteredOnce`, `OnceSent`, `RecurringRegistered` |
| `startup_blocked` | 2 one-time tasks, queue of 1, 1 restart, fairness | violated: `OnceSent` |
| `old_expression` | one recurring task, 2 expressions, 1 edit, fairness | violated: `RecurringFollowsSchedule` |
| `notifications` | an alert for two chats and one with the same key, 2 refused messages, 1 failed query or restart, 2 manual retries, fairness | `DeliveredOnce`, `SentIsDelivered`, `OpenHasAttempts`, `AcceptedIsCovered`, `SuppressedForTwin`, `DeliverySettles` |
| `both_suppressed` | two alerts with one key, no failure | violated: `FirstIsDelivered` |
| `console` | 4 users, 3 agents (one reinstalled under its old host name), a policy with four parameters (one has no value), a file of two policies and three bindings, 3 requests out of about 40 forms (one with an id that does not parse), 1 failed statement | `AdministratorRemains`, `TaskAllowed`, `BatchIsPrefix`, `UploadsMatchRows`, `PolicyTaskConforms`, `ReferencesHold`, `ImportAccounted` |
| `fleet` | 2 hosts, 2 commands, 2 tasks, 2 browsers, in 20 plans; 1 failure in most of them, fairness | `BeatingIsNotOffline`, `OneIdPerHost`, `DeadIsNoticed`, `LivingIsOnline`, `PageComplete`, `FilesWhole`, `CommandSettles`, `BadgeIsCurrent` |

Each passing run also checks the type invariant of its module once. Deadlock is not checked:
all bounded models stop when their bounds are used up, and an idle server may wait for ever.

### What the violations say

- `handler_starved`: `dispatchQueuedTasks` counts the queue once and then receives that many
  ids. Two handlers may count the same id; the second waits in a receive without a default
  and neither polls nor reads acknowledgements, until somebody queues something.
- `chain_lost`: a handler whose stream has gone still takes ids; loading the row fails with
  its cancelled context and the id, which nobody else has, is dropped. A chained task is not
  polled, so it stays pending.
- `recurring_stuck`: the command is sent before pending becomes assigned. If the result is
  processed in between, it writes pending, and the late update makes that assigned: later
  firings skip the task.
- `startup_blocked`: `Scheduler.Start` pushes every due one-time task before anything reads
  the queue; with more due tasks than its capacity (100) the server never comes up.
- `old_expression`: the form writes a new cron expression, the refresh skips the row because its
  id is in the map (`scheduler.go:96`). The old entry keeps firing and the new expression waits for
  a restart of the server.
- `both_suppressed`: events are stored before the search for duplicates, and suppressed or
  unprocessed ones count: two calls at once suppress each other.

Other behaviour the models show, as exceptions written into properties that hold:
`EarlyOnlyAfterEdit` (a task changed from RECURRING to ONCE is fired by its old cron entry
before its time; a copy with an earlier time may still be pushed), `OncePerStream` (a failed
update to assigned sends a task twice), `DeliveredOnce` (the five reasons), `TriggerKept`
(ids die with the process and with failed loads), `AdministratorRemains` (two demotions that
overlap leave no administrator: `isLastActiveAdmin` looks at a list read before the update),
`PolicyTaskConforms` (a value that contains a placeholder is expanded when its turn comes before
that of the other parameter, so the result depends on the order of a Go map; the checks look at
the trimmed value and the command gets it untrimmed; the placeholder of a parameter that has no
value stays in the command; nothing checks that parameters have different names), `ImportAccounted` (two bindings of the
file that match one agent, one of them by host name, overwrite each other and are both reported
as imported), `BeatingIsNotOffline` (a refused registration is only logged and the agent runs on
without a row; one with an empty id file, left by a crash between creating and writing it, is
refused for ever, although the comment at `agent.go:50` speaks of generating a new id),
`RecurringRegistered` (a changed expression hides behind the copy of the old one,
`HidesBehindCopy`: that is `old_expression`), `PageComplete` (batches that were not stored, broken
streams, lines over 1 MB; and a page whose query for the result or the logs failed lacks them
without a word, because `viewTask` discards both errors, `handlers.go:289`-`290`), `FilesWhole`
(interrupted and concurrent transfers leave partial or mixed files; an empty source creates no
file and reports success), `CommandSettles` (a process the command left behind keeps the pipes,
and `wg.Wait` waits for it beyond the deadline), `BadgeIsCurrent` (events missed by a full
channel or between loading and subscribing; a late broadcast of the stream's handler that read
the row before the result was written; of a task that recurs or is sent again the last broadcast
may be old in other ways: the goroutine of a result reads the row again before it broadcasts, and
a late assigned, or the status of the next command, may be written between that read and the
broadcast. The property is about tasks sent once, `Once`).

## 4. Bounds

- Two agents, two streams, two tasks are enough for every interaction of the queue: an own
  and a foreign id, two handlers that compete, an old and a new handler. `QueueCap` 1 and 2
  make full and empty queues happen; 100 would only add waiting room.
- `Attempts` bounds the commands that are ever sent: two give every resend and every pair of
  results.
- `dispatch` has one failure and explores two plans (`CONSTRAINT Plans`): agents that share the
  queue and tasks that are chained, with a stream per agent (`StreamPerAgent`), or one task that
  many events meet, with two streams (`QueuedAgain`). Together they would exceed what TLC can
  explore and add no interaction of two actors. A state outside both is checked and not explored
  further. The streams `s1` and `s2` are of the same agent and the commands are alike, hence
  `SYMMETRY NameSymmetry`; the theorems about the same properties hold for any number of failures,
  streams and commands.
- In `scheduler` a second expression is enough for an entry to be for another one than the row's,
  and a third is malformed.
- `MaxEdits` 1 covers a change under a running task and under a copy; two tasks and capacity
  two in `scheduler` let due tasks fit, one in `startup_blocked` does not.
- Two attempts, two refused messages and two manual retries reach a dead letter, its revival
  and a stale revival. A batch of two makes the processor work from a copy that is out of
  date. Cron firings that wait are capped at one per task (`MaxFirings`).

- `console` chooses three submissions in the initial state (`Workloads`): demotions against
  each other with an account change or a task; a creation, a change of what it relies on, and a
  page or a second deletion; two transfers and a change. Three requests are enough because every
  hazard here is a write between a check and the write that relies on it; the third adds a
  reader or a second cascade. Combining unrelated forms would only multiply states. `MaxFaults`
  1: a handler that fails stops.
- `fleet` chooses a plan: comings and goings of processes with time, the buttons with time,
  commands of every kind with a page, pairs of transfers to one file, updates with a second
  command, browsers. Parts that share no variable are not combined. `budget` bounds what may
  happen but need not (starts, deaths, failures, clicks). `Threshold` is 2 periods (the code: a
  threshold of the configuration against heartbeats of 30 s; 1 would make an agent offline by
  design), `BufferLimit` 2 instead of 100, channels of one as in the code, at most three lines
  and two chunks, so that full, half full and empty buffers and files occur.
- `Tick` lets a period pass only when every running process has sent its heartbeat or failed
  to: heartbeats are late by less than a period.

The theorems hold without these bounds.

## 5. Fairness

Weak fairness for every goroutine that can go on: a handler in its rounds, a result call, the
agent's goroutines, the scheduler's goroutine, the retry processor; the Go scheduler gives
that. Strong fairness where a goroutine waits in a queue that others use too: a blocked
channel send or receive waits in FIFO order (`Receive`, `Requeue`, `PushChained`,
`QueueDue`), and a select that has a ready acknowledgement again and again takes it. In
`Scheduler`, time passes and the queue is served (`Dispatch`), which assumes connected agents;
a process that ended is started again. In `Notifications`, retry times fall due. In `Fleet`, weak
fairness for the process of each host with its heartbeats, for the goroutine of each command
with its deadline (a process may run until then), for the server (broker, stream handlers,
broadcasts), for time, the sweep and a request to toggle that has begun. `Console` has no
liveness property and no fairness. Failures, forms, clicks, starts of agents and new commands
are never fair.

## 6. What is proved

`TaskDispatchProofs` proves, for any sets of agents, tasks, streams and attempts and any
bounds (from `StoreAssumption` and `DispatchAssumption` only):

- `TypeCorrect`, `OwnerOnly` (`SentToOwner`), `ChainRespected` (`ChainedWaits`), `FinalStays`
  (`ReportedStaysFinished`), `SentOncePerStream` (`OncePerStream`);
- `Implementation`: every behaviour of `TaskDispatch` is one of `TaskLifecycle`.

The inductive invariant `IInv` adds to the properties what they need from the control state:
`Control` (a handler that loads, sends or records holds a task), `Ownership` (a task on a
stream belongs to that stream's agent), `RecordSent` (a handler that records has sent),
`CallsRecorded` (a call that marks has its result on record), `HeldSchedules` (a row's
schedule is one the task has had), `OnlyReleased` (whatever is in hand, in the queue or on a
stream is immediate, was scheduled, or has a successful prerequisite). It is needed because a
send trusts a row that was read a step before: that the row was pending and not chained, or
chained and triggered, must survive until the send. `FinalStays` holds because both late
updates are conditional and a final status is never pending or assigned again for a task
that has not been recurring. `OnceInv` adds that a handler about to send a one-shot task
its stream has carried must have lost the update. The refinement proof maps each
action to one step of `TaskLifecycle` or to none; it uses `RecordSent` and `CallsRecorded`.
`IInv` and `OnceInv` were checked by TLC on instances with a stream per agent and with two streams
of one agent before they were proved.

`TriggersAreKept` (`TriggerKept`) follows an id from `PushChained` on. `TriggerInv` adds that a
handler that is off, or waits for its next event, has nothing in its hands (`HandClean`); so a
handler that ends between events takes no id with it, and each step of a handler passes an id it
holds on to the queue, to a send or to the ids it puts back, or drops it at a load that fails
(`HandsKept`). `QueueKept` and `StatusKept` say the same of the queue and of the row.

`SchedulerProofs` proves, from `SchedulerAssumption` only, `SchedulerTypes`, `OnlyScheduled`
(`OnlyScheduledQueued`), `EarlyIsEdited` (`EarlyOnlyAfterEdit`) and `OneEntry`
(`RegisteredOnce`). Its invariant `SInv` says that everything the process keeps in memory was
once true of a row: `RowsKnown` (schedule and time of a row are in its history), `CopiesKnown`
(so is a copy in the map), `TodoIsDue` (the pass pushes what was due when it began; time only
adds to that), `EntriesKnown` (an entry or a firing means the task has been recurring; one that
has never been one-time keeps its copy, so it is not registered again, whatever its expression), `QueueKnown` (an id in
the queue has been recurring or has a time that is over). Because histories only grow, an edit
cannot falsify any of these, although it makes copies, entries and queue stale.

`NotificationsProofs` proves, from `NotificationAssumption` only, `NotificationsTypes`,
`OneCopy` (`DeliveredOnce`), `SentArrives` (`SentIsDelivered`), `AttemptsRemain`
(`OpenHasAttempts`), `AcceptedCovered` (`AcceptedIsCovered`) and `SuppressedHasTwin`
(`SuppressedForTwin`). Its invariant `NInv` has one part per actor (`CallControl`,
`CopiesControl`), `Covered` (a route has no delivery before its turn and one after it),
`Duplicates`, `SentArrived`, and `Unexcused`, which is the point: of a delivery with no excuse
the call and the processor never both hold a copy, the copy they hold equals the row, and only
the one that has sent it and not yet written that down knows more than the row does.

`FleetProofs` proves, from `ThresholdAssumption`, `IdAssumption` and `PlanAssumption` only, `OneId`
(`OneIdPerHost`) and `BeatingOnline` (`BeatingIsNotOffline`), whatever is planned and budgeted.
`FleetStep` first shows that each step of `Fleet` is a step of `Presence` or leaves its variables
alone; the commands enter only where an update ends a process. The invariant `PInv` says that
a host has registered nothing but the content of its file, with which its process works
(`FileIsId`: needed because the id a process holds was read or made steps before it registers,
and a crash in between leaves an empty file, which is never replaced), and that the row of a
process that is heard has the age 0 once its heartbeat is sent and at most 1 before
(`HeardIsYoung`), below any threshold; registration, toggle and deletion only make it younger.

`RuntimeProofs` proves, from these with `BufferAssumption`, `FilesAreWhole` (`FilesWhole`), and
what `LiveProofs` needs: for any number of commands, files, chunks and lines. Effect lemmas say
what each action makes of the goroutine of its command; the end of an agent is the one step that
changes several. The invariant comes in layers, each proved with those below it:

- `Base`: a goroutine is in the part of the code for its type of task, has a file open only while
  it writes and lines in a buffer only while its log stream is open;
- `FileInv`: `Writing` says what a file contains while it is written: a file that nothing has
  spoiled has one writer and holds exactly the chunks this one has written (`FilesWhole` alone is
  not inductive, it says nothing of open files). A second writer marks the file as spoiled and
  both commands as sharing it, an interrupted one spoils it, and `OpenTarget` with no other writer
  makes it good again. `Progress` ties the list of files that are left to those delivered, so that
  success means all of them; `ResultRows` keeps that for results;
- `LogInv`: `Identity` (two hosts never hold one id, a command works under the id of its host, a row
  of an agent is there only for a registered id), `LogRows` and `ResultAgents` (rows belong to an id
  that the host of their command has registered, so deleting the agent leaves the task an orphan),
  and `Kept`: every line a command has written is in the table or in the buffer, or the command
  has lost one, or its agent was deleted.

`LiveProofs` proves, with `ViewAssumption`, `PagesAreComplete` (`PageComplete`), `BadgesAreCurrent`
(`BadgeIsCurrent`) and `FleetTypes` (`FleetTypeOK`). A page is complete because each of its three
queries, unless it fails, finds what the one before has promised: `Behind` (a final status has a result, because the
result is saved first), `PageOK` (so has the page between its queries, or the task is an orphan by
then), and commands with a result have closed their log stream, so `Kept` speaks of rows alone and
no line is written any more. For the badges `Publishing` says that the goroutine of a result
broadcasts what the row still says: the status is final, nobody writes it again, and the call waits
for the broadcast. `Badges` follows the last event of a task from the channel of the broker to the
channel of the browser and to the badge: whichever it has reached says what the row says, unless
the browser has missed it or it was overtaken. The attempt to prove this for all tasks that are
sent once failed at a recurring one, and TLC confirmed it with a counterexample: its result makes
the row pending, for which a late assigned still looks; hence `Once`.

`ConsoleProofs` proves, from the three assumptions of `Console` only, `ConsoleTypes`
(`ConsoleTypeOK`), `AdministratorAlwaysRemains` (`AdministratorRemains`), `TasksAllowed`
(`TaskAllowed`), `BatchesArePrefixes` (`BatchIsPrefix`), `UploadsAlwaysMatch`
(`UploadsMatchRows`) and `ReferencesAlwaysHold` (`ReferencesHold`): for any number of requests,
users, agents, policies, agents of a form and failing statements. A step changes one handler
(`Frame`, `OthersKept`), and for each action an effect lemma says what becomes of that handler;
everything else is argued from the effects. The invariant `CInv` adds to the properties what a
handler relies on after it has read it:

- `Place`: a handler is in the part of the code of its kind of form, past the tests of the form;
- `SawAnother`: a handler about to take an administrator's rights away has seen another
  administrator, or a change of the administrators since then has been recorded. `WriteStatus`
  and `WriteRoles` test nothing themselves, so this is all `AdministratorRemains` rests on;
- `Permits`: between `StartRow` and `InsertTask` the roles in hand allow the agent, the type and
  the policy that was read. The roles are those of `Open`; that they do not change under the
  loop is `RolesKept`;
- `Rows`: while the loop runs, the rows of the request plus the agents it has yet to serve are the
  agents of the form, in their order; no row is there before `Open` or after a refused form;
- `Directories`: a directory is that of a row, or of the one row its request would insert next,
  and only then may it be incomplete. `UploadsMatchRows` alone is not inductive: it does not say
  which directory a new row finds;
- `PoliciesAgree` with `Issued`: the binding a handler holds is of the policy it holds, because an
  id of a binding stands for one policy for ever, whatever row is overwritten or imported. With
  the test of both rows by the insert it gives the last part of `ReferencesHold`.

`PolicyProofs` proves `ImportsAreAccounted` (`ImportAccounted`) with the invariant `ImportInv`:

- `Keys`: names of policies and pairs of bindings stay unique (migration 012); with `Exporting`,
  the same of what an export has read, this makes every file a bundle in which a name stands for
  one item, so that an entry of the report speaks of one item only;
- `Importing`: an item not begun has nothing in the report; of an item that was begun either the
  policy is reported as an error and not stored, or it is stored and each of its bindings is still
  at hand, reported as missing or failed, or stored for an agent it matches (`Settled`); and
  nothing else was stored (`PolicyRows`, `BindingRows`). New ids differ per name, so rows of two
  items are never mixed up.

The attempt corrected the last clause of the property: two rows of one pair were compared across
policies, which a file of two policies refutes; TLC confirmed that, and the instance has such a
file now.

`PolicyProofs` also proves `PolicyTasksConform` (`PolicyTaskConforms`), in two parts.

- What `Resolve` makes of a policy, a binding and the values of a form, for any number of
  parameters and any order of the replacements. The order is a function from positions to
  parameters and the command a fold over it (`Folded`). Induction by a theorem of the library is
  out of reach because it takes an operator as a parameter, so the proof takes the least position
  at which a claim fails (`Least`, `Upwards`, from `WFMin`): before its turn a placeholder is
  untouched by the others (`NotThere`), at its turn it becomes the value, and a value without
  placeholders is never changed again. `Merged` and `ResolvedValues` say which value is due and
  which tests it has passed; `Resolved` puts both together.
- What a handler holds: `Choosing` says that at each place of the loop the policy, the binding and
  the command in hand were once read together as active rows of this form and this agent
  (`Chosen`), and `MadeChosen` says the same of the rows that were inserted. Updates, imports and
  deletions in between change the tables and not what was read. `Keys` is needed: a query by id
  gives one row at most.

This attempt corrected the property twice: a parameter without any value leaves its placeholder
in the command, and parameters may share a name, which nothing checks; the instance has a
parameter of the first kind now.

The invariants were checked by TLC on small instances before they were proved.

Only model-checked: the liveness properties (`ImmediateFinishes`, `ChainFollows`, `OnceSent`,
`RecurringRegistered`, `DeliverySettles`, `DeadIsNoticed`, `LivingIsOnline`, `CommandSettles`),
which the prover does not reach. Every safety property of a passing run is a theorem.

## 7. Not modelled

- In `TaskDispatch`, deleting agents and tasks: `AgentOf` is a constant there. A deleted agent's
  queued ids are deferred by every handler for ever (`server.go:656`). `Console` and
  `AgentRuntime` delete agents.
- The notification pages (`handlers.go:308`-`405`) and the events on the page of a task
  (`handlers.go:291`-`294`), the cards of the access page, templates and
  presets: they show rows and change nothing. The manual retry behind them is in
  `Notifications`.
- Metrics: gathering them on the agent and storing them with a heartbeat changes nothing another
  part reads. Which of several log lines of one second comes first is not determined by the
  table; the order of lines is not modelled.
- The content of commands, messages and alerts; the parsing of forms, JSON, dates and cron
  expressions (a form is valid or not; an expression is a value, which of them do not parse is the
  constant `BadCron`, and an entry fires at any time, not by its expression).
- Inside `update.Apply`: the replacement of a binary is one step. Files that the agent unpacks
  for a script are in a directory of their own that nothing else uses.
- The broker's `Stop` and the scheduler's `Stop`, which nothing calls, code after the `return` in
  `getTaskPackage` and `listAgentsJSON`, which has no route.
- Pure input and output: configuration, logger, notifier and Telegram client, output decoding,
  generated protocol code and mocks.
