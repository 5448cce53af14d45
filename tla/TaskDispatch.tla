----------------------------- MODULE TaskDispatch -----------------------------
(***************************************************************************)
(* How a task gets from its row to an agent and its result back            *)
(* (server/internal/server.go, with the agent's side of the two calls from *)
(* agent/internal/agent.go):                                               *)
(*   - one AssignTasks handler per agent stream: every 15 s it takes the   *)
(*     ids that are in the shared queue, keeps those of its agent, pushes  *)
(*     the others back, then polls its agent's immediate tasks;            *)
(*   - sendTaskToAgent: first Send, then pending -> assigned;              *)
(*   - acknowledgements: assigned -> running;                              *)
(*   - SubmitTaskResult, one goroutine per call: read, save the result,    *)
(*     write the final status, push the chained tasks.                     *)
(* Each database call and each channel operation is a step of its own, so  *)
(* that the handlers, the calls and the agents interleave between them.    *)
(***************************************************************************)
EXTENDS TaskStore, Naturals, Sequences

CONSTANTS
  Streams,      \* places for AssignTasks streams: two of one agent let an old
                \* handler outlive the connection its agent has replaced
  StreamAgent,  \* the agent a stream carries in its metadata
  Attempts,     \* names of the commands that are sent (a bound on their number)
  QueueCap,     \* capacity of taskQueue
  Creations,    \* the schedule types each task can be created with
  Outcomes,     \* statuses the agents report
  MaxEdits,     \* bound on changes of a schedule
  FaultKinds,   \* the kinds of failure that happen
  MaxFaults     \* bound on the number of failures

ASSUME DispatchAssumption ==
  /\ Streams # {}
  /\ StreamAgent \in [Streams -> Agents]
  /\ QueueCap \in Nat \ {0}
  /\ Creations \in [Tasks -> SUBSET ScheduleTypes]
  /\ Outcomes \subseteq ResultStatuses
  /\ MaxEdits \in Nat
  /\ FaultKinds \subseteq {"connection", "agent", "server", "database"}
  /\ MaxFaults \in Nat

VARIABLES
  taskQueue,    \* the ids in the channel
  connected,    \* the stream's connection is up
  handler,      \* the goroutine of AssignTasks on each stream
  attempt,      \* each command sent, through its execution to its result call
  triggered,    \* history: the tasks triggerChainedTasks has pushed
  dropped,      \* history: the ids a failed load or a server crash threw away
  unrecorded,   \* history: the tasks sent without an update to assigned
  faults, edits \* how much of the two bounds is used

history == <<triggered, dropped, unrecorded>>

vars == <<storeVars, taskQueue, connected, handler, attempt, history,
          faults, edits>>

-----------------------------------------------------------------------------
(* The state. *)

HandlerPC == {"off", "select", "receive", "load", "send", "record", "requeue", "poll"}

\* depth counts down queueDepth; cur is the task at hand; deferred and snap are
\* the local slices "deferred" and "tasks".
Handler == [pc : HandlerPC, src : {"queue", "poll"}, depth : Nat,
            cur : Tasks \cup {NoTask}, deferred : Seq(Tasks), snap : SUBSET Tasks]

\* No local variable holds anything.
Fresh(pc) == [pc |-> pc, src |-> "queue", depth |-> 0, cur |-> NoTask,
              deferred |-> <<>>, snap |-> {}]

Off == Fresh("off")
Select == Fresh("select")

\* On its way and on the agent: wire -> running (orphaned: received on a stream
\* that is gone, and not yet begun).  In SubmitTaskResult: read -> save -> mark -> chain -> push -> done.
AgentStage == {"wire", "orphaned", "running"}
CallStage == {"read", "save", "mark", "chain", "push"}
AttemptStage == {"free", "lost", "done"} \cup AgentStage \cup CallStage

\* ack is the PROCESSING acknowledgement; recurring is the schedule type the call
\* has read, chain the tasks it has still to push.
Attempt == [st : AttemptStage, task : Tasks \cup {NoTask}, stream : Streams,
            ack : {"none", "sent", "over"}, outcome : ResultStatuses,
            recurring : BOOLEAN, chain : SUBSET Tasks]

TypeOK ==
  /\ StoreTypeOK
  /\ taskQueue \in Seq(Tasks)
  /\ Len(taskQueue) <= QueueCap
  /\ connected \in [Streams -> BOOLEAN]
  /\ handler \in [Streams -> Handler]
  /\ attempt \in [Attempts -> Attempt]
  /\ triggered \subseteq Tasks
  /\ dropped \subseteq Tasks
  /\ unrecorded \subseteq Tasks
  /\ faults \in Nat
  /\ edits \in Nat

Unsent == [st |-> "free", task |-> NoTask, stream |-> CHOOSE s \in Streams : TRUE,
           ack |-> "none", outcome |-> "FAILED", recurring |-> FALSE, chain |-> {}]

Init ==
  /\ StoreInit
  /\ taskQueue = <<>>
  /\ connected = [s \in Streams |-> FALSE]
  /\ handler = [s \in Streams |-> Off]
  /\ attempt = [i \in Attempts |-> Unsent]
  /\ triggered = {}
  /\ dropped = {}
  /\ unrecorded = {}
  /\ faults = 0
  /\ edits = 0

Sent(i) == attempt[i].st # "free"

\* Names tell nothing apart: the next command takes one of those left.
FreeAttempts ==
  LET free == {i \in Attempts : ~ Sent(i)} IN
  IF free = {} THEN {} ELSE {CHOOSE i \in free : TRUE}

InQueue == {taskQueue[k] : k \in 1..Len(taskQueue)}

\* The queued ids a handler has taken and not yet dealt with.
InHand(s) ==
  {handler[s].deferred[k] : k \in 1..Len(handler[s].deferred)}
    \cup (IF handler[s].src = "queue" THEN {handler[s].cur} ELSE {})

HasRoom == Len(taskQueue) < QueueCap

Fault(kind) ==
  /\ kind \in FaultKinds
  /\ faults < MaxFaults
  /\ faults' = faults + 1

\* A database call made with the stream's context fails when the stream is gone
\* (the context is cancelled) or when the database does.
ContextFails(s) == (~ connected[s] /\ UNCHANGED faults) \/ Fault("database")

-----------------------------------------------------------------------------
(* The web forms and the scheduler. *)

Create(t) ==
  /\ \E schedule \in Creations[t], p \in Tasks \cup {NoTask} : CreateTask(t, schedule, p)
  /\ UNCHANGED <<taskQueue, connected, handler, attempt, history, faults, edits>>

\* The form refuses CHAINED and asks for nothing else.
Reschedule(t) ==
  /\ edits < MaxEdits
  /\ edits' = edits + 1
  /\ \E schedule \in ScheduleTypes \ {"CHAINED"} : UpdateTaskSchedule(t, schedule)
  /\ UNCHANGED <<taskQueue, connected, handler, attempt, history, faults>>

\* The scheduler pushes from its own copies of rows: a cached ONCE row or a cron
\* closure outlives a change of the schedule or of the status, so a task may be
\* pushed at any time once it has had one of these types.
SchedulerQueues(t) ==
  /\ held[t] \cap {"ONCE", "RECURRING"} # {}
  /\ HasRoom
  /\ taskQueue' = Append(taskQueue, t)
  /\ UNCHANGED <<storeVars, connected, handler, attempt, history, faults, edits>>

-----------------------------------------------------------------------------
(* AssignTasks. *)

\* An agent runs one listener: it opens a stream when it has none.
Connect(s) ==
  /\ handler[s] = Off
  /\ \A x \in Streams : StreamAgent[x] = StreamAgent[s] => ~ connected[x]
  /\ connected' = [connected EXCEPT ![s] = TRUE]
  /\ handler' = [handler EXCEPT ![s] = Select]
  /\ UNCHANGED <<storeVars, taskQueue, attempt, history, faults, edits>>

\* The acknowledgements of a stream die with its handler.
AcksOver(s) ==
  [i \in Attempts |-> IF attempt[i].stream = s /\ attempt[i].ack = "sent"
                      THEN [attempt[i] EXCEPT !.ack = "over"] ELSE attempt[i]]

HandlerExit(s) ==
  /\ handler[s].pc = "select"
  /\ ~ connected[s]
  /\ handler' = [handler EXCEPT ![s] = Off]
  /\ attempt' = AcksOver(s)
  /\ UNCHANGED <<storeVars, taskQueue, connected, history, faults, edits>>

HandleTaskAcknowledgement(s) ==
  /\ handler[s].pc = "select"
  /\ \E i \in Attempts :
       /\ attempt[i].stream = s /\ attempt[i].ack = "sent"
       /\ attempt' = [attempt EXCEPT ![i].ack = "over"]
       /\ \/ MarkTaskStartedIfCurrent(attempt[i].task, "assigned") /\ UNCHANGED faults
          \/ UNCHANGED task /\ ContextFails(s)
  /\ UNCHANGED <<results, held, taskQueue, connected, handler, history, edits>>

Tick_SkipsPoll(s) ==
  /\ handler[s].pc = "select"
  /\ handler' = [handler EXCEPT ![s] =
       [Select EXCEPT !.pc = IF taskQueue = <<>> THEN "select" ELSE "receive",
                      !.depth = Len(taskQueue)]]
  /\ UNCHANGED <<storeVars, taskQueue, connected, attempt, history, faults, edits>>

\* dispatchQueuedTasks reads len(taskQueue) once.
Tick(s) ==
  /\ handler[s].pc = "select"
  /\ handler' = [handler EXCEPT ![s] =
       [Select EXCEPT !.pc = IF taskQueue = <<>> THEN "poll" ELSE "receive",
                      !.depth = Len(taskQueue)]]
  /\ UNCHANGED <<storeVars, taskQueue, connected, attempt, history, faults, edits>>

\* Blocks while the queue is empty, whatever depth said.
Receive(s) ==
  /\ handler[s].pc = "receive"
  /\ taskQueue # <<>>
  /\ handler' = [handler EXCEPT ![s].pc = "load", ![s].cur = Head(taskQueue)]
  /\ taskQueue' = Tail(taskQueue)
  /\ UNCHANGED <<storeVars, connected, attempt, history, faults, edits>>

NextRound_OneMore(h) ==
  IF h.src = "queue"
  THEN [h EXCEPT !.cur = NoTask, !.depth = h.depth - 1,
                 !.pc = IF h.depth > 0 THEN "receive"
                        ELSE IF h.deferred # <<>> THEN "requeue" ELSE "poll"]
  ELSE IF h.snap # {} THEN [h EXCEPT !.cur = NoTask, !.pc = "send"] ELSE Select

\* The handler after one round of the loop it is in: over the queue, or over the
\* polled tasks.
NextRound(h) ==
  IF h.src = "queue"
  THEN [h EXCEPT !.cur = NoTask, !.depth = h.depth - 1,
                 !.pc = IF h.depth > 1 THEN "receive"
                        ELSE IF h.deferred # <<>> THEN "requeue" ELSE "poll"]
  ELSE IF h.snap # {} THEN [h EXCEPT !.cur = NoTask, !.pc = "send"] ELSE Select

Defer(h) == NextRound([h EXCEPT !.deferred = Append(h.deferred, h.cur)])

Load_AnyAgent(s) ==
  /\ handler[s].pc = "load"
  /\ LET t == handler[s].cur IN
       handler' = [handler EXCEPT ![s] =
         IF task[t].status # "pending" THEN NextRound(handler[s])
         ELSE [handler[s] EXCEPT !.pc = "send"]]
  /\ UNCHANGED <<storeVars, taskQueue, connected, attempt, history, faults, edits>>

Load_AnyStatus(s) ==
  /\ handler[s].pc = "load"
  /\ LET t == handler[s].cur IN
       handler' = [handler EXCEPT ![s] =
         IF AgentOf[t] # StreamAgent[s] THEN Defer(handler[s])
         ELSE [handler[s] EXCEPT !.pc = "send"]]
  /\ UNCHANGED <<storeVars, taskQueue, connected, attempt, history, faults, edits>>

Load_DropsForeign(s) ==
  /\ handler[s].pc = "load"
  /\ LET t == handler[s].cur IN
       handler' = [handler EXCEPT ![s] =
         IF AgentOf[t] # StreamAgent[s] \/ task[t].status # "pending"
         THEN NextRound(handler[s])
         ELSE [handler[s] EXCEPT !.pc = "send"]]
  /\ UNCHANGED <<storeVars, taskQueue, connected, attempt, history, faults, edits>>

Load_DefersOwn(s) ==
  /\ handler[s].pc = "load"
  /\ LET t == handler[s].cur IN
       handler' = [handler EXCEPT ![s] =
         IF AgentOf[t] = StreamAgent[s] THEN Defer(handler[s])
         ELSE IF task[t].status # "pending" THEN NextRound(handler[s])
         ELSE [handler[s] EXCEPT !.pc = "send"]]
  /\ UNCHANGED <<storeVars, taskQueue, connected, attempt, history, faults, edits>>

\* GetTaskByID: the id of another agent's task is deferred, of a task that is not
\* pending forgotten.
Load(s) ==
  /\ handler[s].pc = "load"
  /\ LET t == handler[s].cur IN
       handler' = [handler EXCEPT ![s] =
         IF AgentOf[t] # StreamAgent[s] THEN Defer(handler[s])
         ELSE IF task[t].status # "pending" THEN NextRound(handler[s])
         ELSE [handler[s] EXCEPT !.pc = "send"]]
  /\ UNCHANGED <<storeVars, taskQueue, connected, attempt, history, faults, edits>>

\* "Failed to load queued task": the loop continues without the id.
LoadFails(s) ==
  /\ handler[s].pc = "load"
  /\ ContextFails(s)
  /\ dropped' = dropped \cup {handler[s].cur}
  /\ handler' = [handler EXCEPT ![s] = NextRound(handler[s])]
  /\ UNCHANGED <<storeVars, taskQueue, connected, attempt, triggered, unrecorded, edits>>

\* stream.Send returns nil once the transport has the message: on a connection
\* that is down the command may be lost without an error.
Send(s) ==
  /\ handler[s].pc = "send"
  /\ \E i \in FreeAttempts :
     \E t \in IF handler[s].src = "queue" THEN {handler[s].cur} ELSE handler[s].snap :
       /\ attempt' = [attempt EXCEPT ![i] =
            [Unsent EXCEPT !.st = IF connected[s] THEN "wire" ELSE "lost",
                           !.task = t, !.stream = s]]
       /\ handler' = [handler EXCEPT ![s].pc = "record", ![s].cur = t,
                                     ![s].snap = handler[s].snap \ {t}]
  /\ UNCHANGED <<storeVars, taskQueue, connected, history, faults, edits>>

\* A queued task is deferred; a polled one ends the handler.
SendFails(s) ==
  /\ handler[s].pc = "send"
  /\ ~ connected[s]
  /\ IF handler[s].src = "queue"
     THEN /\ handler' = [handler EXCEPT ![s] = Defer(handler[s])]
          /\ UNCHANGED attempt
     ELSE /\ handler' = [handler EXCEPT ![s] = Off]
          /\ attempt' = AcksOver(s)
  /\ UNCHANGED <<storeVars, taskQueue, connected, history, faults, edits>>

\* UpdateTaskStatusIfCurrent(pending, assigned); an error is only logged.
RecordAssigned(s) ==
  /\ handler[s].pc = "record"
  /\ \/ /\ UpdateTaskStatusIfCurrent(handler[s].cur, "pending", "assigned")
        /\ UNCHANGED <<unrecorded, faults>>
     \/ /\ ContextFails(s)
        /\ unrecorded' = unrecorded \cup {handler[s].cur}
        /\ UNCHANGED task
  /\ handler' = [handler EXCEPT ![s] = NextRound(handler[s])]
  /\ UNCHANGED <<results, held, taskQueue, connected, attempt, triggered, dropped, edits>>

\* Pushing back blocks while the queue is full.
Requeue(s) ==
  /\ handler[s].pc = "requeue"
  /\ HasRoom
  /\ taskQueue' = Append(taskQueue, Head(handler[s].deferred))
  /\ handler' = [handler EXCEPT
       ![s].deferred = Tail(handler[s].deferred),
       ![s].pc = IF Len(handler[s].deferred) > 1 THEN "requeue" ELSE "poll"]
  /\ UNCHANGED <<storeVars, connected, attempt, history, faults, edits>>

\* The polled tasks are sent one by one from this snapshot; a query that fails is
\* a tick without a poll.
Poll(s) ==
  /\ handler[s].pc = "poll"
  /\ handler' = [handler EXCEPT ![s] =
       NextRound([Select EXCEPT !.src = "poll",
                                !.snap = GetPendingTasksByAgent(StreamAgent[s])])]
  /\ UNCHANGED <<storeVars, taskQueue, connected, attempt, history, faults, edits>>

PollFails(s) ==
  /\ handler[s].pc = "poll"
  /\ ContextFails(s)
  /\ handler' = [handler EXCEPT ![s] = Select]
  /\ UNCHANGED <<storeVars, taskQueue, connected, attempt, history, edits>>

-----------------------------------------------------------------------------
(* The agent.  Each command runs in a goroutine of its own, so the order in *)
(* which a stream delivers its commands decides nothing.                    *)

\* The listener takes the command, handleTask acknowledges and executes it.  On a
\* stream that has just broken the acknowledgement is lost.
AgentStart(i) ==
  /\ attempt[i].st \in {"wire", "orphaned"}
  /\ attempt' = [attempt EXCEPT ![i].st = "running",
       ![i].ack = IF attempt[i].st = "wire" THEN "sent" ELSE "over"]
  /\ UNCHANGED <<storeVars, taskQueue, connected, handler, history, faults, edits>>

\* submitResult calls the server once; a call that does not reach it is logged.
AgentReport(i) ==
  /\ attempt[i].st = "running"
  /\ \E status \in Outcomes :
       attempt' = [attempt EXCEPT ![i].st = "read", ![i].outcome = status]
  /\ UNCHANGED <<storeVars, taskQueue, connected, handler, history, faults, edits>>

-----------------------------------------------------------------------------
(* SubmitTaskResult. *)

FinalStatus(status) ==
  CASE status = "SUCCESS"   -> "completed"
    [] status = "FAILED"    -> "failed"
    [] status = "TIMED_OUT" -> "timed_out"

\* GetTaskByID: what the call decides later, it decides on this copy.
ReadTask(i) ==
  /\ attempt[i].st = "read"
  /\ attempt' = [attempt EXCEPT ![i].st = "save",
       ![i].recurring = (task[attempt[i].task].schedule = "RECURRING")]
  /\ UNCHANGED <<storeVars, taskQueue, connected, handler, history, faults, edits>>

SaveResult_Later(i) ==
  /\ attempt[i].st = "save"
  /\ attempt' = [attempt EXCEPT ![i].st = "mark"]
  /\ UNCHANGED <<storeVars, taskQueue, connected, handler, history, faults, edits>>

SaveResult(i) ==
  /\ attempt[i].st = "save"
  /\ CreateTaskResult(attempt[i].task, attempt[i].outcome)
  /\ attempt' = [attempt EXCEPT ![i].st = "mark"]
  /\ UNCHANGED <<task, held, taskQueue, connected, handler, history, faults, edits>>

\* A recurring task goes back to pending; only a success has chained tasks.
MarkCompleted(i) ==
  /\ attempt[i].st = "mark"
  /\ MarkTaskCompleted(attempt[i].task,
       IF attempt[i].recurring THEN "pending" ELSE FinalStatus(attempt[i].outcome))
  /\ attempt' = [attempt EXCEPT
       ![i].st = IF attempt[i].outcome = "SUCCESS" THEN "chain" ELSE "done"]
  /\ UNCHANGED <<results, held, taskQueue, connected, handler, history, faults, edits>>

\* triggerChainedTasks: the pending tasks that name this one.
LoadChained(i) ==
  /\ attempt[i].st = "chain"
  /\ LET chained == GetTasksByPrerequisite(attempt[i].task) IN
       attempt' = [attempt EXCEPT ![i].chain = chained,
         ![i].st = IF chained = {} THEN "done" ELSE "push"]
  /\ UNCHANGED <<storeVars, taskQueue, connected, handler, history, faults, edits>>

\* One blocking push after the other, inside the call.
PushChained(i) ==
  /\ attempt[i].st = "push"
  /\ HasRoom
  /\ \E t \in attempt[i].chain :
       /\ taskQueue' = Append(taskQueue, t)
       /\ triggered' = triggered \cup {t}
       /\ attempt' = [attempt EXCEPT ![i].chain = attempt[i].chain \ {t},
            ![i].st = IF attempt[i].chain = {t} THEN "done" ELSE "push"]
  /\ UNCHANGED <<storeVars, connected, handler, dropped, unrecorded, faults, edits>>

\* A call that fails at its next database call, nothing having changed until then.
Cancelled(x) == [x EXCEPT !.st = IF x.st = "chain" THEN "done" ELSE "lost"]

\* A database error ends the call where it is; the agent does not call again.
CallFails(i) ==
  /\ attempt[i].st \in {"read", "save", "mark", "chain"}
  /\ Fault("database")
  /\ attempt' = [attempt EXCEPT ![i] = Cancelled(attempt[i])]
  /\ UNCHANGED <<storeVars, taskQueue, connected, handler, history, edits>>

-----------------------------------------------------------------------------
(* Failures. *)

\* An agent's stream and its calls share one connection.  When it goes down the
\* contexts of its calls are cancelled; a call that notices fails.
Calling(a) ==
  {i \in Attempts : StreamAgent[attempt[i].stream] = a
                      /\ attempt[i].st \in {"read", "save", "mark", "chain"}}

\* A command on its way is lost, or its goroutine exists already and has not begun.
Disconnect(s) ==
  LET wired == {i \in Attempts : attempt[i].stream = s /\ attempt[i].st = "wire"} IN
  /\ connected[s]
  /\ Fault("connection")
  /\ connected' = [connected EXCEPT ![s] = FALSE]
  /\ \E received \in SUBSET wired, cancelled \in SUBSET Calling(StreamAgent[s]) :
       attempt' = [i \in Attempts |->
         IF i \in received THEN [attempt[i] EXCEPT !.st = "orphaned"]
         ELSE IF i \in wired THEN [attempt[i] EXCEPT !.st = "lost"]
         ELSE IF i \in cancelled THEN Cancelled(attempt[i]) ELSE attempt[i]]
  /\ UNCHANGED <<storeVars, taskQueue, handler, history, edits>>

\* The agent process ends: killed, restarted by an update, or by the panic of an
\* orphaned goroutine that acknowledges on the channel its listener has closed.
AgentCrash(a) ==
  LET own == {i \in Attempts : StreamAgent[attempt[i].stream] = a} IN
  /\ \/ UNCHANGED faults /\ \E i \in own : attempt[i].st = "orphaned"
     \/ Fault("agent")
  /\ connected' = [s \in Streams |-> connected[s] /\ StreamAgent[s] # a]
  /\ \E cancelled \in SUBSET Calling(a) :
       attempt' = [i \in Attempts |->
         IF i \in own /\ attempt[i].st \in AgentStage THEN [attempt[i] EXCEPT !.st = "lost"]
         ELSE IF i \in cancelled THEN Cancelled(attempt[i]) ELSE attempt[i]]
  /\ UNCHANGED <<storeVars, taskQueue, handler, history, edits>>

\* The server process ends and starts again: the rows stay, the queue, the
\* handlers and the calls are gone, and so is every connection.
ServerCrash ==
  /\ Fault("server")
  /\ taskQueue' = <<>>
  /\ connected' = [s \in Streams |-> FALSE]
  /\ handler' = [s \in Streams |-> Off]
  /\ \E received \in SUBSET {i \in Attempts : attempt[i].st = "wire"} :
       attempt' = [i \in Attempts |->
         [attempt[i] EXCEPT
            !.st = IF i \in received THEN "orphaned"
                   ELSE IF attempt[i].st \in CallStage \cup {"wire"} THEN "lost"
                   ELSE attempt[i].st,
            !.ack = IF attempt[i].ack = "sent" THEN "over" ELSE attempt[i].ack]]
  /\ dropped' = dropped \cup InQueue \cup UNION {InHand(s) \cap Tasks : s \in Streams}
  /\ unrecorded' = unrecorded
       \cup {handler[s].cur : s \in {x \in Streams : handler[x].pc = "record"}}
  /\ UNCHANGED <<storeVars, triggered, edits>>

-----------------------------------------------------------------------------
Next ==
  \/ \E t \in Tasks : Create(t)
  \/ \E t \in Tasks : Reschedule(t)
  \/ \E t \in Tasks : SchedulerQueues(t)
  \/ \E s \in Streams : Connect(s)
  \/ \E s \in Streams : HandlerExit(s)
  \/ \E s \in Streams : HandleTaskAcknowledgement(s)
  \/ \E s \in Streams : Tick(s)
  \/ \E s \in Streams : Receive(s)
  \/ \E s \in Streams : Load(s)
  \/ \E s \in Streams : LoadFails(s)
  \/ \E s \in Streams : Send(s)
  \/ \E s \in Streams : SendFails(s)
  \/ \E s \in Streams : RecordAssigned(s)
  \/ \E s \in Streams : Requeue(s)
  \/ \E s \in Streams : Poll(s)
  \/ \E s \in Streams : PollFails(s)
  \/ \E i \in Attempts : AgentStart(i)
  \/ \E i \in Attempts : AgentReport(i)
  \/ \E i \in Attempts : ReadTask(i)
  \/ \E i \in Attempts : SaveResult(i)
  \/ \E i \in Attempts : MarkCompleted(i)
  \/ \E i \in Attempts : LoadChained(i)
  \/ \E i \in Attempts : PushChained(i)
  \/ \E i \in Attempts : CallFails(i)
  \/ \E s \in Streams : Disconnect(s)
  \/ \E a \in Agents : AgentCrash(a)
  \/ ServerCrash

Spec == Init /\ [][Next]_vars

\* What the Go scheduler, the ticker and working agents give: every goroutine that
\* can go on does.  A goroutine that waits to push waits in the channel's FIFO of
\* senders, so it gets its turn; a handler that waits in its select takes a ready
\* acknowledgement some time.  No failure is fair, nor is any use of the forms.
HandlerFairness(s) ==
  /\ WF_vars(Connect(s)) /\ WF_vars(Tick(s)) /\ SF_vars(HandleTaskAcknowledgement(s))
  /\ SF_vars(Receive(s)) /\ WF_vars(Load(s)) /\ WF_vars(Send(s))
  /\ WF_vars(RecordAssigned(s)) /\ SF_vars(Requeue(s)) /\ WF_vars(Poll(s))

CallFairness(i) ==
  /\ WF_vars(AgentStart(i)) /\ WF_vars(AgentReport(i)) /\ WF_vars(ReadTask(i))
  /\ WF_vars(SaveResult(i)) /\ WF_vars(MarkCompleted(i)) /\ WF_vars(LoadChained(i))
  /\ SF_vars(PushChained(i))

FairSpec ==
  /\ Spec
  /\ \A s \in Streams : HandlerFairness(s)
  /\ \A i \in Attempts : CallFairness(i)

-----------------------------------------------------------------------------
(* Properties. *)

\* A command only ever goes down a stream of the agent the task belongs to, though
\* every handler takes every agent's ids out of the one queue.
SentToOwner ==
  \A i \in Attempts : Sent(i) => AgentOf[attempt[i].task] = StreamAgent[attempt[i].stream]

\* A chained task is not sent before a success of its prerequisite is on record.
ChainedWaits ==
  \A i \in Attempts :
    Sent(i) /\ task[attempt[i].task].schedule = "CHAINED"
      => <<task[attempt[i].task].prerequisite, "SUCCESS">> \in results

\* Once a result call has written its status, a task that runs once stays at an
\* end: no late send, update to assigned or acknowledgement takes it back.
ReportedStaysFinished ==
  \A i \in Attempts :
    attempt[i].st \in {"chain", "push", "done"} /\ OneShot(attempt[i].task)
      => task[attempt[i].task].status \in Terminal

\* However often a task that runs once is queued, one stream carries it once,
\* unless the update to assigned was lost.
OncePerStream ==
  \A i, j \in Attempts :
    /\ i # j /\ Sent(i) /\ Sent(j)
    /\ attempt[i].stream = attempt[j].stream /\ attempt[i].task = attempt[j].task
    => ~ OneShot(attempt[i].task) \/ attempt[i].task \in unrecorded

\* A triggered task that is still to be sent is in the queue or in the hands of a
\* handler that will push it back, unless its id was thrown away by a failure.
TriggerKept ==
  \A t \in triggered \ dropped :
    \/ task[t].status # "pending"
    \/ \E i \in Attempts : attempt[i].task = t
    \/ t \in InQueue
    \/ \E s \in Streams : t \in InHand(s)

\* An immediate task that has a row comes to an end.
ImmediateFinishes ==
  \A t \in Tasks :
    task[t].status = "pending" /\ task[t].schedule = "NONE" ~> task[t].status \in Terminal

\* A task that waits for this one when its result call has come to look for chained
\* tasks is sent.
ChainFollows ==
  \A i \in Attempts : \A t \in Tasks :
    attempt[i].st = "chain" /\ t \in GetTasksByPrerequisite(attempt[i].task)
      ~> \E j \in Attempts : attempt[j].task = t

\* "Chained. The task will be executed after the previous (selected) task completes."
\* (docs/guide.en.md:226): a task that was triggered does not end up pending with its
\* id nowhere.
TriggerNeverLost ==
  \A t \in triggered :
    \/ task[t].status # "pending"
    \/ \E i \in Attempts : attempt[i].task = t
    \/ t \in InQueue
    \/ \E s \in Streams : t \in InHand(s)

\* "Recurring task returns to pending after execution" (server/internal/server_test.go:218):
\* once every command of a recurring task has its result processed and nothing about
\* it is under way, the task is pending and its next firing will find it so.
RecurringReturnsToPending ==
  \A t \in Tasks :
    /\ task[t].schedule = "RECURRING"
    /\ \E i \in Attempts : attempt[i].task = t
    /\ \A i \in Attempts :
         attempt[i].task = t => attempt[i].st = "done" /\ attempt[i].ack # "sent"
    /\ \A s \in Streams : handler[s].cur # t
    => task[t].status = "pending"

\* Read through its status column, the whole machinery implements TaskLifecycle:
\* every step of a handler, an agent or a call is a step of the life cycle or none.
Lifecycle == INSTANCE TaskLifecycle WITH
  status  <- [t \in Tasks |-> task[t].status],
  sent    <- {attempt[i].task : i \in {k \in Attempts : Sent(k)}},
  reports <- results,
  recurs  <- {t \in Tasks : ~ OneShot(t)}

ImplementsLifecycle == Lifecycle!Spec
=============================================================================
