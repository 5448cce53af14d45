-------------------------- MODULE TaskDispatchProofs --------------------------
(***************************************************************************)
(* Theorems about TaskDispatch, for every set of agents, tasks, streams    *)
(* and attempts, every queue capacity and every bound on failures.         *)
(***************************************************************************)
EXTENDS TaskDispatch, TLAPS

-----------------------------------------------------------------------------
(* The inductive invariant.  Control says what the local variables of a     *)
(* goroutine hold at each of its stages; without it not even the types are  *)
(* inductive (depth could go below zero).                                   *)

HandlerControl(h) ==
  /\ h.pc \in {"off", "select", "receive", "requeue", "poll"} => h.snap = {}
  /\ h.pc \in {"off", "select", "receive", "load", "requeue", "poll"} => h.src = "queue"
  /\ h.src = "queue" => h.snap = {}
  /\ h.pc \in {"receive", "load"} \/ (h.pc \in {"send", "record"} /\ h.src = "queue")
       => h.depth > 0
  /\ h.pc = "requeue" => h.deferred # <<>>
  /\ h.pc \in {"load", "record"} \/ (h.pc = "send" /\ h.src = "queue") => h.cur \in Tasks

AttemptControl(x) ==
  IF x.st = "free" THEN x.ack = "none" ELSE x.task \in Tasks

Control ==
  /\ \A s \in Streams : HandlerControl(handler[s])
  /\ \A i \in Attempts : AttemptControl(attempt[i])

-----------------------------------------------------------------------------
(* Lemmas about the operators the actions are built from. *)

\* A queue of more than one has a tail with something in it.
LEMMA TailFacts ==
  ASSUME NEW S, NEW q \in Seq(S), q # <<>>
  PROVE  /\ Tail(q) \in Seq(S)
         /\ Len(q) \in Nat
         /\ Len(q) > 1 => Tail(q) # <<>>
  <1>1. Tail(q) \in Seq(S) /\ Len(q) \in Nat /\ Len(Tail(q)) = Len(q) - 1
    OBVIOUS
  <1>2. Tail(q) = <<>> => Len(Tail(q)) = 0
    <2>1. Len(<<>>) = 0
      OBVIOUS
    <2>2. Tail(q) = <<>> => Len(Tail(q)) = Len(<<>>)
      BY Zenon
    <2>. QED BY <2>1, <2>2, Zenon
  <1>3. ASSUME NEW n \in Nat, Len(q) = n, Len(Tail(q)) = n - 1, n > 1
        PROVE  Len(Tail(q)) # 0
    BY <1>3
  <1>. QED BY <1>1, <1>2, <1>3

\* What Append, Head and Tail do to a queue and to what each of its places holds.
LEMMA QueueFacts ==
  ASSUME NEW S, NEW q \in Seq(S)
  PROVE  /\ \A e \in S : /\ Append(q, e) \in Seq(S)
                          /\ Len(Append(q, e)) = Len(q) + 1
                          /\ \A k \in 1..Len(q) + 1 :
                               Append(q, e)[k] = IF k = Len(q) + 1 THEN e ELSE q[k]
         /\ q # <<>> => /\ Head(q) \in S
                        /\ Head(q) = q[1]
                        /\ Tail(q) \in Seq(S)
                        /\ Len(Tail(q)) = Len(q) - 1
                        /\ Len(q) >= 1
                        /\ \A k \in 1..Len(q) - 1 : Tail(q)[k] = q[k + 1]
         /\ Len(q) \in Nat
         /\ q = <<>> <=> Len(q) = 0
  <1>1. \A e \in S : /\ Append(q, e) \in Seq(S)
                      /\ Len(Append(q, e)) = Len(q) + 1
                      /\ \A k \in 1..Len(q) + 1 :
                           Append(q, e)[k] = IF k = Len(q) + 1 THEN e ELSE q[k]
    BY SMT
  <1>2. q # <<>> => /\ Head(q) \in S
                    /\ Head(q) = q[1]
                    /\ Tail(q) \in Seq(S)
                    /\ Len(Tail(q)) = Len(q) - 1
                    /\ Len(q) >= 1
                    /\ \A k \in 1..Len(q) - 1 : Tail(q)[k] = q[k + 1]
    BY SMT
  <1>3. Len(q) \in Nat /\ (q = <<>> <=> Len(q) = 0)
    BY SMT
  <1>. QED BY <1>1, <1>2, <1>3

\* A handler that begins or ends holds nothing.
LEMMA FreshControl ==
  ASSUME NEW pc \in {"off", "select", "poll"}
  PROVE  Fresh(pc) \in Handler /\ HandlerControl(Fresh(pc))
  <1>1. <<>> \in Seq(Tasks)
    OBVIOUS
  <1>. QED BY <1>1 DEF Fresh, Handler, HandlerPC, HandlerControl

\* The round that ends leaves a well-typed handler in control of its variables.
LEMMA NextRoundControl ==
  ASSUME NEW h \in Handler,
         h.src = "queue" => h.depth > 0 /\ h.snap = {}
  PROVE  NextRound(h) \in Handler /\ HandlerControl(NextRound(h))
  <1>0. /\ h.src \in {"queue", "poll"} /\ h.depth \in Nat /\ h.deferred \in Seq(Tasks)
        /\ h.snap \in SUBSET Tasks
    BY DEF Handler
  <1>1. CASE h.src = "queue"
    <2>. DEFINE pc == IF h.depth > 1 THEN "receive"
                      ELSE IF h.deferred # <<>> THEN "requeue" ELSE "poll"
                n == [h EXCEPT !.cur = NoTask, !.depth = h.depth - 1, !.pc = pc]
    <2>1. NextRound(h) = n
      BY <1>1 DEF NextRound
    <2>2. n \in Handler
      <3>1. pc \in HandlerPC /\ h.depth - 1 \in Nat
        BY <1>0, <1>1 DEF HandlerPC
      <3>. HIDE DEF pc
      <3>. QED BY <3>1 DEF Handler
    <2>3. /\ n.pc = pc /\ n.depth = h.depth - 1 /\ n.src = "queue"
          /\ n.snap = {} /\ n.deferred = h.deferred
      BY <1>1 DEF Handler
    <2>4. HandlerControl(n)
      BY <1>0, <1>1, <2>3 DEF HandlerControl
    <2>. QED BY <2>1, <2>2, <2>4
  <1>2. CASE h.src # "queue" /\ h.snap # {}
    BY <1>0, <1>2 DEF NextRound, Handler, HandlerPC, HandlerControl
  <1>3. CASE h.src # "queue" /\ h.snap = {}
    BY <1>0, <1>3, FreshControl DEF NextRound, Select
  <1>. QED BY <1>1, <1>2, <1>3

\* So does the round that ends by deferring its task.
LEMMA DeferControl ==
  ASSUME NEW h \in Handler,
         h.src = "queue" => h.depth > 0 /\ h.snap = {},
         h.cur \in Tasks
  PROVE  Defer(h) \in Handler /\ HandlerControl(Defer(h))
  <1>. DEFINE d == [h EXCEPT !.deferred = Append(h.deferred, h.cur)]
  <1>1. d \in Handler
    BY QueueFacts DEF Handler
  <1>2. d.src = "queue" => d.depth > 0 /\ d.snap = {}
    BY DEF Handler
  <1>. QED BY <1>1, <1>2, NextRoundControl DEF Defer

-----------------------------------------------------------------------------
(* What the operations of the store do to the fields of a row. *)

\* Only the status of the one row changes.
LEMMA SetStatusEffect ==
  ASSUME task \in [Tasks -> Row], NEW t \in Tasks, NEW status \in TaskStatuses,
         SetStatus(t, status)
  PROVE  /\ task' \in [Tasks -> Row]
         /\ \A u \in Tasks : /\ task'[u].status = IF u = t THEN status ELSE task[u].status
                             /\ task'[u].schedule = task[u].schedule
                             /\ task'[u].prerequisite = task[u].prerequisite
  BY DEF SetStatus, Row

\* An update that depends on the current status does what it says or nothing.
LEMMA IfCurrentEffect ==
  ASSUME task \in [Tasks -> Row], NEW t \in Tasks, NEW current, NEW new \in TaskStatuses,
         UpdateTaskStatusIfCurrent(t, current, new)
  PROVE  \/ UNCHANGED task
         \/ task[t].status = current /\ SetStatus(t, new)
  BY DEF UpdateTaskStatusIfCurrent

\* The same of the update to running.
LEMMA StartedEffect ==
  ASSUME task \in [Tasks -> Row], NEW t \in Tasks, NEW current,
         MarkTaskStartedIfCurrent(t, current)
  PROVE  \/ UNCHANGED task
         \/ task[t].status = current /\ SetStatus(t, "running")
  BY DEF MarkTaskStartedIfCurrent

\* A row appears, pending, and no other changes.
LEMMA CreateTaskEffect ==
  ASSUME StoreTypeOK, NEW t \in Tasks, NEW schedule \in ScheduleTypes,
         NEW p \in Tasks \cup {NoTask}, CreateTask(t, schedule, p)
  PROVE  /\ StoreTypeOK'
         /\ ~ Exists(t)
         /\ task'[t] = [status |-> "pending", schedule |-> schedule, prerequisite |-> p]
         /\ held'[t] = held[t] \cup {schedule}
         /\ \A u \in Tasks \ {t} : task'[u] = task[u] /\ held'[u] = held[u]
         /\ results' = results
  BY DEF StoreTypeOK, CreateTask, Row, TaskStatuses

\* A row has a new schedule and the status it had.
LEMMA UpdateTaskScheduleEffect ==
  ASSUME StoreTypeOK, NEW t \in Tasks, NEW schedule \in ScheduleTypes,
         UpdateTaskSchedule(t, schedule)
  PROVE  /\ StoreTypeOK'
         /\ Exists(t)
         /\ task'[t] = [status |-> task[t].status, schedule |-> schedule,
                        prerequisite |-> NoTask]
         /\ held'[t] = held[t] \cup {schedule}
         /\ \A u \in Tasks \ {t} : task'[u] = task[u] /\ held'[u] = held[u]
         /\ results' = results
  BY DEF StoreTypeOK, UpdateTaskSchedule, Row

\* The status SubmitTaskResult derives from a report is an end.
LEMMA FinalStatusTerminal ==
  ASSUME NEW r \in ResultStatuses
  PROVE  FinalStatus(r) \in Terminal
  BY DEF ResultStatuses, FinalStatus, Terminal

-----------------------------------------------------------------------------
(* Types and control. *)

TypeControl == TypeOK /\ Control

\* Replacing one handler by one in control keeps all in control.
LEMMA HandlerUpdate ==
  ASSUME TypeControl, NEW s \in Streams, NEW h \in Handler, HandlerControl(h),
         handler' = [handler EXCEPT ![s] = h]
  PROVE  /\ handler' \in [Streams -> Handler]
         /\ \A x \in Streams : HandlerControl(handler'[x])
  BY DEF TypeControl, TypeOK, Control

\* The same of one command.
LEMMA AttemptUpdate ==
  ASSUME TypeControl, NEW i \in Attempts, NEW x \in Attempt, AttemptControl(x),
         attempt' = [attempt EXCEPT ![i] = x]
  PROVE  /\ attempt' \in [Attempts -> Attempt]
         /\ \A j \in Attempts : AttemptControl(attempt'[j])
  BY DEF TypeControl, TypeOK, Control

\* A command that was sent goes from stage to stage.
LEMMA StageChange ==
  ASSUME NEW x \in Attempt, AttemptControl(x), x.st # "free",
         NEW st \in AttemptStage \ {"free"}
  PROVE  [x EXCEPT !.st = st] \in Attempt /\ AttemptControl([x EXCEPT !.st = st])
  BY DEF Attempt, AttemptControl

\* A call that fails keeps its command in control.
LEMMA CancelledControl ==
  ASSUME NEW x \in Attempt, AttemptControl(x), x.st # "free"
  PROVE  Cancelled(x) \in Attempt /\ AttemptControl(Cancelled(x))
  BY StageChange DEF Cancelled, AttemptStage

\* The end of a handler drops its acknowledgements and nothing else.
LEMMA AcksOverControl ==
  ASSUME TypeControl, NEW s \in Streams
  PROVE  /\ AcksOver(s) \in [Attempts -> Attempt]
         /\ \A i \in Attempts : AttemptControl(AcksOver(s)[i])
  BY DEF TypeControl, TypeOK, Control, AcksOver, Attempt, AttemptControl

\* Nothing has begun.
LEMMA TypeInit == Init => TypeControl
  <1>. SUFFICES ASSUME Init PROVE TypeControl
    OBVIOUS
  <1>. USE DEF Init
  <1>1. StoreTypeOK
    BY DEF StoreInit, StoreTypeOK, Row, ScheduleTypes, TaskStatuses
  <1>2. taskQueue \in Seq(Tasks) /\ Len(taskQueue) <= QueueCap
    BY DispatchAssumption
  <1>3. /\ handler \in [Streams -> Handler]
        /\ \A s \in Streams : HandlerControl(handler[s])
    BY FreshControl DEF Off
  <1>4. Unsent \in Attempt /\ AttemptControl(Unsent)
    BY DispatchAssumption DEF Unsent, Attempt, AttemptStage, ResultStatuses, AttemptControl
  <1>5. /\ attempt \in [Attempts -> Attempt]
        /\ \A i \in Attempts : AttemptControl(attempt[i])
    BY <1>4
  <1>. QED BY <1>1, <1>2, <1>3, <1>5 DEF TypeControl, TypeOK, Control

\* Send takes a name that is free.
LEMMA FreeAttemptsFact ==
  FreeAttempts \subseteq {i \in Attempts : ~ Sent(i)}
  BY DEF FreeAttempts

\* Every action keeps the types and the control, one step for each action.
LEMMA TypeStep ==
  ASSUME TypeControl, [Next]_vars
  PROVE  TypeControl'
  <1>. USE DEF TypeControl
  <1>0. /\ StoreTypeOK /\ taskQueue \in Seq(Tasks) /\ Len(taskQueue) <= QueueCap
        /\ handler \in [Streams -> Handler] /\ attempt \in [Attempts -> Attempt]
        /\ \A s \in Streams : HandlerControl(handler[s])
        /\ \A i \in Attempts : AttemptControl(attempt[i])
    BY DEF TypeOK, Control
  <1>1. ASSUME NEW t \in Tasks, Create(t) PROVE TypeControl'
    <2>1. StoreTypeOK'
      <3>1. PICK schedule \in Creations[t], p \in Tasks \cup {NoTask} : CreateTask(t, schedule, p)
        BY <1>1 DEF Create
      <3>2. schedule \in ScheduleTypes
        BY DispatchAssumption
      <3>. QED BY <1>0, <3>1, <3>2, CreateTaskEffect
    <2>. QED BY <1>1, <2>1 DEF Create, TypeOK, Control, history
  <1>2. ASSUME NEW t \in Tasks, Reschedule(t) PROVE TypeControl'
    <2>1. StoreTypeOK'
      BY <1>0, <1>2, UpdateTaskScheduleEffect DEF Reschedule
    <2>. QED BY <1>2, <2>1 DEF Reschedule, TypeOK, Control, history
  <1>3. ASSUME NEW t \in Tasks, SchedulerQueues(t) PROVE TypeControl'
    <2>1. taskQueue' \in Seq(Tasks) /\ Len(taskQueue') <= QueueCap
      BY <1>0, <1>3, QueueFacts, DispatchAssumption DEF SchedulerQueues, HasRoom
    <2>. QED BY <1>3, <2>1 DEF SchedulerQueues, TypeOK, Control, history, storeVars, StoreTypeOK
  <1>4. ASSUME NEW s \in Streams, Connect(s) PROVE TypeControl'
    <2>1. /\ handler' \in [Streams -> Handler]
          /\ \A x \in Streams : HandlerControl(handler'[x])
      BY <1>4, FreshControl, HandlerUpdate DEF Connect, Select
    <2>. QED BY <1>4, <2>1 DEF Connect, TypeOK, Control, history, storeVars, StoreTypeOK
  <1>5. ASSUME NEW s \in Streams, HandlerExit(s) PROVE TypeControl'
    <2>1. /\ handler' \in [Streams -> Handler]
          /\ \A x \in Streams : HandlerControl(handler'[x])
      BY <1>5, FreshControl, HandlerUpdate DEF HandlerExit, Off
    <2>2. /\ attempt' \in [Attempts -> Attempt]
          /\ \A i \in Attempts : AttemptControl(attempt'[i])
      BY <1>0, <1>5, AcksOverControl DEF HandlerExit
    <2>. QED BY <1>5, <2>1, <2>2 DEF HandlerExit, TypeOK, Control, history, storeVars, StoreTypeOK
  <1>6. ASSUME NEW s \in Streams, HandleTaskAcknowledgement(s) PROVE TypeControl'
    <2>1. PICK i \in Attempts :
            /\ attempt[i].ack = "sent"
            /\ attempt' = [attempt EXCEPT ![i].ack = "over"]
            /\ \/ MarkTaskStartedIfCurrent(attempt[i].task, "assigned") /\ UNCHANGED faults
               \/ UNCHANGED task /\ ContextFails(s)
      BY <1>6 DEF HandleTaskAcknowledgement
    <2>2. /\ attempt' \in [Attempts -> Attempt]
          /\ \A j \in Attempts : AttemptControl(attempt'[j])
      BY <1>0, <2>1 DEF Attempt, AttemptControl
    <2>3. task' \in [Tasks -> Row]
      <3>1. attempt[i].task \in Tasks
        BY <1>0, <2>1 DEF AttemptControl
      <3>2. "running" \in TaskStatuses /\ task \in [Tasks -> Row]
        BY <1>0 DEF TaskStatuses, StoreTypeOK
      <3>. QED BY <2>1, <3>1, <3>2, StartedEffect, SetStatusEffect
    <2>4. faults' \in Nat
      BY <2>1 DEF ContextFails, Fault, TypeOK
    <2>. QED BY <1>6, <2>2, <2>3, <2>4
       DEF HandleTaskAcknowledgement, TypeOK, Control, history, StoreTypeOK
  <1>7. ASSUME NEW s \in Streams, Tick(s) PROVE TypeControl'
    <2>. DEFINE h == [Select EXCEPT !.pc = IF taskQueue = <<>> THEN "poll" ELSE "receive",
                                    !.depth = Len(taskQueue)]
    <2>1. h \in Handler /\ HandlerControl(h)
      <3>1. /\ Select \in Handler /\ Select.src = "queue" /\ Select.snap = {}
            /\ Len(taskQueue) \in Nat /\ (taskQueue = <<>> <=> Len(taskQueue) = 0)
        BY <1>0, FreshControl, QueueFacts DEF Select, Fresh
      <3>2. CASE taskQueue = <<>>
        BY <3>1, <3>2 DEF Handler, HandlerPC, HandlerControl
      <3>3. CASE taskQueue # <<>>
        <4>1. Len(taskQueue) > 0 /\ h = [Select EXCEPT !.pc = "receive", !.depth = Len(taskQueue)]
          BY <3>1, <3>3
        <4>. HIDE DEF h
        <4>. QED BY <3>1, <4>1 DEF Handler, HandlerPC, HandlerControl
      <3>. QED BY <3>2, <3>3
    <2>2. /\ handler' \in [Streams -> Handler]
          /\ \A x \in Streams : HandlerControl(handler'[x])
      BY <1>7, <2>1, HandlerUpdate DEF Tick
    <2>. QED BY <1>7, <2>2 DEF Tick, TypeOK, Control, history, storeVars, StoreTypeOK
  <1>8. ASSUME NEW s \in Streams, Receive(s) PROVE TypeControl'
    <2>. DEFINE h == [handler[s] EXCEPT !.pc = "load", !.cur = Head(taskQueue)]
    <2>1. h \in Handler /\ HandlerControl(h)
      <3>1. Head(taskQueue) \in Tasks
        BY <1>0, <1>8, QueueFacts DEF Receive
      <3>2. handler[s] \in Handler /\ HandlerControl(handler[s]) /\ handler[s].pc = "receive"
        BY <1>0, <1>8 DEF Receive
      <3>. QED BY <3>1, <3>2 DEF Handler, HandlerPC, HandlerControl
    <2>2. /\ handler' \in [Streams -> Handler]
          /\ \A x \in Streams : HandlerControl(handler'[x])
      BY <1>0, <1>8, <2>1, HandlerUpdate DEF Receive
    <2>3. taskQueue' \in Seq(Tasks) /\ Len(taskQueue') <= QueueCap
      BY <1>0, <1>8, QueueFacts, DispatchAssumption DEF Receive
    <2>. QED BY <1>8, <2>2, <2>3 DEF Receive, TypeOK, Control, history, storeVars, StoreTypeOK
  <1>9. ASSUME NEW s \in Streams, Load(s) PROVE TypeControl'
    <2>0. /\ handler[s] \in Handler /\ HandlerControl(handler[s])
          /\ handler[s].cur \in Tasks
          /\ handler[s].src = "queue" => handler[s].depth > 0 /\ handler[s].snap = {}
      BY <1>0, <1>9 DEF Load, HandlerControl
    <2>. DEFINE h == IF AgentOf[handler[s].cur] # StreamAgent[s] THEN Defer(handler[s])
                     ELSE IF task[handler[s].cur].status # "pending" THEN NextRound(handler[s])
                     ELSE [handler[s] EXCEPT !.pc = "send"]
    <2>1. [handler[s] EXCEPT !.pc = "send"] \in Handler
          /\ HandlerControl([handler[s] EXCEPT !.pc = "send"])
      BY <2>0, <1>9 DEF Load, Handler, HandlerPC, HandlerControl
    <2>2. h \in Handler /\ HandlerControl(h)
      BY <2>0, <2>1, NextRoundControl, DeferControl
    <2>3. /\ handler' \in [Streams -> Handler]
          /\ \A x \in Streams : HandlerControl(handler'[x])
      <3>1. handler' = [handler EXCEPT ![s] = h]
        BY <1>9 DEF Load
      <3>. HIDE DEF h
      <3>. QED BY <2>2, <3>1, HandlerUpdate
    <2>. QED BY <1>9, <2>3 DEF Load, TypeOK, Control, history, storeVars, StoreTypeOK
  <1>10. ASSUME NEW s \in Streams, LoadFails(s) PROVE TypeControl'
    <2>0. /\ handler[s] \in Handler /\ HandlerControl(handler[s])
          /\ handler[s].cur \in Tasks
          /\ handler[s].src = "queue" => handler[s].depth > 0 /\ handler[s].snap = {}
      BY <1>0, <1>10 DEF LoadFails, HandlerControl
    <2>1. /\ handler' \in [Streams -> Handler]
          /\ \A x \in Streams : HandlerControl(handler'[x])
      BY <1>10, <2>0, NextRoundControl, HandlerUpdate DEF LoadFails
    <2>2. faults' \in Nat
      BY <1>10 DEF LoadFails, ContextFails, Fault, TypeOK
    <2>. QED BY <1>10, <2>0, <2>1, <2>2 DEF LoadFails, TypeOK, Control, storeVars, StoreTypeOK
  <1>11. ASSUME NEW s \in Streams, Send(s) PROVE TypeControl'
    <2>1. PICK i \in FreeAttempts,
                t \in IF handler[s].src = "queue" THEN {handler[s].cur} ELSE handler[s].snap :
            /\ attempt' = [attempt EXCEPT ![i] =
                 [Unsent EXCEPT !.st = IF connected[s] THEN "wire" ELSE "lost",
                                !.task = t, !.stream = s]]
            /\ handler' = [handler EXCEPT ![s].pc = "record", ![s].cur = t,
                                          ![s].snap = handler[s].snap \ {t}]
      BY <1>11 DEF Send
    <2>2. i \in Attempts /\ t \in Tasks
      BY <1>0, <1>11, <2>1, FreeAttemptsFact DEF Send, HandlerControl, Handler
    <2>. DEFINE x == [Unsent EXCEPT !.st = IF connected[s] THEN "wire" ELSE "lost",
                                    !.task = t, !.stream = s]
                h == [handler[s] EXCEPT !.pc = "record", !.cur = t,
                                        !.snap = handler[s].snap \ {t}]
    <2>3. x \in Attempt /\ AttemptControl(x)
      BY <2>2 DEF Unsent, Attempt, AttemptStage, AgentStage, ResultStatuses, AttemptControl
    <2>4. h \in Handler /\ HandlerControl(h)
      <3>1. /\ handler[s] \in Handler /\ HandlerControl(handler[s]) /\ handler[s].pc = "send"
            /\ handler[s].snap \ {t} \in SUBSET Tasks
            /\ handler[s].snap = {} => handler[s].snap \ {t} = {}
        BY <1>0, <1>11 DEF Send, Handler
      <3>. QED BY <2>2, <3>1 DEF Handler, HandlerPC, HandlerControl
    <2>5. /\ handler' \in [Streams -> Handler]
          /\ \A z \in Streams : HandlerControl(handler'[z])
      BY <1>0, <2>1, <2>4, HandlerUpdate
    <2>6. /\ attempt' \in [Attempts -> Attempt]
          /\ \A j \in Attempts : AttemptControl(attempt'[j])
      BY <2>1, <2>2, <2>3, AttemptUpdate
    <2>. QED BY <1>11, <2>5, <2>6 DEF Send, TypeOK, Control, history, storeVars, StoreTypeOK
  <1>12. ASSUME NEW s \in Streams, SendFails(s) PROVE TypeControl'
    <2>1. /\ handler' \in [Streams -> Handler]
          /\ \A x \in Streams : HandlerControl(handler'[x])
      <3>1. CASE handler[s].src = "queue"
        <4>1. /\ handler[s] \in Handler /\ handler[s].cur \in Tasks
              /\ handler[s].depth > 0 /\ handler[s].snap = {}
          BY <1>0, <1>12, <3>1 DEF SendFails, HandlerControl
        <4>. QED BY <1>12, <3>1, <4>1, DeferControl, HandlerUpdate DEF SendFails
      <3>2. CASE handler[s].src # "queue"
        BY <1>12, <3>2, FreshControl, HandlerUpdate DEF SendFails, Off
      <3>. QED BY <3>1, <3>2
    <2>2. /\ attempt' \in [Attempts -> Attempt]
          /\ \A i \in Attempts : AttemptControl(attempt'[i])
      BY <1>0, <1>12, AcksOverControl DEF SendFails
    <2>. QED BY <1>12, <2>1, <2>2 DEF SendFails, TypeOK, Control, history, storeVars, StoreTypeOK
  <1>13. ASSUME NEW s \in Streams, RecordAssigned(s) PROVE TypeControl'
    <2>0. /\ handler[s] \in Handler /\ HandlerControl(handler[s])
          /\ handler[s].cur \in Tasks
          /\ handler[s].src = "queue" => handler[s].depth > 0 /\ handler[s].snap = {}
      BY <1>0, <1>13 DEF RecordAssigned, HandlerControl
    <2>1. /\ handler' \in [Streams -> Handler]
          /\ \A x \in Streams : HandlerControl(handler'[x])
      BY <1>13, <2>0, NextRoundControl, HandlerUpdate DEF RecordAssigned
    <2>2. task' \in [Tasks -> Row]
      BY <1>0, <2>0, <1>13, IfCurrentEffect, SetStatusEffect
         DEF RecordAssigned, StoreTypeOK, TaskStatuses
    <2>3. faults' \in Nat /\ unrecorded' \subseteq Tasks
      BY <1>13, <2>0 DEF RecordAssigned, ContextFails, Fault, TypeOK
    <2>. QED BY <1>13, <2>1, <2>2, <2>3 DEF RecordAssigned, TypeOK, Control, StoreTypeOK
  <1>14. ASSUME NEW s \in Streams, Requeue(s) PROVE TypeControl'
    <2>. DEFINE h == [handler[s] EXCEPT
                        !.deferred = Tail(handler[s].deferred),
                        !.pc = IF Len(handler[s].deferred) > 1 THEN "requeue" ELSE "poll"]
    <2>0. /\ handler[s].deferred \in Seq(Tasks) /\ handler[s].deferred # <<>>
      BY <1>0, <1>14 DEF Requeue, Handler, HandlerControl
    <2>1. h \in Handler /\ HandlerControl(h)
      <3>1. /\ handler[s] \in Handler /\ HandlerControl(handler[s]) /\ handler[s].pc = "requeue"
            /\ Tail(handler[s].deferred) \in Seq(Tasks)
            /\ Len(handler[s].deferred) \in Nat
            /\ Len(handler[s].deferred) > 1 => Tail(handler[s].deferred) # <<>>
        <4>1. handler[s] \in Handler /\ HandlerControl(handler[s]) /\ handler[s].pc = "requeue"
          BY <1>0, <1>14 DEF Requeue
        <4>. QED BY <2>0, <4>1, TailFacts
      <3>2. CASE Len(handler[s].deferred) > 1
        BY <3>1, <3>2 DEF Handler, HandlerPC, HandlerControl
      <3>3. CASE ~ Len(handler[s].deferred) > 1
        BY <3>1, <3>3 DEF Handler, HandlerPC, HandlerControl
      <3>. QED BY <3>2, <3>3
    <2>2. /\ handler' \in [Streams -> Handler]
          /\ \A x \in Streams : HandlerControl(handler'[x])
      BY <1>0, <1>14, <2>1, HandlerUpdate DEF Requeue
    <2>3. taskQueue' \in Seq(Tasks) /\ Len(taskQueue') <= QueueCap
      BY <1>0, <2>0, <1>14, QueueFacts, DispatchAssumption DEF Requeue, HasRoom
    <2>. QED BY <1>14, <2>2, <2>3 DEF Requeue, TypeOK, Control, history, storeVars, StoreTypeOK
  <1>15. ASSUME NEW s \in Streams, Poll(s) PROVE TypeControl'
    <2>. DEFINE h == [Select EXCEPT !.src = "poll", !.snap = GetPendingTasksByAgent(StreamAgent[s])]
    <2>1. h \in Handler /\ h.src = "poll"
      BY FreshControl DEF Select, Fresh, Handler, GetPendingTasksByAgent
    <2>2. NextRound(h) \in Handler /\ HandlerControl(NextRound(h))
      BY <2>1, NextRoundControl
    <2>3. /\ handler' \in [Streams -> Handler]
          /\ \A x \in Streams : HandlerControl(handler'[x])
      BY <1>15, <2>2, HandlerUpdate DEF Poll
    <2>. QED BY <1>15, <2>3 DEF Poll, TypeOK, Control, history, storeVars, StoreTypeOK
  <1>16. ASSUME NEW s \in Streams, PollFails(s) PROVE TypeControl'
    <2>1. /\ handler' \in [Streams -> Handler]
          /\ \A x \in Streams : HandlerControl(handler'[x])
      BY <1>16, FreshControl, HandlerUpdate DEF PollFails, Select
    <2>2. faults' \in Nat
      BY <1>16 DEF PollFails, ContextFails, Fault, TypeOK
    <2>. QED BY <1>16, <2>1, <2>2 DEF PollFails, TypeOK, Control, history, storeVars, StoreTypeOK
  <1>17. ASSUME NEW i \in Attempts, AgentStart(i) PROVE TypeControl'
    <2>. DEFINE ack == IF attempt[i].st = "wire" THEN "sent" ELSE "over"
                x == [attempt[i] EXCEPT !.st = "running", !.ack = ack]
    <2>1. ack \in {"sent", "over"}
      OBVIOUS
    <2>2. x \in Attempt /\ AttemptControl(x)
      <3>1. attempt[i] \in Attempt /\ AttemptControl(attempt[i]) /\ attempt[i].st # "free"
        BY <1>0, <1>17 DEF AgentStart
      <3>. HIDE DEF ack
      <3>. QED BY <2>1, <3>1 DEF Attempt, AttemptStage, AgentStage, CallStage, AttemptControl
    <2>3. attempt' = [attempt EXCEPT ![i] = x]
      BY <1>0, <1>17 DEF AgentStart
    <2>4. /\ attempt' \in [Attempts -> Attempt]
          /\ \A j \in Attempts : AttemptControl(attempt'[j])
      <3>. HIDE DEF x
      <3>. QED BY <2>2, <2>3, AttemptUpdate
    <2>. QED BY <1>17, <2>4 DEF AgentStart, TypeOK, Control, history, storeVars, StoreTypeOK
  <1>18. ASSUME NEW i \in Attempts, AgentReport(i) PROVE TypeControl'
    <2>0. PICK status \in Outcomes :
            attempt' = [attempt EXCEPT ![i].st = "read", ![i].outcome = status]
      BY <1>18 DEF AgentReport
    <2>. DEFINE x == [attempt[i] EXCEPT !.st = "read", !.outcome = status]
    <2>1. status \in ResultStatuses
      BY DispatchAssumption
    <2>2. x \in Attempt /\ AttemptControl(x)
      <3>1. attempt[i] \in Attempt /\ AttemptControl(attempt[i]) /\ attempt[i].st # "free"
        BY <1>0, <1>18 DEF AgentReport
      <3>. QED BY <2>1, <3>1 DEF Attempt, AttemptStage, AgentStage, CallStage, AttemptControl
    <2>3. attempt' = [attempt EXCEPT ![i] = x]
      BY <1>0, <1>18, <2>0 DEF AgentReport
    <2>4. /\ attempt' \in [Attempts -> Attempt]
          /\ \A j \in Attempts : AttemptControl(attempt'[j])
      <3>. HIDE DEF x
      <3>. QED BY <2>2, <2>3, AttemptUpdate
    <2>. QED BY <1>18, <2>4 DEF AgentReport, TypeOK, Control, history, storeVars, StoreTypeOK
  <1>19. ASSUME NEW i \in Attempts, ReadTask(i) PROVE TypeControl'
    <2>. DEFINE recurring == (task[attempt[i].task].schedule = "RECURRING")
                x == [attempt[i] EXCEPT !.st = "save", !.recurring = recurring]
    <2>1. recurring \in BOOLEAN
      OBVIOUS
    <2>2. x \in Attempt /\ AttemptControl(x)
      <3>1. attempt[i] \in Attempt /\ AttemptControl(attempt[i]) /\ attempt[i].st # "free"
        BY <1>0, <1>19 DEF ReadTask
      <3>. HIDE DEF recurring
      <3>. QED BY <2>1, <3>1 DEF Attempt, AttemptStage, AgentStage, CallStage, AttemptControl
    <2>3. attempt' = [attempt EXCEPT ![i] = x]
      BY <1>0, <1>19 DEF ReadTask
    <2>4. /\ attempt' \in [Attempts -> Attempt]
          /\ \A j \in Attempts : AttemptControl(attempt'[j])
      <3>. HIDE DEF x
      <3>. QED BY <2>2, <2>3, AttemptUpdate
    <2>. QED BY <1>19, <2>4 DEF ReadTask, TypeOK, Control, history, storeVars, StoreTypeOK
  <1>20. ASSUME NEW i \in Attempts, SaveResult(i) PROVE TypeControl'
    <2>. DEFINE x == [attempt[i] EXCEPT !.st = "mark"]
    <2>1. TRUE
      OBVIOUS
    <2>2. x \in Attempt /\ AttemptControl(x)
      <3>1. attempt[i] \in Attempt /\ AttemptControl(attempt[i]) /\ attempt[i].st # "free"
        BY <1>0, <1>20 DEF SaveResult
      <3>. QED BY <2>1, <3>1 DEF Attempt, AttemptStage, AgentStage, CallStage, AttemptControl
    <2>3. attempt' = [attempt EXCEPT ![i] = x]
      BY <1>0, <1>20 DEF SaveResult
    <2>4. /\ attempt' \in [Attempts -> Attempt]
          /\ \A j \in Attempts : AttemptControl(attempt'[j])
      <3>. HIDE DEF x
      <3>. QED BY <2>2, <2>3, AttemptUpdate
    <2>5. attempt[i].task \in Tasks /\ attempt[i].outcome \in ResultStatuses
      BY <1>0, <1>20 DEF SaveResult, AttemptControl, Attempt
    <2>6. results' \subseteq Tasks \X ResultStatuses
      BY <1>0, <2>5, <1>20 DEF SaveResult, CreateTaskResult, StoreTypeOK
    <2>. QED BY <1>20, <2>4, <2>6 DEF SaveResult, TypeOK, Control, history, StoreTypeOK
  <1>21. ASSUME NEW i \in Attempts, MarkCompleted(i) PROVE TypeControl'
    <2>. DEFINE st == IF attempt[i].outcome = "SUCCESS" THEN "chain" ELSE "done"
                x == [attempt[i] EXCEPT !.st = st]
    <2>1. st \in {"chain", "done"}
      OBVIOUS
    <2>2. x \in Attempt /\ AttemptControl(x)
      <3>1. attempt[i] \in Attempt /\ AttemptControl(attempt[i]) /\ attempt[i].st # "free"
        BY <1>0, <1>21 DEF MarkCompleted
      <3>. HIDE DEF st
      <3>. QED BY <2>1, <3>1 DEF Attempt, AttemptStage, AgentStage, CallStage, AttemptControl
    <2>3. attempt' = [attempt EXCEPT ![i] = x]
      BY <1>0, <1>21 DEF MarkCompleted
    <2>4. /\ attempt' \in [Attempts -> Attempt]
          /\ \A j \in Attempts : AttemptControl(attempt'[j])
      <3>. HIDE DEF x
      <3>. QED BY <2>2, <2>3, AttemptUpdate
    <2>5. attempt[i].task \in Tasks /\ attempt[i].outcome \in ResultStatuses
      BY <1>0, <1>21 DEF MarkCompleted, AttemptControl, Attempt
    <2>. DEFINE status == IF attempt[i].recurring THEN "pending"
                          ELSE FinalStatus(attempt[i].outcome)
    <2>6. status \in TaskStatuses
      BY <2>5, FinalStatusTerminal DEF TaskStatuses
    <2>7. task' \in [Tasks -> Row]
      BY <1>0, <2>5, <2>6, <1>21, SetStatusEffect DEF MarkCompleted, MarkTaskCompleted, StoreTypeOK
    <2>. QED BY <1>21, <2>4, <2>7 DEF MarkCompleted, TypeOK, Control, history, StoreTypeOK
  <1>22. ASSUME NEW i \in Attempts, LoadChained(i) PROVE TypeControl'
    <2>. DEFINE chained == GetTasksByPrerequisite(attempt[i].task)
                st == IF chained = {} THEN "done" ELSE "push"
                x == [attempt[i] EXCEPT !.chain = chained, !.st = st]
    <2>1. chained \subseteq Tasks /\ st \in {"done", "push"}
      BY DEF GetTasksByPrerequisite
    <2>2. x \in Attempt /\ AttemptControl(x)
      <3>1. attempt[i] \in Attempt /\ AttemptControl(attempt[i]) /\ attempt[i].st # "free"
        BY <1>0, <1>22 DEF LoadChained
      <3>. HIDE DEF chained, st
      <3>. QED BY <2>1, <3>1 DEF Attempt, AttemptStage, AgentStage, CallStage, AttemptControl
    <2>3. attempt' = [attempt EXCEPT ![i] = x]
      BY <1>0, <1>22 DEF LoadChained
    <2>4. /\ attempt' \in [Attempts -> Attempt]
          /\ \A j \in Attempts : AttemptControl(attempt'[j])
      <3>. HIDE DEF x
      <3>. QED BY <2>2, <2>3, AttemptUpdate
    <2>. QED BY <1>22, <2>4 DEF LoadChained, TypeOK, Control, history, storeVars, StoreTypeOK
  <1>23. ASSUME NEW i \in Attempts, PushChained(i) PROVE TypeControl'
    <2>0. PICK t \in attempt[i].chain :
            /\ taskQueue' = Append(taskQueue, t)
            /\ triggered' = triggered \cup {t}
            /\ attempt' = [attempt EXCEPT ![i].chain = attempt[i].chain \ {t},
                 ![i].st = IF attempt[i].chain = {t} THEN "done" ELSE "push"]
      BY <1>23 DEF PushChained
    <2>. DEFINE st == IF attempt[i].chain = {t} THEN "done" ELSE "push"
                chain == attempt[i].chain \ {t}
                x == [attempt[i] EXCEPT !.chain = chain, !.st = st]
    <2>1. chain \subseteq Tasks /\ st \in {"done", "push"} /\ t \in Tasks
      BY <1>0 DEF Attempt
    <2>2. x \in Attempt /\ AttemptControl(x)
      <3>1. attempt[i] \in Attempt /\ AttemptControl(attempt[i]) /\ attempt[i].st # "free"
        BY <1>0, <1>23 DEF PushChained
      <3>. HIDE DEF st, chain
      <3>. QED BY <2>1, <3>1 DEF Attempt, AttemptStage, AgentStage, CallStage, AttemptControl
    <2>3. attempt' = [attempt EXCEPT ![i] = x]
      BY <1>0, <1>23, <2>0 DEF PushChained
    <2>4. /\ attempt' \in [Attempts -> Attempt]
          /\ \A j \in Attempts : AttemptControl(attempt'[j])
      <3>. HIDE DEF x
      <3>. QED BY <2>2, <2>3, AttemptUpdate
    <2>5. taskQueue' \in Seq(Tasks) /\ Len(taskQueue') <= QueueCap
      BY <1>0, <1>23, <2>0, <2>1, QueueFacts, DispatchAssumption DEF PushChained, HasRoom
    <2>. QED BY <1>23, <2>0, <2>1, <2>4, <2>5
       DEF PushChained, TypeOK, Control, storeVars, StoreTypeOK
  <1>24. ASSUME NEW i \in Attempts, CallFails(i) PROVE TypeControl'
    <2>1. /\ attempt' \in [Attempts -> Attempt]
          /\ \A j \in Attempts : AttemptControl(attempt'[j])
      BY <1>0, <1>24, CancelledControl, AttemptUpdate DEF CallFails
    <2>. QED BY <1>24, <2>1 DEF CallFails, Fault, TypeOK, Control, history, storeVars, StoreTypeOK
  <1>25. ASSUME NEW s \in Streams, Disconnect(s) PROVE TypeControl'
    <2>1. \A j \in Attempts :
             attempt'[j] \in {attempt[j]} \cup
               IF attempt[j].st = "free" THEN {}
               ELSE {[attempt[j] EXCEPT !.st = "orphaned"], [attempt[j] EXCEPT !.st = "lost"],
                     Cancelled(attempt[j])}
      BY <1>0, <1>25 DEF Disconnect, Calling, AgentStage
    <2>2. /\ attempt' \in [Attempts -> Attempt]
          /\ \A j \in Attempts : AttemptControl(attempt'[j])
      <3>1. \A j \in Attempts : attempt'[j] \in Attempt /\ AttemptControl(attempt'[j])
        <4>1. TAKE j \in Attempts
        <4>2. attempt[j] \in Attempt /\ AttemptControl(attempt[j])
          BY <1>0
        <4>3. CASE attempt[j].st = "free"
          BY <2>1, <4>2, <4>3
        <4>4. CASE attempt[j].st # "free"
          <5>1. "orphaned" \in AttemptStage \ {"free"} /\ "lost" \in AttemptStage \ {"free"}
            BY DEF AttemptStage, AgentStage
          <5>2. /\ [attempt[j] EXCEPT !.st = "orphaned"] \in Attempt
                /\ AttemptControl([attempt[j] EXCEPT !.st = "orphaned"])
            BY <4>2, <4>4, <5>1, StageChange
          <5>3. /\ [attempt[j] EXCEPT !.st = "lost"] \in Attempt
                /\ AttemptControl([attempt[j] EXCEPT !.st = "lost"])
            BY <4>2, <4>4, <5>1, StageChange
          <5>4. Cancelled(attempt[j]) \in Attempt /\ AttemptControl(Cancelled(attempt[j]))
            BY <4>2, <4>4, CancelledControl
          <5>. QED BY <2>1, <4>2, <4>4, <5>2, <5>3, <5>4
        <4>. QED BY <4>3, <4>4
      <3>2. attempt' = [j \in Attempts |-> attempt'[j]]
        BY <1>25 DEF Disconnect
      <3>. QED BY <3>1, <3>2
    <2>3. UNCHANGED <<storeVars, taskQueue, handler, history, edits>>
      BY <1>25 DEF Disconnect
    <2>4. connected' \in [Streams -> BOOLEAN] /\ faults' \in Nat
      BY <1>25 DEF Disconnect, Fault, TypeOK
    <2>. QED BY <2>2, <2>3, <2>4 DEF TypeOK, Control, history, storeVars, StoreTypeOK
  <1>26. ASSUME NEW a \in Agents, AgentCrash(a) PROVE TypeControl'
    <2>1. \A j \in Attempts :
             attempt'[j] \in {attempt[j]} \cup
               IF attempt[j].st = "free" THEN {}
               ELSE {[attempt[j] EXCEPT !.st = "orphaned"], [attempt[j] EXCEPT !.st = "lost"],
                     Cancelled(attempt[j])}
      BY <1>0, <1>26 DEF AgentCrash, Calling, AgentStage
    <2>2. /\ attempt' \in [Attempts -> Attempt]
          /\ \A j \in Attempts : AttemptControl(attempt'[j])
      <3>1. \A j \in Attempts : attempt'[j] \in Attempt /\ AttemptControl(attempt'[j])
        <4>1. TAKE j \in Attempts
        <4>2. attempt[j] \in Attempt /\ AttemptControl(attempt[j])
          BY <1>0
        <4>3. CASE attempt[j].st = "free"
          BY <2>1, <4>2, <4>3
        <4>4. CASE attempt[j].st # "free"
          <5>1. "orphaned" \in AttemptStage \ {"free"} /\ "lost" \in AttemptStage \ {"free"}
            BY DEF AttemptStage, AgentStage
          <5>2. /\ [attempt[j] EXCEPT !.st = "orphaned"] \in Attempt
                /\ AttemptControl([attempt[j] EXCEPT !.st = "orphaned"])
            BY <4>2, <4>4, <5>1, StageChange
          <5>3. /\ [attempt[j] EXCEPT !.st = "lost"] \in Attempt
                /\ AttemptControl([attempt[j] EXCEPT !.st = "lost"])
            BY <4>2, <4>4, <5>1, StageChange
          <5>4. Cancelled(attempt[j]) \in Attempt /\ AttemptControl(Cancelled(attempt[j]))
            BY <4>2, <4>4, CancelledControl
          <5>. QED BY <2>1, <4>2, <4>4, <5>2, <5>3, <5>4
        <4>. QED BY <4>3, <4>4
      <3>2. attempt' = [j \in Attempts |-> attempt'[j]]
        BY <1>26 DEF AgentCrash
      <3>. QED BY <3>1, <3>2
    <2>3. UNCHANGED <<storeVars, taskQueue, handler, history, edits>>
      BY <1>26 DEF AgentCrash
    <2>4. connected' \in [Streams -> BOOLEAN] /\ faults' \in Nat
      BY <1>26 DEF AgentCrash, Fault, TypeOK
    <2>. QED BY <2>2, <2>3, <2>4 DEF TypeOK, Control, history, storeVars, StoreTypeOK
  <1>27. ASSUME ServerCrash PROVE TypeControl'
    <2>1. /\ attempt' \in [Attempts -> Attempt]
          /\ \A i \in Attempts : AttemptControl(attempt'[i])
      <3>1. PICK received \in SUBSET {i \in Attempts : attempt[i].st = "wire"} :
              attempt' = [i \in Attempts |->
                [attempt[i] EXCEPT
                   !.st = IF i \in received THEN "orphaned"
                          ELSE IF attempt[i].st \in CallStage \cup {"wire"} THEN "lost"
                          ELSE attempt[i].st,
                   !.ack = IF attempt[i].ack = "sent" THEN "over" ELSE attempt[i].ack]]
        BY <1>27 DEF ServerCrash
      <3>2. SUFFICES ASSUME NEW i \in Attempts
                     PROVE  attempt'[i] \in Attempt /\ AttemptControl(attempt'[i])
        BY <3>1
      <3>. DEFINE st == IF i \in received THEN "orphaned"
                        ELSE IF attempt[i].st \in CallStage \cup {"wire"} THEN "lost"
                        ELSE attempt[i].st
                  ack == IF attempt[i].ack = "sent" THEN "over" ELSE attempt[i].ack
      <3>3. attempt[i] \in Attempt /\ AttemptControl(attempt[i])
        BY <1>0
      <3>4. /\ st \in AttemptStage /\ ack \in {"none", "sent", "over"}
            /\ st = "free" <=> attempt[i].st = "free"
            /\ attempt[i].st = "free" => ack = "none"
        BY <3>3 DEF Attempt, AttemptStage, AgentStage, CallStage, AttemptControl
      <3>5. attempt'[i] = [attempt[i] EXCEPT !.st = st, !.ack = ack]
        BY <3>1
      <3>. HIDE DEF st, ack
      <3>. QED BY <3>3, <3>4, <3>5 DEF Attempt, AttemptControl
    <2>2. /\ handler' \in [Streams -> Handler]
          /\ \A x \in Streams : HandlerControl(handler'[x])
      BY <1>27, FreshControl DEF ServerCrash, Off
    <2>3. dropped' \subseteq Tasks
      <3>1. InQueue \subseteq Tasks
        BY <1>0, QueueFacts DEF InQueue
      <3>. QED BY <1>27, <3>1 DEF ServerCrash, TypeOK
    <2>4. unrecorded' \subseteq Tasks
      <3>1. \A s \in Streams : handler[s].pc = "record" => handler[s].cur \in Tasks
        BY <1>0 DEF HandlerControl
      <3>2. {handler[s].cur : s \in {x \in Streams : handler[x].pc = "record"}} \subseteq Tasks
        BY <3>1
      <3>3. unrecorded' = unrecorded
              \cup {handler[s].cur : s \in {x \in Streams : handler[x].pc = "record"}}
        BY <1>27 DEF ServerCrash
      <3>. QED BY <3>2, <3>3 DEF TypeOK
    <2>5. taskQueue' \in Seq(Tasks) /\ Len(taskQueue') <= QueueCap
      <3>1. <<>> \in Seq(Tasks) /\ Len(<<>>) = 0
        OBVIOUS
      <3>2. taskQueue' = <<>>
        BY <1>27 DEF ServerCrash
      <3>. QED BY <3>1, <3>2, DispatchAssumption
    <2>6. /\ faults' \in Nat /\ connected' \in [Streams -> BOOLEAN]
          /\ UNCHANGED <<task, results, held, triggered, edits>>
      <3>1. /\ Fault("server") /\ connected' = [s \in Streams |-> FALSE]
            /\ UNCHANGED <<storeVars, triggered, edits>>
        BY <1>27, Zenon DEF ServerCrash
      <3>. QED BY <3>1 DEF Fault, TypeOK, storeVars
    <2>. QED BY <2>1, <2>2, <2>3, <2>4, <2>5, <2>6 DEF TypeOK, Control, StoreTypeOK
  <1>28. CASE UNCHANGED vars
    BY <1>28 DEF vars, history, storeVars, TypeOK, Control, StoreTypeOK, Handler, Attempt
  <1>. QED
    BY <1>1, <1>2, <1>3, <1>4, <1>5, <1>6, <1>7, <1>8, <1>9, <1>10, <1>11, <1>12, <1>13, <1>14,
        <1>15, <1>16, <1>17, <1>18, <1>19, <1>20, <1>21,
        <1>22, <1>23, <1>24, <1>25, <1>26, <1>27, <1>28
     DEF Next

\* TaskDispatch keeps the types of its variables: depth never counts below zero and the
\* queue never exceeds its capacity (dispatchQueuedTasks, taskQueue).
THEOREM TypeCorrect == Spec => []TypeOK
  <1>1. Init => TypeControl
    BY TypeInit
  <1>2. TypeControl /\ [Next]_vars => TypeControl'
    BY TypeStep
  <1>3. TypeControl => TypeOK
    BY DEF TypeControl
  <1>. QED BY <1>1, <1>2, <1>3, PTL DEF Spec

-----------------------------------------------------------------------------
(* Which actions write which variable.  The proofs below look at these only. *)

\* The tables.
LEMMA StoreFrame ==
  ASSUME [Next]_vars
  PROVE  \/ UNCHANGED <<task, results, held>>
         \/ \E t \in Tasks : Create(t) \/ Reschedule(t)
         \/ \E s \in Streams : HandleTaskAcknowledgement(s) \/ RecordAssigned(s)
         \/ \E i \in Attempts : SaveResult(i) \/ MarkCompleted(i)
  BY DEF Next, vars, storeVars, SchedulerQueues, Connect, HandlerExit, Tick, Receive, Load,
     LoadFails, Send, SendFails, Requeue, Poll, PollFails, AgentStart, AgentReport, ReadTask,
     LoadChained, PushChained, CallFails, Disconnect, AgentCrash, ServerCrash

\* The commands.
LEMMA AttemptFrame ==
  ASSUME [Next]_vars
  PROVE  \/ UNCHANGED attempt
         \/ \E s \in Streams : \/ HandlerExit(s) \/ HandleTaskAcknowledgement(s) \/ Send(s)
                              \/ SendFails(s) \/ Disconnect(s)
         \/ \E i \in Attempts : \/ AgentStart(i) \/ AgentReport(i) \/ ReadTask(i) \/ SaveResult(i)
                               \/ MarkCompleted(i) \/ LoadChained(i) \/ PushChained(i)
                               \/ CallFails(i)
         \/ \E a \in Agents : AgentCrash(a)
         \/ ServerCrash
  BY DEF Next, vars, Create, Reschedule, SchedulerQueues, Connect, Tick, Receive, Load,
     LoadFails, RecordAssigned, Requeue, Poll, PollFails

\* The handlers.
LEMMA HandlerFrame ==
  ASSUME [Next]_vars
  PROVE  \/ UNCHANGED handler
         \/ \E s \in Streams : \/ Connect(s) \/ HandlerExit(s) \/ Tick(s) \/ Receive(s) \/ Load(s)
                              \/ LoadFails(s) \/ Send(s) \/ SendFails(s) \/ RecordAssigned(s)
                              \/ Requeue(s) \/ Poll(s) \/ PollFails(s)
         \/ ServerCrash
  BY DEF Next, vars, Create, Reschedule, SchedulerQueues, HandleTaskAcknowledgement,
     AgentStart, AgentReport, ReadTask, SaveResult, MarkCompleted, LoadChained, PushChained,
     CallFails, Disconnect, AgentCrash

\* The shared queue.
LEMMA QueueFrame ==
  ASSUME [Next]_vars
  PROVE  \/ UNCHANGED taskQueue
         \/ \E t \in Tasks : SchedulerQueues(t)
         \/ \E s \in Streams : Receive(s) \/ Requeue(s)
         \/ \E i \in Attempts : PushChained(i)
         \/ ServerCrash
  BY DEF Next, vars, Create, Reschedule, Connect, HandlerExit, HandleTaskAcknowledgement, Tick,
     Load, LoadFails, Send, SendFails, RecordAssigned, Poll, PollFails, AgentStart, AgentReport,
     ReadTask, SaveResult, MarkCompleted, LoadChained, CallFails, Disconnect, AgentCrash

-----------------------------------------------------------------------------
(* The parts of the inductive invariant about tasks. *)

\* What a handler is sending, or has sent and is about to record.
Carried(s) ==
  {t \in Tasks : t = handler[s].cur
                  /\ \/ handler[s].pc = "record"
                     \/ handler[s].pc = "send" /\ handler[s].src = "queue"}

\* Everything stream s has to do with past the look at the row.
OnStream(s) ==
  Carried(s) \cup handler[s].snap
    \cup {attempt[i].task : i \in {k \in Attempts : Sent(k) /\ attempt[k].stream = s}}

Ownership ==
  \A s \in Streams : \A t \in OnStream(s) : Exists(t) /\ AgentOf[t] = StreamAgent[s]

\* A handler that is about to record has sent.
RecordSent ==
  \A s \in Streams : handler[s].pc = "record"
    => \E i \in Attempts : Sent(i) /\ attempt[i].task = handler[s].cur

\* A result call past its insert has a result on record; the schedule type it has

\* read was one of the task's.
CallsRecorded ==
  \A i \in Attempts :
    /\ attempt[i].st \in {"mark", "chain", "push"}
         => <<attempt[i].task, attempt[i].outcome>> \in results
    /\ attempt[i].st \in {"chain", "push"} => attempt[i].outcome = "SUCCESS"
    /\ Sent(i) /\ attempt[i].recurring => ~ OneShot(attempt[i].task)

\* Only creation makes a task chained, and a change of schedule ends it for good.
HeldSchedules ==
  \A t \in Tasks :
    /\ Exists(t) <=> held[t] # {}
    /\ Exists(t) => task[t].schedule \in held[t]
    /\ task[t].schedule = "CHAINED" => held[t] = {"CHAINED"}

\* t may be sent as far as its prerequisite goes.
Released(t) ==
  /\ Exists(t)
  /\ task[t].schedule = "CHAINED" => <<task[t].prerequisite, "SUCCESS">> \in results

\* Every task whose id is queued, deferred, looked at or to be pushed.
DeferredIn(h) == {h.deferred[k] : k \in 1..Len(h.deferred)}

UnderWay ==
  {t \in Tasks : \/ t \in InQueue
                 \/ \E s \in Streams : t \in DeferredIn(handler[s])
                 \/ \E s \in Streams : handler[s].pc = "load" /\ t = handler[s].cur
                 \/ \E i \in Attempts : t \in attempt[i].chain}

OnlyReleased ==
  /\ \A t \in UnderWay : Released(t)
  /\ \A s \in Streams : \A t \in OnStream(s) : Released(t)

-----------------------------------------------------------------------------
(* How a row changes. *)

\* The five ways a status changes.
StatusStep(t) ==
  \/ task'[t].status = task[t].status
  \/ ~ Exists(t) /\ task'[t].status = "pending"
  \/ /\ task[t].status = "pending" /\ task'[t].status = "assigned"
     /\ \E s \in Streams : handler[s].pc = "record" /\ handler[s].cur = t
  \/ task[t].status = "assigned" /\ task'[t].status = "running"
  \/ \E i \in Attempts :
       /\ attempt[i].st = "mark" /\ attempt[i].task = t
       /\ task'[t].status = IF attempt[i].recurring THEN "pending"
                            ELSE FinalStatus(attempt[i].outcome)

ScheduleStep(t) ==
  \/ /\ task'[t].schedule = task[t].schedule /\ task'[t].prerequisite = task[t].prerequisite
     /\ held'[t] = held[t] /\ (Exists(t) <=> Exists(t)')
  \/ /\ task'[t].schedule \in ScheduleTypes /\ held'[t] = held[t] \cup {task'[t].schedule}
     /\ Exists(t)'
     /\ Exists(t) => task'[t].schedule # "CHAINED"

\* Every step changes a row in one of these ways.
LEMMA RowSteps ==
  ASSUME TypeControl, Ownership, [Next]_vars, NEW t \in Tasks
  PROVE  StatusStep(t) /\ ScheduleStep(t) /\ results \subseteq results'
  <1>0. /\ StoreTypeOK /\ task \in [Tasks -> Row]
        /\ \A s \in Streams : HandlerControl(handler[s])
        /\ \A i \in Attempts : attempt[i] \in Attempt /\ AttemptControl(attempt[i])
    BY DEF TypeControl, TypeOK, Control, StoreTypeOK
  <1>1. CASE UNCHANGED <<task, results, held>>
    BY <1>1 DEF StatusStep, ScheduleStep, Exists
  <1>2. ASSUME NEW u \in Tasks, Create(u)
        PROVE  StatusStep(t) /\ ScheduleStep(t) /\ results \subseteq results'
    <2>1. PICK schedule \in Creations[u], p \in Tasks \cup {NoTask} : CreateTask(u, schedule, p)
      BY <1>2 DEF Create
    <2>2. schedule \in ScheduleTypes
      BY DispatchAssumption
    <2>3. /\ ~ Exists(u)
          /\ task'[u] = [status |-> "pending", schedule |-> schedule, prerequisite |-> p]
          /\ held'[u] = held[u] \cup {schedule}
          /\ \A x \in Tasks \ {u} : task'[x] = task[x] /\ held'[x] = held[x]
          /\ results' = results
      BY <1>0, <2>1, <2>2, CreateTaskEffect
    <2>4. CASE t = u
      BY <2>2, <2>3, <2>4 DEF StatusStep, ScheduleStep, Exists
    <2>5. CASE t # u
      BY <2>3, <2>5 DEF StatusStep, ScheduleStep, Exists
    <2>. QED BY <2>4, <2>5
  <1>3. ASSUME NEW u \in Tasks, Reschedule(u)
        PROVE  StatusStep(t) /\ ScheduleStep(t) /\ results \subseteq results'
    <2>1. PICK schedule \in ScheduleTypes \ {"CHAINED"} : UpdateTaskSchedule(u, schedule)
      BY <1>3 DEF Reschedule
    <2>2. /\ Exists(u)
          /\ task'[u] = [status |-> task[u].status, schedule |-> schedule,
                          prerequisite |-> NoTask]
          /\ held'[u] = held[u] \cup {schedule}
          /\ \A x \in Tasks \ {u} : task'[x] = task[x] /\ held'[x] = held[x]
          /\ results' = results
      BY <1>0, <2>1, UpdateTaskScheduleEffect
    <2>3. CASE t = u
      BY <2>1, <2>2, <2>3 DEF StatusStep, ScheduleStep, Exists
    <2>4. CASE t # u
      BY <2>2, <2>4 DEF StatusStep, ScheduleStep, Exists
    <2>. QED BY <2>3, <2>4
  <1>4. ASSUME NEW s \in Streams, HandleTaskAcknowledgement(s)
        PROVE  StatusStep(t) /\ ScheduleStep(t) /\ results \subseteq results'
    <2>1. PICK i \in Attempts :
            /\ attempt[i].ack = "sent"
            /\ \/ MarkTaskStartedIfCurrent(attempt[i].task, "assigned")
               \/ UNCHANGED task
      BY <1>4 DEF HandleTaskAcknowledgement
    <2>2. attempt[i].task \in Tasks /\ "running" \in TaskStatuses
      BY <1>0, <2>1 DEF AttemptControl, TaskStatuses
    <2>3. \/ UNCHANGED task
          \/ task[attempt[i].task].status = "assigned" /\ SetStatus(attempt[i].task, "running")
      BY <1>0, <2>1, <2>2, StartedEffect
    <2>4. UNCHANGED <<results, held>>
      BY <1>4 DEF HandleTaskAcknowledgement
    <2>. QED BY <1>0, <2>2, <2>3, <2>4, SetStatusEffect DEF StatusStep, ScheduleStep, Exists
  <1>5. ASSUME NEW s \in Streams, RecordAssigned(s)
        PROVE  StatusStep(t) /\ ScheduleStep(t) /\ results \subseteq results'
    <2>1. /\ handler[s].pc = "record" /\ handler[s].cur \in Tasks
          /\ "assigned" \in TaskStatuses /\ UNCHANGED <<results, held>>
      BY <1>0, <1>5 DEF RecordAssigned, HandlerControl, TaskStatuses
    <2>2. \/ UNCHANGED task
          \/ task[handler[s].cur].status = "pending" /\ SetStatus(handler[s].cur, "assigned")
      BY <1>0, <1>5, <2>1, IfCurrentEffect DEF RecordAssigned
    <2>. QED BY <1>0, <2>1, <2>2, SetStatusEffect DEF StatusStep, ScheduleStep, Exists
  <1>6. ASSUME NEW i \in Attempts, SaveResult(i)
        PROVE  StatusStep(t) /\ ScheduleStep(t) /\ results \subseteq results'
    BY <1>6 DEF SaveResult, CreateTaskResult, StatusStep, ScheduleStep, Exists
  <1>7. ASSUME NEW i \in Attempts, MarkCompleted(i)
        PROVE  StatusStep(t) /\ ScheduleStep(t) /\ results \subseteq results'
    <2>. DEFINE status == IF attempt[i].recurring THEN "pending"
                          ELSE FinalStatus(attempt[i].outcome)
    <2>1. /\ attempt[i].st = "mark" /\ attempt[i].task \in Tasks
          /\ attempt[i].outcome \in ResultStatuses
          /\ UNCHANGED <<results, held>>
          /\ SetStatus(attempt[i].task, status)
      BY <1>0, <1>7 DEF MarkCompleted, MarkTaskCompleted, AttemptControl, Attempt
    <2>2. status \in TaskStatuses \ {"absent"}
      BY <2>1, FinalStatusTerminal DEF TaskStatuses, Terminal
    <2>3. Exists(attempt[i].task)
      BY <1>0, <2>1 DEF Ownership, OnStream, Sent, Attempt
    <2>. QED BY <1>0, <2>1, <2>2, <2>3, SetStatusEffect DEF StatusStep, ScheduleStep, Exists
  <1>. QED BY <1>1, <1>2, <1>3, <1>4, <1>5, <1>6, <1>7, StoreFrame

-----------------------------------------------------------------------------
(* How commands, and the ids a handler holds, come about. *)

\* Carrying(h): the handler is past the look at the row of h.cur.
Carrying(h) == h.pc = "record" \/ (h.pc = "send" /\ h.src = "queue")

\* A round that ends adds nothing to what its handler holds.
LEMMA NextRoundKeeps ==
  ASSUME NEW h \in Handler, h.src = "queue" => h.depth > 0 /\ h.snap = {}
  PROVE  LET n == NextRound(h) IN
         /\ n.snap \subseteq h.snap
         /\ n.deferred \in {h.deferred, <<>>}
         /\ n.pc # "load"
         /\ ~ Carrying(n)
  <1>0. /\ h.src \in {"queue", "poll"} /\ h.depth \in Nat /\ h.deferred \in Seq(Tasks)
        /\ h.snap \in SUBSET Tasks
    BY DEF Handler
  <1>1. CASE h.src = "queue"
    <2>. DEFINE pc == IF h.depth > 1 THEN "receive"
                      ELSE IF h.deferred # <<>> THEN "requeue" ELSE "poll"
                n == [h EXCEPT !.cur = NoTask, !.depth = h.depth - 1, !.pc = pc]
    <2>1. NextRound(h) = n
      BY <1>1 DEF NextRound
    <2>2. n.pc = pc /\ n.snap = h.snap /\ n.deferred = h.deferred
      BY DEF Handler
    <2>. QED BY <2>1, <2>2 DEF Carrying
  <1>2. CASE h.src # "queue" /\ h.snap # {}
    BY <1>0, <1>2 DEF NextRound, Handler, Carrying
  <1>3. CASE h.src # "queue" /\ h.snap = {}
    BY <1>0, <1>3 DEF NextRound, Select, Fresh, Carrying
  <1>. QED BY <1>1, <1>2, <1>3

\* Deferring adds the task at hand and nothing else.
LEMMA DeferKeeps ==
  ASSUME NEW h \in Handler, h.src = "queue" => h.depth > 0 /\ h.snap = {}, h.cur \in Tasks
  PROVE  LET n == Defer(h) IN
         /\ n.snap \subseteq h.snap
         /\ n.deferred \in {Append(h.deferred, h.cur), <<>>}
         /\ n.pc # "load"
         /\ ~ Carrying(n)
  <1>. DEFINE d == [h EXCEPT !.deferred = Append(h.deferred, h.cur)]
  <1>1. d \in Handler /\ d.deferred = Append(h.deferred, h.cur) /\ d.snap = h.snap
    BY QueueFacts DEF Handler
  <1>2. d.src = "queue" => d.depth > 0 /\ d.snap = {}
    BY DEF Handler
  <1>. QED BY <1>1, <1>2, NextRoundKeeps DEF Defer

\* What one step does to the handler of s: it keeps, drops, or has taken something.
HandlerStep(s) ==
  LET h == handler[s]  n == handler'[s] IN
  /\ Carrying(n) => \/ Carrying(h) /\ n.cur = h.cur /\ n.pc \in {h.pc, "record"}
                    \/ /\ h.pc = "load" /\ n.cur = h.cur
                       /\ AgentOf[h.cur] = StreamAgent[s] /\ task[h.cur].status = "pending"
                    \/ Send(s) /\ n.cur \in h.snap
  /\ n.pc = "record" => (h.pc = "record" /\ n.cur = h.cur) \/ Send(s)
  /\ \A t \in n.snap :
       t \in h.snap \/ (h.pc = "poll" /\ t \in GetPendingTasksByAgent(StreamAgent[s]))
  /\ n.pc = "load" => \/ h.pc = "load" /\ n.cur = h.cur
                      \/ taskQueue # <<>> /\ n.cur = Head(taskQueue)
  /\ \/ n.deferred \in {h.deferred, <<>>}
     \/ n.deferred = Append(h.deferred, h.cur) /\ Carrying(h)
     \/ n.deferred = Append(h.deferred, h.cur) /\ h.pc = "load"
     \/ h.deferred # <<>> /\ n.deferred = Tail(h.deferred)

\* One step for each action of a handler.
LEMMA HandlerSteps ==
  ASSUME TypeControl, [Next]_vars, NEW s \in Streams
  PROVE  HandlerStep(s)
  <1>0. /\ handler \in [Streams -> Handler]
        /\ \A x \in Streams : handler[x] \in Handler /\ HandlerControl(handler[x])
    BY DEF TypeControl, TypeOK, Control
  <1>1. CASE handler'[s] = handler[s]
    <2>1. /\ handler'[s].pc = handler[s].pc /\ handler'[s].src = handler[s].src
          /\ handler'[s].cur = handler[s].cur /\ handler'[s].snap = handler[s].snap
          /\ handler'[s].deferred = handler[s].deferred
      BY <1>1
    <2>. QED BY <2>1 DEF HandlerStep, Carrying
  <1>2. CASE \E pc \in {"off", "select", "poll"} : handler'[s] = Fresh(pc)
    <2>1. /\ handler'[s].pc \in {"off", "select", "poll"} /\ handler'[s].snap = {}
          /\ handler'[s].deferred = <<>> /\ ~ Carrying(handler'[s])
      BY <1>2 DEF Fresh, Carrying
    <2>. QED BY <2>1 DEF HandlerStep, Carrying
  <1>3. CASE Tick(s)
    <2>1. /\ ~ Carrying(handler'[s]) /\ handler'[s].snap = {} /\ handler'[s].deferred = <<>>
          /\ handler'[s].pc \in {"poll", "receive"}
      BY <1>0, <1>3 DEF Tick, Select, Fresh, Carrying
    <2>. QED BY <2>1 DEF HandlerStep, Carrying
  <1>4. CASE Receive(s)
    <2>1. /\ handler'[s].pc = "load" /\ handler'[s].cur = Head(taskQueue) /\ taskQueue # <<>>
          /\ handler'[s].snap = handler[s].snap /\ handler'[s].deferred = handler[s].deferred
      BY <1>0, <1>4 DEF Receive, Handler
    <2>. QED BY <2>1 DEF HandlerStep, Carrying
  <1>5. CASE Load(s)
    <2>0. /\ handler[s].pc = "load" /\ handler[s].cur \in Tasks
          /\ handler[s].src = "queue" => handler[s].depth > 0 /\ handler[s].snap = {}
      BY <1>0, <1>5 DEF Load, HandlerControl
    <2>1. CASE AgentOf[handler[s].cur] # StreamAgent[s]
      <3>1. handler'[s] = Defer(handler[s])
        BY <1>0, <1>5, <2>1 DEF Load
      <3>. QED BY <1>0, <2>0, <3>1, DeferKeeps DEF HandlerStep, Carrying
    <2>2. CASE AgentOf[handler[s].cur] = StreamAgent[s] /\ task[handler[s].cur].status # "pending"
      <3>1. handler'[s] = NextRound(handler[s])
        BY <1>0, <1>5, <2>2 DEF Load
      <3>. QED BY <1>0, <2>0, <3>1, NextRoundKeeps DEF HandlerStep, Carrying
    <2>3. CASE AgentOf[handler[s].cur] = StreamAgent[s] /\ task[handler[s].cur].status = "pending"
      <3>1. handler'[s] = [handler[s] EXCEPT !.pc = "send"]
        BY <1>0, <1>5, <2>3 DEF Load
      <3>2. /\ handler'[s].pc = "send" /\ handler'[s].cur = handler[s].cur
            /\ handler'[s].snap = handler[s].snap /\ handler'[s].deferred = handler[s].deferred
        BY <1>0, <3>1 DEF Handler
      <3>. QED BY <2>0, <2>3, <3>2 DEF HandlerStep, Carrying
    <2>. QED BY <2>1, <2>2, <2>3
  <1>6. CASE LoadFails(s) \/ RecordAssigned(s)
    <2>1. /\ handler'[s] = NextRound(handler[s])
          /\ handler[s].src = "queue" => handler[s].depth > 0 /\ handler[s].snap = {}
      BY <1>0, <1>6 DEF LoadFails, RecordAssigned, HandlerControl
    <2>. QED BY <1>0, <2>1, NextRoundKeeps DEF HandlerStep, Carrying
  <1>7. CASE Send(s)
    <2>1. PICK i \in FreeAttempts,
                t \in IF handler[s].src = "queue" THEN {handler[s].cur} ELSE handler[s].snap :
            handler' = [handler EXCEPT ![s].pc = "record", ![s].cur = t,
                                       ![s].snap = handler[s].snap \ {t}]
      BY <1>7 DEF Send
    <2>2. /\ handler[s].pc = "send"
          /\ handler'[s].pc = "record" /\ handler'[s].cur = t
          /\ handler'[s].snap = handler[s].snap \ {t}
          /\ handler'[s].deferred = handler[s].deferred
      BY <1>0, <1>7, <2>1 DEF Send, Handler
    <2>3. handler[s].src = "queue" \/ t \in handler[s].snap
      BY <2>1
    <2>4. handler[s].src = "queue" => t = handler[s].cur
      BY <2>1
    <2>. QED BY <1>7, <2>2, <2>3, <2>4 DEF HandlerStep, Carrying
  <1>8. CASE SendFails(s) /\ handler[s].src = "queue"
    <2>1. /\ handler'[s] = Defer(handler[s]) /\ handler[s].cur \in Tasks
          /\ handler[s].depth > 0 /\ handler[s].snap = {} /\ handler[s].pc = "send"
      BY <1>0, <1>8 DEF SendFails, HandlerControl
    <2>. QED BY <1>0, <1>8, <2>1, DeferKeeps DEF HandlerStep, Carrying
  <1>9. CASE Requeue(s)
    <2>1. /\ handler[s].deferred # <<>> /\ handler'[s].pc \in {"requeue", "poll"}
          /\ handler'[s].snap = handler[s].snap
          /\ handler'[s].deferred = Tail(handler[s].deferred)
      BY <1>0, <1>9 DEF Requeue, Handler, HandlerControl
    <2>. QED BY <2>1 DEF HandlerStep, Carrying
  <1>10. CASE Poll(s)
    <2>. DEFINE h == [Select EXCEPT !.src = "poll", !.snap = GetPendingTasksByAgent(StreamAgent[s])]
    <2>1. /\ h \in Handler /\ h.src = "poll" /\ h.deferred = <<>>
          /\ h.snap = GetPendingTasksByAgent(StreamAgent[s])
      BY FreshControl DEF Select, Fresh, Handler, GetPendingTasksByAgent
    <2>2. handler[s].pc = "poll" /\ handler'[s] = NextRound(h)
      BY <1>0, <1>10 DEF Poll
    <2>. HIDE DEF h
    <2>3. /\ handler'[s].snap \subseteq h.snap /\ handler'[s].deferred = <<>>
          /\ handler'[s].pc # "load" /\ ~ Carrying(handler'[s])
      BY <2>1, <2>2, NextRoundKeeps
    <2>. QED BY <2>1, <2>2, <2>3 DEF HandlerStep, Carrying
  <1>11. CASE Connect(s) \/ HandlerExit(s) \/ PollFails(s) \/ ServerCrash
              \/ (SendFails(s) /\ handler[s].src # "queue")
    <2>1. \E pc \in {"off", "select", "poll"} : handler'[s] = Fresh(pc)
      BY <1>0, <1>11 DEF Connect, HandlerExit, PollFails, ServerCrash, SendFails, Off, Select
    <2>. QED BY <1>2, <2>1
  <1>12. ASSUME NEW x \in Streams, x # s,
                \/ Connect(x) \/ HandlerExit(x) \/ Tick(x) \/ Receive(x) \/ Load(x)
                \/ LoadFails(x) \/ Send(x) \/ SendFails(x) \/ RecordAssigned(x)
                \/ Requeue(x) \/ Poll(x) \/ PollFails(x)
         PROVE  HandlerStep(s)
    <2>1. handler'[s] = handler[s]
      BY <1>0, <1>12 DEF Connect, HandlerExit, Tick, Receive, Load, LoadFails, Send, SendFails,
         RecordAssigned, Requeue, Poll, PollFails
    <2>. QED BY <1>1, <2>1
  <1>. QED BY <1>1, <1>3, <1>4, <1>5, <1>6, <1>7, <1>8, <1>9, <1>10, <1>11, <1>12, HandlerFrame

\* What one step does to a command.
AttemptStep(i) ==
  LET x == attempt[i]  y == attempt'[i] IN
  \/ /\ x.st = "free" /\ y.st \in {"wire", "lost"} /\ ~ y.recurring /\ y.chain = {}
     /\ \E s \in Streams : /\ Send(s) /\ y.stream = s /\ handler'[s].cur = y.task
                         /\ \/ handler[s].src = "queue" /\ y.task = handler[s].cur
                            \/ y.task \in handler[s].snap
  \/ /\ y.task = x.task /\ y.stream = x.stream
     /\ \/ y.st = x.st \/ (x.st # "free" /\ y.st \in {"orphaned", "running", "read", "lost"})
        \/ (x.st = "read" /\ y.st = "save") \/ (x.st = "chain" /\ y.st = "done")
     /\ y.st \in {"mark", "chain", "push", "done"} => y.outcome = x.outcome
     /\ y.chain = x.chain
     /\ \/ y.recurring = x.recurring
        \/ x.st = "read" /\ y.recurring = (task[x.task].schedule = "RECURRING")
  \/ /\ y.task = x.task /\ y.stream = x.stream /\ y.outcome = x.outcome
     /\ y.recurring = x.recurring
     /\ \/ /\ x.st = "save" /\ y.st = "mark" /\ y.chain = x.chain
           /\ <<x.task, x.outcome>> \in results'
        \/ /\ x.st = "mark" /\ y.chain = x.chain
           /\ IF x.outcome = "SUCCESS" THEN y.st = "chain" ELSE y.st = "done"
           /\ SetStatus(x.task, IF x.recurring THEN "pending" ELSE FinalStatus(x.outcome))
        \/ /\ x.st = "chain" /\ y.st \in {"push", "done"}
           /\ y.chain = GetTasksByPrerequisite(x.task)
        \/ /\ x.st = "push" /\ y.st \in {"push", "done"} /\ y.chain \subseteq x.chain

\* One step for each action that touches a command.
LEMMA AttemptSteps ==
  ASSUME TypeControl, [Next]_vars, NEW i \in Attempts
  PROVE  AttemptStep(i)
  <1>0. /\ handler \in [Streams -> Handler] /\ attempt \in [Attempts -> Attempt]
        /\ \A x \in Streams : handler[x] \in Handler /\ HandlerControl(handler[x])
        /\ \A j \in Attempts : attempt[j] \in Attempt /\ AttemptControl(attempt[j])
    BY DEF TypeControl, TypeOK, Control
  <1>1. CASE attempt'[i] = attempt[i]
    BY <1>1 DEF AttemptStep
  <1>2. ASSUME attempt'[i] = [attempt[i] EXCEPT !.ack = "over"]
        PROVE  AttemptStep(i)
    BY <1>0, <1>2 DEF AttemptStep, Attempt
  <1>3. ASSUME attempt[i].st # "free",
               NEW st \in {"orphaned", "lost"}, attempt'[i] = [attempt[i] EXCEPT !.st = st]
        PROVE  AttemptStep(i)
    BY <1>0, <1>3 DEF AttemptStep, Attempt
  <1>4. ASSUME attempt[i].st # "free", attempt'[i] = Cancelled(attempt[i])
        PROVE  AttemptStep(i)
    BY <1>0, <1>4 DEF Cancelled, AttemptStep, Attempt
  <1>5. ASSUME NEW s \in Streams, HandlerExit(s) \/ SendFails(s) \/ HandleTaskAcknowledgement(s)
        PROVE  AttemptStep(i)
    <2>1. attempt'[i] = attempt[i] \/ attempt'[i] = [attempt[i] EXCEPT !.ack = "over"]
      BY <1>0, <1>5 DEF HandlerExit, SendFails, HandleTaskAcknowledgement, AcksOver
    <2>. QED BY <1>1, <1>2, <2>1
  <1>6. ASSUME NEW s \in Streams, Send(s)
        PROVE  AttemptStep(i)
    <2>1. PICK k \in FreeAttempts,
               t \in IF handler[s].src = "queue" THEN {handler[s].cur} ELSE handler[s].snap :
            /\ attempt' = [attempt EXCEPT ![k] =
                 [Unsent EXCEPT !.st = IF connected[s] THEN "wire" ELSE "lost",
                                !.task = t, !.stream = s]]
            /\ handler' = [handler EXCEPT ![s].pc = "record", ![s].cur = t,
                                       ![s].snap = handler[s].snap \ {t}]
      BY <1>6 DEF Send
    <2>2. k \in Attempts /\ attempt[k].st = "free"
      BY <2>1, FreeAttemptsFact DEF Sent
    <2>3. CASE i # k
      BY <1>0, <1>1, <2>1, <2>2, <2>3
    <2>4. CASE i = k
      <3>1. /\ attempt'[i].st \in {"wire", "lost"} /\ attempt'[i].recurring = FALSE
            /\ attempt'[i].chain = {} /\ attempt'[i].stream = s /\ attempt'[i].task = t
        BY <1>0, <2>1, <2>2, <2>4 DEF Unsent
      <3>2. handler'[s].cur = t
        BY <1>0, <2>1 DEF Handler
      <3>3. \/ handler[s].src = "queue" /\ t = handler[s].cur
            \/ t \in handler[s].snap
        BY <2>1
      <3>. QED BY <1>6, <2>2, <2>4, <3>1, <3>2, <3>3 DEF AttemptStep
    <2>. QED BY <2>3, <2>4
  <1>7. ASSUME NEW s \in Streams, Disconnect(s)
        PROVE  AttemptStep(i)
    <2>1. \/ attempt'[i] = attempt[i]
          \/ /\ attempt[i].st # "free"
             /\ attempt'[i] \in {[attempt[i] EXCEPT !.st = "orphaned"],
                                [attempt[i] EXCEPT !.st = "lost"], Cancelled(attempt[i])}
      BY <1>0, <1>7 DEF Disconnect, Calling
    <2>. QED BY <1>1, <1>3, <1>4, <2>1
  <1>8. ASSUME NEW a \in Agents, AgentCrash(a)
        PROVE  AttemptStep(i)
    <2>1. \/ attempt'[i] = attempt[i]
          \/ /\ attempt[i].st # "free"
             /\ attempt'[i] \in {[attempt[i] EXCEPT !.st = "lost"], Cancelled(attempt[i])}
      BY <1>0, <1>8 DEF AgentCrash, Calling, AgentStage
    <2>. QED BY <1>1, <1>3, <1>4, <2>1
  <1>9. CASE ServerCrash
    <2>1. PICK received \in SUBSET {k \in Attempts : attempt[k].st = "wire"} :
            attempt' = [k \in Attempts |->
              [attempt[k] EXCEPT
                 !.st = IF k \in received THEN "orphaned"
                        ELSE IF attempt[k].st \in CallStage \cup {"wire"} THEN "lost"
                        ELSE attempt[k].st,
                 !.ack = IF attempt[k].ack = "sent" THEN "over" ELSE attempt[k].ack]]
      BY <1>9 DEF ServerCrash
    <2>. DEFINE x == attempt[i]  y == attempt'[i]
    <2>2. /\ y.task = x.task /\ y.stream = x.stream /\ y.outcome = x.outcome
          /\ y.recurring = x.recurring /\ y.chain = x.chain
          /\ y.st = IF i \in received THEN "orphaned"
                    ELSE IF x.st \in CallStage \cup {"wire"} THEN "lost" ELSE x.st
      BY <1>0, <2>1 DEF Attempt
    <2>3. y.st = x.st \/ (x.st # "free" /\ y.st \in {"orphaned", "lost"})
      BY <2>1, <2>2 DEF CallStage
    <2>. QED BY <2>2, <2>3 DEF AttemptStep
  <1>10. ASSUME NEW k \in Attempts, k # i,
                \/ AgentStart(k) \/ AgentReport(k) \/ ReadTask(k) \/ SaveResult(k)
                \/ MarkCompleted(k) \/ LoadChained(k) \/ PushChained(k) \/ CallFails(k)
         PROVE  AttemptStep(i)
    <2>1. attempt'[i] = attempt[i]
      BY <1>0, <1>10 DEF AgentStart, AgentReport, ReadTask, SaveResult, MarkCompleted,
         LoadChained, PushChained, CallFails
    <2>. QED BY <1>1, <2>1
  <1>11. CASE AgentStart(i) \/ AgentReport(i) \/ ReadTask(i)
    <2>1. CASE AgentStart(i)
      BY <1>0, <2>1 DEF AgentStart, AttemptStep, Attempt
    <2>2. CASE AgentReport(i)
      BY <1>0, <2>2 DEF AgentReport, AttemptStep, Attempt
    <2>3. CASE ReadTask(i)
      BY <1>0, <2>3 DEF ReadTask, AttemptStep, Attempt
    <2>. QED BY <1>11, <2>1, <2>2, <2>3
  <1>12. CASE SaveResult(i)
    BY <1>0, <1>12 DEF SaveResult, CreateTaskResult, AttemptStep, Attempt
  <1>13. CASE MarkCompleted(i)
    <2>1. /\ attempt[i].st = "mark" /\ attempt'[i].task = attempt[i].task
          /\ attempt'[i].stream = attempt[i].stream /\ attempt'[i].outcome = attempt[i].outcome
          /\ attempt'[i].recurring = attempt[i].recurring /\ attempt'[i].chain = attempt[i].chain
          /\ attempt'[i].st = IF attempt[i].outcome = "SUCCESS" THEN "chain" ELSE "done"
      BY <1>0, <1>13 DEF MarkCompleted, Attempt
    <2>. QED BY <1>13, <2>1 DEF MarkCompleted, MarkTaskCompleted, AttemptStep
  <1>14. CASE LoadChained(i)
    BY <1>0, <1>14 DEF LoadChained, AttemptStep, Attempt
  <1>15. CASE PushChained(i)
    BY <1>0, <1>15 DEF PushChained, AttemptStep, Attempt
  <1>16. CASE CallFails(i)
    BY <1>0, <1>4, <1>16 DEF CallFails
  <1>. QED BY <1>1, <1>5, <1>6, <1>7, <1>8, <1>9, <1>10, <1>11, <1>12, <1>13, <1>14, <1>15,
              <1>16, AttemptFrame

-----------------------------------------------------------------------------
(* The inductive invariant and its preservation, part by part. *)

IInv ==
  /\ TypeControl
  /\ Ownership
  /\ RecordSent
  /\ CallsRecorded
  /\ HeldSchedules
  /\ OnlyReleased
  /\ ReportedStaysFinished

\* No task, no command: every part holds of nothing.
LEMMA IInvInit == Init => IInv
  <1>. SUFFICES ASSUME Init PROVE IInv
    OBVIOUS
  <1>1. TypeControl
    BY TypeInit
  <1>2. /\ \A i \in Attempts : attempt[i] = Unsent
        /\ Unsent.st = "free" /\ Unsent.chain = {} /\ Unsent.recurring = FALSE
        /\ \A s \in Streams : handler[s] = Off
        /\ Off.pc = "off" /\ Off.snap = {} /\ Off.deferred = <<>>
        /\ taskQueue = <<>>
    BY DEF Init, Unsent, Off, Fresh
  <1>3. /\ \A s \in Streams : OnStream(s) = {}
        /\ UnderWay = {}
    BY <1>2 DEF OnStream, Carried, UnderWay, InQueue, DeferredIn, Sent
  <1>4. Ownership /\ OnlyReleased
    BY <1>3 DEF Ownership, OnlyReleased
  <1>5. RecordSent /\ CallsRecorded /\ ReportedStaysFinished
    BY <1>2 DEF RecordSent, CallsRecorded, ReportedStaysFinished, Sent
  <1>6. HeldSchedules
    BY DEF Init, StoreInit, HeldSchedules, Exists
  <1>. QED BY <1>1, <1>4, <1>5, <1>6 DEF IInv

\* A row does not go away, and what was sent stays sent.
LEMMA NothingForgotten ==
  ASSUME IInv, [Next]_vars
  PROVE  /\ \A t \in Tasks : Exists(t) => Exists(t)'
         /\ \A t \in Tasks : OneShot(t)' => OneShot(t)
         /\ \A i \in Attempts : Sent(i) => /\ Sent(i)'
                                          /\ attempt'[i].task = attempt[i].task
                                          /\ attempt'[i].stream = attempt[i].stream
  <1>1. ASSUME NEW t \in Tasks
        PROVE  (Exists(t) => Exists(t)') /\ (OneShot(t)' => OneShot(t))
    BY RowSteps DEF IInv, ScheduleStep, OneShot
  <1>2. ASSUME NEW i \in Attempts, Sent(i)
        PROVE  /\ Sent(i)'
               /\ attempt'[i].task = attempt[i].task
               /\ attempt'[i].stream = attempt[i].stream
    BY <1>2, AttemptSteps DEF IInv, AttemptStep, Sent
  <1>. QED BY <1>1, <1>2

\* What a stream has to do with after a step it had to do with before, or its handler

\* has just found it to be pending and its agent's.
LEMMA OnStreamFlow ==
  ASSUME IInv, [Next]_vars, NEW s \in Streams, NEW t \in OnStream(s)'
  PROVE  \/ t \in OnStream(s)
         \/ /\ t \in Tasks /\ AgentOf[t] = StreamAgent[s] /\ task[t].status = "pending"
            /\ t \in UnderWay \/ task[t].schedule = "NONE"
  <1>0. /\ handler[s] \in Handler /\ HandlerControl(handler[s])
        /\ handler'[s] \in Handler /\ HandlerStep(s)
    BY HandlerSteps, TypeStep DEF IInv, TypeControl, TypeOK, Control
  <1>1. CASE t \in Carried(s)'
    <2>1. Carrying(handler'[s]) /\ t = handler'[s].cur /\ t \in Tasks
      BY <1>1 DEF Carried, Carrying
    <2>2. CASE Carrying(handler[s]) /\ handler'[s].cur = handler[s].cur
      BY <2>1, <2>2 DEF OnStream, Carried, Carrying
    <2>3. CASE /\ handler[s].pc = "load" /\ handler'[s].cur = handler[s].cur
               /\ AgentOf[handler[s].cur] = StreamAgent[s]
               /\ task[handler[s].cur].status = "pending"
      BY <2>1, <2>3 DEF UnderWay
    <2>4. CASE handler'[s].cur \in handler[s].snap
      BY <2>1, <2>4 DEF OnStream
    <2>. QED BY <1>0, <2>1, <2>2, <2>3, <2>4 DEF HandlerStep
  <1>2. CASE t \in handler'[s].snap
    <2>1. t \in handler[s].snap \/ t \in GetPendingTasksByAgent(StreamAgent[s])
      BY <1>0, <1>2 DEF HandlerStep
    <2>. QED BY <2>1 DEF OnStream, GetPendingTasksByAgent
  <1>3. ASSUME NEW i \in Attempts, Sent(i)', attempt'[i].stream = s, t = attempt'[i].task
        PROVE  t \in OnStream(s)
    <2>1. CASE Sent(i)
      BY <1>3, <2>1, NothingForgotten DEF OnStream
    <2>2. CASE ~ Sent(i)
      <3>1. /\ Send(s)
            /\ \/ handler[s].src = "queue" /\ t = handler[s].cur
               \/ t \in handler[s].snap
        BY <1>3, <2>2, AttemptSteps DEF IInv, AttemptStep, Sent
      <3>2. handler[s].pc = "send"
        BY <3>1 DEF Send
      <3>. QED BY <1>0, <3>1, <3>2 DEF OnStream, Carried, HandlerControl
    <2>. QED BY <2>1, <2>2
  <1>4. \/ t \in Carried(s)' \/ t \in handler'[s].snap
        \/ \E i \in Attempts : Sent(i)' /\ attempt'[i].stream = s /\ t = attempt'[i].task
    BY DEF OnStream
  <1>. QED BY <1>1, <1>2, <1>3, <1>4

\* A stream has to do with tasks only.
LEMMA OnStreamTasks ==
  ASSUME TypeControl, NEW s \in Streams
  PROVE  OnStream(s) \subseteq Tasks
  BY DEF TypeControl, TypeOK, Control, OnStream, Carried, Handler, AttemptControl, Sent

\* dispatchQueuedTasks and the poll keep a stream to its agent.
LEMMA OwnershipStep ==
  ASSUME IInv, [Next]_vars
  PROVE  Ownership'
  <1>. SUFFICES ASSUME NEW s \in Streams, NEW t \in OnStream(s)'
                PROVE  Exists(t)' /\ AgentOf[t] = StreamAgent[s]
    BY DEF Ownership
  <1>1. /\ t \in Tasks /\ Exists(t) /\ AgentOf[t] = StreamAgent[s]
    BY OnStreamFlow, OnStreamTasks DEF IInv, Ownership, Exists
  <1>. QED BY <1>1, NothingForgotten

\* Only Send brings a handler to its update to assigned.
LEMMA RecordSentStep ==
  ASSUME IInv, [Next]_vars
  PROVE  RecordSent'
  <1>. SUFFICES ASSUME NEW s \in Streams, handler'[s].pc = "record"
                PROVE  \E i \in Attempts : Sent(i)' /\ attempt'[i].task = handler'[s].cur
    BY DEF RecordSent
  <1>1. CASE handler[s].pc = "record" /\ handler'[s].cur = handler[s].cur
    BY <1>1, NothingForgotten DEF IInv, RecordSent
  <1>2. CASE Send(s)
    <2>0. handler[s] \in Handler /\ handler \in [Streams -> Handler]
          /\ attempt \in [Attempts -> Attempt]
      BY DEF IInv, TypeControl, TypeOK
    <2>1. PICK k \in FreeAttempts,
               t \in IF handler[s].src = "queue" THEN {handler[s].cur} ELSE handler[s].snap :
            /\ attempt' = [attempt EXCEPT ![k] =
                 [Unsent EXCEPT !.st = IF connected[s] THEN "wire" ELSE "lost",
                                !.task = t, !.stream = s]]
            /\ handler' = [handler EXCEPT ![s].pc = "record", ![s].cur = t,
                                       ![s].snap = handler[s].snap \ {t}]
      BY <1>2 DEF Send
    <2>2. k \in Attempts
      BY <2>1, FreeAttemptsFact
    <2>3. attempt'[k].st \in {"wire", "lost"} /\ attempt'[k].task = t
      BY <2>0, <2>1, <2>2 DEF Unsent
    <2>4. handler'[s].cur = t
      BY <2>0, <2>1 DEF Handler
    <2>. QED BY <2>2, <2>3, <2>4 DEF Sent
  <1>. QED BY <1>1, <1>2, HandlerSteps DEF IInv, HandlerStep

\* SubmitTaskResult inserts before it marks and triggers.
LEMMA CallsRecordedStep ==
  ASSUME IInv, [Next]_vars
  PROVE  CallsRecorded'
  <1>. SUFFICES ASSUME NEW i \in Attempts
                PROVE  /\ attempt'[i].st \in {"mark", "chain", "push"}
                            => <<attempt'[i].task, attempt'[i].outcome>> \in results'
                       /\ attempt'[i].st \in {"chain", "push"} => attempt'[i].outcome = "SUCCESS"
                       /\ Sent(i)' /\ attempt'[i].recurring => ~ OneShot(attempt[i].task)'
    BY DEF CallsRecorded
  <1>0. /\ AttemptStep(i)
        /\ attempt[i].st # "free" => attempt[i].task \in Tasks
        /\ attempt[i] \in Attempt
    BY AttemptSteps DEF IInv, TypeControl, TypeOK, Control, AttemptControl
  <1>1. results \subseteq results'
    <2>1. CASE Tasks = {}
      BY <2>1, StoreFrame DEF Create, Reschedule, HandleTaskAcknowledgement, RecordAssigned,
         SaveResult, CreateTaskResult, MarkCompleted
    <2>2. CASE Tasks # {}
      BY <2>2, RowSteps DEF IInv
    <2>. QED BY <2>1, <2>2
  <1>2. /\ attempt'[i].st \in {"mark", "chain", "push"}
             => <<attempt'[i].task, attempt'[i].outcome>> \in results'
        /\ attempt'[i].st \in {"chain", "push"} => attempt'[i].outcome = "SUCCESS"
    BY <1>0, <1>1 DEF AttemptStep, IInv, CallsRecorded
  <1>3. ASSUME Sent(i)', attempt'[i].recurring
        PROVE  ~ OneShot(attempt[i].task)'
    <2>1. /\ Sent(i) /\ attempt'[i].task = attempt[i].task
          /\ attempt[i].recurring \/ task[attempt[i].task].schedule = "RECURRING"
      BY <1>0, <1>3 DEF AttemptStep, Sent
    <2>2. attempt[i].task \in Tasks
      BY <1>0, <2>1 DEF Sent
    <2>3. ~ OneShot(attempt[i].task)
      <3>1. CASE attempt[i].recurring
        BY <2>1, <3>1 DEF IInv, CallsRecorded
      <3>2. CASE task[attempt[i].task].schedule = "RECURRING"
        <4>1. Exists(attempt[i].task)
          BY <1>0, <2>1 DEF IInv, Ownership, OnStream, Attempt
        <4>. QED BY <2>2, <3>2, <4>1 DEF IInv, HeldSchedules, OneShot
      <3>. QED BY <2>1, <3>1, <3>2
    <2>. QED BY <2>1, <2>2, <2>3, NothingForgotten DEF OneShot
  <1>. QED BY <1>2, <1>3

\* The forms create chained tasks and never make one.
LEMMA HeldSchedulesStep ==
  ASSUME IInv, [Next]_vars
  PROVE  HeldSchedules'
  <1>. SUFFICES ASSUME NEW t \in Tasks
                PROVE  /\ Exists(t)' <=> held'[t] # {}
                       /\ Exists(t)' => task'[t].schedule \in held'[t]
                       /\ task'[t].schedule = "CHAINED" => held'[t] = {"CHAINED"}
    BY DEF HeldSchedules
  <1>. QED BY RowSteps DEF IInv, HeldSchedules, ScheduleStep

\* Results are only added, and a chained task keeps its prerequisite.
LEMMA ReleasedStays ==
  ASSUME IInv, [Next]_vars, NEW t \in Tasks, Released(t)
  PROVE  Released(t)'
  BY RowSteps DEF IInv, ScheduleStep, Released

\* Where the ids under way come from.
LEMMA UnderWayFlow ==
  ASSUME IInv, [Next]_vars, NEW t \in UnderWay'
  PROVE  \/ t \in UnderWay
         \/ \E s \in Streams : t \in OnStream(s)
         \/ t \in Tasks /\ held[t] \cap {"ONCE", "RECURRING"} # {}
         \/ \E i \in Attempts : attempt[i].st = "chain"
                               /\ t \in GetTasksByPrerequisite(attempt[i].task)
  <1>0. /\ taskQueue \in Seq(Tasks)
        /\ \A s \in Streams : handler[s] \in Handler /\ HandlerControl(handler[s]) /\ HandlerStep(s)
        /\ \A i \in Attempts : attempt[i] \in Attempt
    BY HandlerSteps DEF IInv, TypeControl, TypeOK, Control
  <1>. t \in Tasks
    BY DEF UnderWay
  <1>1. /\ t \in InQueue => t \in UnderWay
        /\ \A s \in Streams : t \in DeferredIn(handler[s]) => t \in UnderWay
        /\ \A s \in Streams : handler[s].pc = "load" /\ t = handler[s].cur => t \in UnderWay
        /\ \A i \in Attempts : t \in attempt[i].chain => t \in UnderWay
    BY DEF UnderWay
  <1>2. CASE t \in InQueue'
    <2>0. PICK k \in 1..Len(taskQueue') : t = taskQueue'[k]
      BY <1>2 DEF InQueue
    <2>1. CASE UNCHANGED taskQueue
      BY <1>1, <2>0, <2>1 DEF InQueue
    <2>2. ASSUME NEW u \in Tasks, SchedulerQueues(u)
          PROVE  t \in InQueue \/ (t \in Tasks /\ held[t] \cap {"ONCE", "RECURRING"} # {})
      <3>1. taskQueue' = Append(taskQueue, u) /\ held[u] \cap {"ONCE", "RECURRING"} # {}
        BY <2>2 DEF SchedulerQueues
      <3>2. t \in InQueue \/ t = u
        BY <1>0, <2>0, <3>1, QueueFacts DEF InQueue
      <3>. QED BY <3>1, <3>2
    <2>3. ASSUME NEW s \in Streams, Receive(s)
          PROVE  t \in InQueue
      <3>1. /\ taskQueue # <<>> /\ taskQueue' = Tail(taskQueue)
            /\ Len(taskQueue') = Len(taskQueue) - 1 /\ Len(taskQueue) \in Nat
            /\ \A j \in 1..Len(taskQueue) - 1 : taskQueue'[j] = taskQueue[j + 1]
        BY <1>0, <2>3, QueueFacts DEF Receive
      <3>2. k + 1 \in 1..Len(taskQueue) /\ t = taskQueue[k + 1]
        BY <2>0, <3>1
      <3>. QED BY <3>2 DEF InQueue
    <2>4. ASSUME NEW s \in Streams, Requeue(s)
          PROVE  t \in InQueue \/ t \in DeferredIn(handler[s])
      <3>1. /\ handler[s].deferred \in Seq(Tasks) /\ handler[s].deferred # <<>>
            /\ taskQueue' = Append(taskQueue, Head(handler[s].deferred))
        BY <1>0, <2>4 DEF Requeue, Handler, HandlerControl
      <3>2. /\ Head(handler[s].deferred) = handler[s].deferred[1]
            /\ Head(handler[s].deferred) \in Tasks /\ 1 \in 1..Len(handler[s].deferred)
        BY <3>1, QueueFacts DEF DeferredIn
      <3>3. t \in InQueue \/ t = Head(handler[s].deferred)
        BY <1>0, <2>0, <3>1, <3>2, QueueFacts DEF InQueue
      <3>. QED BY <3>2, <3>3 DEF DeferredIn
    <2>5. ASSUME NEW i \in Attempts, PushChained(i)
          PROVE  t \in InQueue \/ t \in attempt[i].chain
      <3>1. PICK u \in attempt[i].chain : taskQueue' = Append(taskQueue, u)
        BY <2>5 DEF PushChained
      <3>2. u \in Tasks
        BY <1>0 DEF Attempt
      <3>. QED BY <1>0, <2>0, <3>1, <3>2, QueueFacts DEF InQueue
    <2>6. CASE ServerCrash
      <3>1. Len(taskQueue') = 0
        BY <2>6 DEF ServerCrash
      <3>. QED BY <2>0, <3>1
    <2>. QED BY <1>1, <2>1, <2>2, <2>3, <2>4, <2>5, <2>6, QueueFrame
  <1>3. ASSUME NEW s \in Streams, t \in DeferredIn(handler'[s])
        PROVE  t \in UnderWay \/ t \in OnStream(s)
    <2>0. handler[s].deferred \in Seq(Tasks) /\ HandlerStep(s)
      BY <1>0 DEF Handler
    <2>1. PICK k \in 1..Len(handler'[s].deferred) : t = handler'[s].deferred[k]
      BY <1>3 DEF DeferredIn
    <2>2. CASE handler'[s].deferred = handler[s].deferred
      BY <1>1, <2>1, <2>2 DEF DeferredIn
    <2>3. CASE handler'[s].deferred = <<>>
      <3>1. Len(handler'[s].deferred) = 0
        BY <2>3
      <3>. QED BY <2>1, <3>1
    <2>4. CASE /\ handler'[s].deferred = Append(handler[s].deferred, handler[s].cur)
               /\ Carrying(handler[s]) \/ handler[s].pc = "load"
      <3>1. handler[s].cur \in Tasks
        BY <1>0, <2>4 DEF HandlerControl, Carrying
      <3>2. t \in DeferredIn(handler[s]) \/ t = handler[s].cur
        BY <2>0, <2>1, <2>4, <3>1, QueueFacts DEF DeferredIn
      <3>3. t = handler[s].cur => t \in UnderWay \/ t \in OnStream(s)
        BY <1>1, <2>4, <3>1 DEF OnStream, Carried, Carrying
      <3>. QED BY <1>1, <3>2, <3>3
    <2>5. CASE handler[s].deferred # <<>> /\ handler'[s].deferred = Tail(handler[s].deferred)
      <3>1. /\ Len(handler'[s].deferred) = Len(handler[s].deferred) - 1
            /\ Len(handler[s].deferred) \in Nat
            /\ \A j \in 1..Len(handler[s].deferred) - 1 :
                 handler'[s].deferred[j] = handler[s].deferred[j + 1]
        BY <2>0, <2>5, QueueFacts
      <3>2. k + 1 \in 1..Len(handler[s].deferred) /\ t = handler[s].deferred[k + 1]
        BY <2>1, <3>1
      <3>. QED BY <1>1, <3>2 DEF DeferredIn
    <2>. QED BY <2>0, <2>2, <2>3, <2>4, <2>5 DEF HandlerStep
  <1>4. ASSUME NEW s \in Streams, handler'[s].pc = "load", t = handler'[s].cur
        PROVE  t \in UnderWay
    <2>1. CASE handler[s].pc = "load" /\ t = handler[s].cur
      BY <1>1, <2>1
    <2>2. CASE taskQueue # <<>> /\ t = Head(taskQueue)
      <3>1. t = taskQueue[1] /\ 1 \in 1..Len(taskQueue)
        BY <1>0, <2>2, QueueFacts
      <3>. QED BY <1>1, <3>1 DEF InQueue
    <2>. QED BY <1>0, <1>4, <2>1, <2>2 DEF HandlerStep
  <1>5. ASSUME NEW i \in Attempts, t \in attempt'[i].chain
        PROVE  \/ t \in UnderWay
               \/ attempt[i].st = "chain" /\ t \in GetTasksByPrerequisite(attempt[i].task)
    <2>1. \/ t \in attempt[i].chain
          \/ attempt[i].st = "chain" /\ t \in GetTasksByPrerequisite(attempt[i].task)
      BY <1>5, AttemptSteps DEF IInv, AttemptStep
    <2>. QED BY <1>1, <2>1
  <1>6. \/ t \in InQueue'
        \/ \E s \in Streams : t \in DeferredIn(handler'[s])
        \/ \E s \in Streams : handler'[s].pc = "load" /\ t = handler'[s].cur
        \/ \E i \in Attempts : t \in attempt'[i].chain
    BY DEF UnderWay
  <1>. QED BY <1>2, <1>3, <1>4, <1>5, <1>6

\* Whatever is queued or sent has had its prerequisite succeed.
LEMMA OnlyReleasedStep ==
  ASSUME IInv, [Next]_vars
  PROVE  OnlyReleased'
  <1>0. UnderWay \subseteq Tasks
    BY DEF UnderWay
  <1>1. ASSUME NEW t \in UnderWay'
        PROVE  Released(t)'
    <2>1. CASE t \in UnderWay \/ \E s \in Streams : t \in OnStream(s)
      BY <1>0, <2>1, OnStreamTasks, ReleasedStays DEF IInv, OnlyReleased
    <2>2. CASE t \in Tasks /\ held[t] \cap {"ONCE", "RECURRING"} # {}
      BY <2>2, ReleasedStays DEF IInv, HeldSchedules, Released
    <2>3. ASSUME NEW i \in Attempts, attempt[i].st = "chain",
                 t \in GetTasksByPrerequisite(attempt[i].task)
          PROVE  Released(t)'
      <3>1. <<attempt[i].task, "SUCCESS">> \in results
        BY <2>3 DEF IInv, CallsRecorded
      <3>2. t \in Tasks /\ Released(t)
        BY <2>3, <3>1 DEF GetTasksByPrerequisite, Released, Exists
      <3>. QED BY <3>2, ReleasedStays
    <2>. QED BY <2>1, <2>2, <2>3, UnderWayFlow
  <1>2. ASSUME NEW s \in Streams, NEW t \in OnStream(s)'
        PROVE  Released(t)'
    <2>1. CASE t \in OnStream(s) \/ t \in UnderWay
      BY <1>0, <2>1, OnStreamTasks, ReleasedStays DEF IInv, OnlyReleased
    <2>2. CASE t \in Tasks /\ task[t].status = "pending" /\ task[t].schedule = "NONE"
      BY <2>2, ReleasedStays DEF Released, Exists
    <2>. QED BY <2>1, <2>2, OnStreamFlow
  <1>. QED BY <1>1, <1>2 DEF OnlyReleased

\* No late update takes a final status back.
LEMMA ReportedStaysFinishedStep ==
  ASSUME IInv, [Next]_vars
  PROVE  ReportedStaysFinished'
  <1>. SUFFICES ASSUME NEW i \in Attempts, attempt'[i].st \in {"chain", "push", "done"},
                       OneShot(attempt[i].task)'
                PROVE  task'[attempt'[i].task].status \in Terminal
    BY DEF ReportedStaysFinished
  <1>. DEFINE t == attempt[i].task
  <1>0. /\ AttemptStep(i) /\ task \in [Tasks -> Row]
        /\ attempt[i] \in Attempt
        /\ attempt[i].st # "free" => t \in Tasks
    BY AttemptSteps DEF IInv, TypeControl, TypeOK, Control, AttemptControl, StoreTypeOK
  <1>1. attempt[i].st \in {"mark", "chain", "push", "done"} /\ attempt'[i].task = t
    BY <1>0 DEF AttemptStep
  <1>2. t \in Tasks /\ OneShot(t)
    BY <1>0, <1>1, NothingForgotten DEF OneShot
  <1>3. CASE attempt[i].st = "mark"
    <2>1. /\ ~ attempt[i].recurring
          /\ attempt[i].outcome \in ResultStatuses
      BY <1>0, <1>2, <1>3 DEF IInv, CallsRecorded, Sent, Attempt
    <2>2. SetStatus(t, FinalStatus(attempt[i].outcome))
      BY <1>0, <1>3, <2>1 DEF AttemptStep
    <2>3. FinalStatus(attempt[i].outcome) \in Terminal /\ Terminal \subseteq TaskStatuses
      BY <2>1, FinalStatusTerminal DEF TaskStatuses
    <2>. QED BY <1>0, <1>1, <1>2, <2>2, <2>3, SetStatusEffect
  <1>4. CASE attempt[i].st # "mark"
    <2>1. task[t].status \in Terminal
      BY <1>1, <1>2, <1>4 DEF IInv, ReportedStaysFinished
    <2>2. task'[t].status = task[t].status
          \/ \E j \in Attempts : /\ attempt[j].st = "mark" /\ attempt[j].task = t
                                /\ task'[t].status = IF attempt[j].recurring THEN "pending"
                                                      ELSE FinalStatus(attempt[j].outcome)
      BY <1>2, <2>1, RowSteps DEF IInv, StatusStep, Terminal, Exists
    <2>3. ASSUME NEW j \in Attempts, attempt[j].st = "mark", attempt[j].task = t,
                 task'[t].status = IF attempt[j].recurring THEN "pending"
                                   ELSE FinalStatus(attempt[j].outcome)
          PROVE  task'[t].status \in Terminal
      <3>1. ~ attempt[j].recurring /\ attempt[j].outcome \in ResultStatuses
        BY <1>2, <2>3 DEF IInv, CallsRecorded, Sent, TypeControl, TypeOK, Attempt
      <3>. QED BY <2>3, <3>1, FinalStatusTerminal
    <2>. QED BY <1>1, <2>1, <2>2, <2>3
  <1>. QED BY <1>3, <1>4

\* The invariant is inductive.
LEMMA IInvStep ==
  ASSUME IInv, [Next]_vars
  PROVE  IInv'
  BY TypeStep, OwnershipStep, RecordSentStep, CallsRecordedStep, HeldSchedulesStep,
     OnlyReleasedStep, ReportedStaysFinishedStep DEF IInv

-----------------------------------------------------------------------------
(* The theorems about what is sent. *)

\* The invariant holds in every state any mix of handlers, agents, calls and

\* failures can reach.
THEOREM Invariance == Spec => []IInv
  <1>1. Init => IInv
    BY IInvInit
  <1>2. IInv /\ [Next]_vars => IInv'
    BY IInvStep
  <1>. QED BY <1>1, <1>2, PTL DEF Spec

\* Although all agents share the one queue, dispatchQueuedTasks and the poll send a

\* command only down a stream of the task's own agent.
THEOREM OwnerOnly == Spec => []SentToOwner
  <1>1. IInv => SentToOwner
    BY DEF IInv, TypeControl, TypeOK, Attempt, Ownership, OnStream, SentToOwner
  <1>. QED BY <1>1, Invariance, PTL

\* Neither the queue nor the poll brings a chained task to an agent before a success

\* of its prerequisite has been inserted by SubmitTaskResult.
THEOREM ChainRespected == Spec => []ChainedWaits
  <1>1. IInv => ChainedWaits
    BY DEF IInv, TypeControl, TypeOK, Attempt, OnlyReleased, Released, OnStream, ChainedWaits
  <1>. QED BY <1>1, Invariance, PTL

\* What SubmitTaskResult has written for a task that runs once is not taken back by

\* the conditional updates of handlers and acknowledgements that come late.
THEOREM FinalStays == Spec => []ReportedStaysFinished
  <1>1. IInv => ReportedStaysFinished
    BY DEF IInv
  <1>. QED BY <1>1, Invariance, PTL

-----------------------------------------------------------------------------
(* One stream carries a task that runs once only once. *)

\* A task that was sent and has not been recurring is pending only while its handler

\* is between Send and the update to assigned.
RecordedOnce ==
  \A i \in Attempts :
    LET t == attempt[i].task  s == attempt[i].stream IN
    Sent(i) /\ OneShot(t) /\ t \notin unrecorded /\ task[t].status = "pending"
      => handler[s].pc = "record" /\ handler[s].cur = t

\* What a handler has still to send was not sent on its stream.
StillUnsent ==
  \A s \in Streams : \A i \in Attempts :
    LET t == attempt[i].task IN
    Sent(i) /\ attempt[i].stream = s /\ OneShot(t) /\ t \notin unrecorded
      => /\ t \notin handler[s].snap
         /\ ~ (handler[s].pc = "send" /\ handler[s].src = "queue" /\ handler[s].cur = t)

OnceInv ==
  /\ IInv
  /\ RecordedOnce
  /\ StillUnsent
  /\ OncePerStream

\* Nothing is sent.
LEMMA OnceInit == Init => OnceInv
  <1>. SUFFICES ASSUME Init PROVE OnceInv
    OBVIOUS
  <1>1. \A i \in Attempts : ~ Sent(i)
    BY DEF Init, Unsent, Sent
  <1>. QED BY <1>1, IInvInit DEF OnceInv, RecordedOnce, StillUnsent, OncePerStream

\* The failed updates are remembered.
LEMMA UnrecordedGrows ==
  ASSUME [Next]_vars
  PROVE  unrecorded \subseteq unrecorded'
  BY DEF Next, vars, history, Create, Reschedule, SchedulerQueues, Connect, HandlerExit,
     HandleTaskAcknowledgement, Tick, Receive, Load, LoadFails, Send, SendFails, RecordAssigned,
     Requeue, Poll, PollFails, AgentStart, AgentReport, ReadTask, SaveResult, MarkCompleted,
     LoadChained, PushChained, CallFails, Disconnect, AgentCrash, ServerCrash

\* A handler leaves "record" with the row updated or the failure on record.
LEMMA LeavingRecord ==
  ASSUME IInv, [Next]_vars, NEW s \in Streams, handler[s].pc = "record"
  PROVE  \/ handler'[s].pc = "record" /\ handler'[s].cur = handler[s].cur
         \/ handler[s].cur \in unrecorded'
         \/ task'[handler[s].cur].status # "pending"
  <1>0. /\ handler \in [Streams -> Handler] /\ task \in [Tasks -> Row]
        /\ handler[s].cur \in Tasks
    BY DEF IInv, TypeControl, TypeOK, Control, HandlerControl, StoreTypeOK
  <1>1. CASE handler'[s] = handler[s]
    BY <1>1
  <1>2. CASE RecordAssigned(s)
    <2>1. CASE handler[s].cur \in unrecorded'
      BY <2>1
    <2>2. CASE UpdateTaskStatusIfCurrent(handler[s].cur, "pending", "assigned")
      <3>1. CASE task[handler[s].cur].status = "pending"
        <4>1. SetStatus(handler[s].cur, "assigned") /\ "assigned" \in TaskStatuses
          BY <2>2, <3>1 DEF UpdateTaskStatusIfCurrent, TaskStatuses
        <4>. QED BY <1>0, <4>1, SetStatusEffect
      <3>2. CASE task[handler[s].cur].status # "pending"
        BY <2>2, <3>2 DEF UpdateTaskStatusIfCurrent
      <3>. QED BY <3>1, <3>2
    <2>. QED BY <1>2, <2>1, <2>2 DEF RecordAssigned
  <1>3. CASE ServerCrash
    BY <1>3 DEF ServerCrash
  <1>4. ASSUME NEW x \in Streams, x # s,
               \/ Connect(x) \/ HandlerExit(x) \/ Tick(x) \/ Receive(x) \/ Load(x)
               \/ LoadFails(x) \/ Send(x) \/ SendFails(x) \/ RecordAssigned(x)
               \/ Requeue(x) \/ Poll(x) \/ PollFails(x)
        PROVE  handler'[s] = handler[s]
    BY <1>0, <1>4 DEF Connect, HandlerExit, Tick, Receive, Load, LoadFails, Send, SendFails,
       RecordAssigned, Requeue, Poll, PollFails
  <1>5. ~ \/ Connect(s) \/ HandlerExit(s) \/ Tick(s) \/ Receive(s) \/ Load(s)
          \/ LoadFails(s) \/ Send(s) \/ SendFails(s) \/ Requeue(s) \/ Poll(s) \/ PollFails(s)
    BY DEF Connect, HandlerExit, Tick, Receive, Load, LoadFails, Send, SendFails,
       Requeue, Poll, PollFails, Off, Fresh
  <1>. QED BY <1>1, <1>2, <1>3, <1>4, <1>5, HandlerFrame

\* A command that is new belongs to the handler that has just sent it, and is the only

\* new one.
LEMMA NewCommand ==
  ASSUME IInv, [Next]_vars, NEW i \in Attempts, ~ Sent(i), Sent(i)'
  PROVE  LET t == attempt'[i].task  s == attempt'[i].stream IN
         /\ s \in Streams
         /\ handler'[s].pc = "record" /\ handler'[s].cur = t /\ t \notin handler'[s].snap
         /\ \/ t \in handler[s].snap
            \/ handler[s].pc = "send" /\ handler[s].src = "queue" /\ handler[s].cur = t
         /\ \A j \in Attempts \ {i} : attempt'[j] = attempt[j]
  <1>0. handler \in [Streams -> Handler] /\ attempt \in [Attempts -> Attempt]
    BY DEF IInv, TypeControl, TypeOK
  <1>1. PICK s \in Streams : Send(s)
    BY AttemptSteps DEF IInv, AttemptStep, Sent
  <1>2. PICK k \in FreeAttempts,
             t \in IF handler[s].src = "queue" THEN {handler[s].cur} ELSE handler[s].snap :
          /\ attempt' = [attempt EXCEPT ![k] =
               [Unsent EXCEPT !.st = IF connected[s] THEN "wire" ELSE "lost",
                              !.task = t, !.stream = s]]
          /\ handler' = [handler EXCEPT ![s].pc = "record", ![s].cur = t,
                                     ![s].snap = handler[s].snap \ {t}]
    BY <1>1 DEF Send
  <1>3. k \in Attempts /\ handler[s].pc = "send"
    BY <1>1, <1>2, FreeAttemptsFact DEF Send
  <1>4. \A j \in Attempts \ {k} : attempt'[j] = attempt[j]
    BY <1>0, <1>2
  <1>5. i = k
    BY <1>4 DEF Sent
  <1>6. attempt'[k].task = t /\ attempt'[k].stream = s
    BY <1>0, <1>2, <1>3 DEF Unsent
  <1>7. handler'[s].pc = "record" /\ handler'[s].cur = t /\ handler'[s].snap = handler[s].snap \ {t}
    BY <1>0, <1>2 DEF Handler
  <1>8. \/ handler[s].src = "queue" /\ handler[s].cur = t
        \/ t \in handler[s].snap
    BY <1>2
  <1>. QED BY <1>3, <1>4, <1>5, <1>6, <1>7, <1>8

\* A handler leaves the row of what it sent assigned.
LEMMA RecordedOnceStep ==
  ASSUME IInv, RecordedOnce, [Next]_vars
  PROVE  RecordedOnce'
  <1>. SUFFICES ASSUME NEW i \in Attempts, Sent(i)', OneShot(attempt[i].task)',
                       attempt'[i].task \notin unrecorded',
                       task'[attempt'[i].task].status = "pending"
                PROVE  /\ handler'[attempt'[i].stream].pc = "record"
                       /\ handler'[attempt'[i].stream].cur = attempt'[i].task
    BY DEF RecordedOnce
  <1>1. CASE ~ Sent(i)
    BY <1>1, NewCommand
  <1>2. CASE Sent(i)
    <2>. DEFINE t == attempt[i].task
                s == attempt[i].stream
    <2>1. /\ t \in Tasks /\ s \in Streams /\ attempt'[i].task = t /\ attempt'[i].stream = s
          /\ OneShot(t) /\ t \notin unrecorded
      BY <1>2, NothingForgotten, UnrecordedGrows
         DEF IInv, TypeControl, TypeOK, Control, AttemptControl, Attempt, Sent, OneShot
    <2>2. task[t].status = "pending"
      <3>1. Exists(t)
        BY <1>2, <2>1 DEF IInv, Ownership, OnStream
      <3>2. ASSUME NEW j \in Attempts, attempt[j].st = "mark", attempt[j].task = t
            PROVE  ~ attempt[j].recurring /\ FinalStatus(attempt[j].outcome) # "pending"
        <4>1. ~ attempt[j].recurring /\ attempt[j].outcome \in ResultStatuses
          BY <2>1, <3>2 DEF IInv, CallsRecorded, Sent, TypeControl, TypeOK, Attempt
        <4>. QED BY <4>1, FinalStatusTerminal DEF Terminal
      <3>. QED BY <2>1, <3>1, <3>2, RowSteps DEF IInv, StatusStep
    <2>3. handler[s].pc = "record" /\ handler[s].cur = t
      BY <1>2, <2>1, <2>2 DEF RecordedOnce
    <2>. QED BY <2>1, <2>3, LeavingRecord
  <1>. QED BY <1>1, <1>2

\* A handler takes up what is pending only.
LEMMA StillUnsentStep ==
  ASSUME IInv, RecordedOnce, StillUnsent, [Next]_vars
  PROVE  StillUnsent'
  <1>. SUFFICES ASSUME NEW s \in Streams, NEW i \in Attempts, Sent(i)',
                       attempt'[i].stream = s, OneShot(attempt[i].task)',
                       attempt'[i].task \notin unrecorded'
                PROVE  /\ attempt'[i].task \notin handler'[s].snap
                       /\ ~ (/\ handler'[s].pc = "send" /\ handler'[s].src = "queue"
                             /\ handler'[s].cur = attempt'[i].task)
    BY DEF StillUnsent
  <1>1. CASE ~ Sent(i)
    BY <1>1, NewCommand
  <1>2. CASE Sent(i)
    <2>. DEFINE t == attempt[i].task
    <2>1. /\ attempt'[i].task = t /\ attempt[i].stream = s
          /\ t \in Tasks /\ OneShot(t) /\ t \notin unrecorded
      BY <1>2, NothingForgotten, UnrecordedGrows
         DEF IInv, TypeControl, TypeOK, Control, AttemptControl, Attempt, Sent, OneShot
    <2>2. /\ t \notin handler[s].snap
          /\ ~ (handler[s].pc = "send" /\ handler[s].src = "queue" /\ handler[s].cur = t)
          /\ task[t].status = "pending" => handler[s].pc = "record"
      BY <1>2, <2>1 DEF StillUnsent, RecordedOnce
    <2>3. HandlerStep(s)
      BY HandlerSteps DEF IInv
    <2>4. t \notin handler'[s].snap
      BY <2>2, <2>3 DEF HandlerStep, GetPendingTasksByAgent
    <2>5. ASSUME handler'[s].pc = "send", handler'[s].src = "queue", handler'[s].cur = t
          PROVE  FALSE
      <3>1. \/ Carrying(handler[s]) /\ handler[s].pc = "send" /\ handler[s].cur = t
            \/ handler[s].pc = "load" /\ task[t].status = "pending"
            \/ Send(s) /\ t \in handler[s].snap
        BY <2>3, <2>5 DEF HandlerStep, Carrying
      <3>. QED BY <2>2, <3>1 DEF Carrying
    <2>. QED BY <2>1, <2>4, <2>5
  <1>. QED BY <1>1, <1>2

\* So what it sends it has not sent.
LEMMA OncePerStreamStep ==
  ASSUME IInv, StillUnsent, OncePerStream, [Next]_vars
  PROVE  OncePerStream'
  <1>. SUFFICES ASSUME NEW i \in Attempts, NEW j \in Attempts, i # j, Sent(i)', Sent(j)',
                       attempt'[i].stream = attempt'[j].stream,
                       attempt'[i].task = attempt'[j].task,
                       OneShot(attempt[i].task)', attempt'[i].task \notin unrecorded'
                PROVE  FALSE
    BY DEF OncePerStream
  <1>1. ASSUME NEW k \in Attempts, NEW n \in Attempts, k # n, ~ Sent(n), Sent(n)', Sent(k)',
               attempt'[k].stream = attempt'[n].stream,
               attempt'[k].task = attempt'[n].task,
               OneShot(attempt[k].task)', attempt'[k].task \notin unrecorded'
        PROVE  FALSE
    <2>1. attempt'[k] = attempt[k] /\ Sent(k)
      BY <1>1, NewCommand DEF Sent
    <2>2. /\ attempt[k].task \in Tasks /\ attempt[k].stream \in Streams
          /\ OneShot(attempt[k].task) /\ attempt[k].task \notin unrecorded
      BY <1>1, <2>1, NothingForgotten, UnrecordedGrows
         DEF IInv, TypeControl, TypeOK, Control, AttemptControl, Attempt, Sent, OneShot
    <2>. QED BY <1>1, <2>1, <2>2, NewCommand DEF StillUnsent
  <1>2. CASE Sent(i) /\ Sent(j)
    <2>1. attempt[i].task \in Tasks
      BY <1>2 DEF IInv, TypeControl, TypeOK, Control, AttemptControl, Sent
    <2>. QED BY <1>2, <2>1, NothingForgotten, UnrecordedGrows DEF OncePerStream, OneShot
  <1>3. OneShot(attempt[j].task)'
    BY DEF OneShot
  <1>. QED BY <1>1, <1>2, <1>3

\* However often the scheduler, a chain or the poll brings up a task that runs once,

\* one AssignTasks handler sends it once, unless its update to assigned failed.
THEOREM SentOncePerStream == Spec => []OncePerStream
  <1>1. Init => OnceInv
    BY OnceInit
  <1>2. OnceInv /\ [Next]_vars => OnceInv'
    BY IInvStep, RecordedOnceStep, StillUnsentStep, OncePerStreamStep DEF OnceInv
  <1>3. OnceInv => OncePerStream
    BY DEF OnceInv
  <1>. QED BY <1>1, <1>2, <1>3, PTL DEF Spec

-----------------------------------------------------------------------------
(* TaskDispatch implements TaskLifecycle. *)

SentTasks == {attempt[i].task : i \in {k \in Attempts : Sent(k)}}

\* Only Send adds to the tasks that were sent.
LEMMA SentTasksFrame ==
  ASSUME IInv, [Next]_vars, ~ \E s \in Streams : Send(s)
  PROVE  SentTasks' = SentTasks
  <1>1. ASSUME NEW i \in Attempts
        PROVE  /\ Sent(i)' <=> Sent(i)
               /\ Sent(i) => attempt'[i].task = attempt[i].task
    BY AttemptSteps DEF IInv, AttemptStep, Sent
  <1>. QED BY <1>1 DEF SentTasks

\* Send adds a task that has a row.
LEMMA SentTasksGrow ==
  ASSUME IInv, NEW s \in Streams, Send(s)
  PROVE  \E t \in Tasks : Exists(t) /\ SentTasks' = SentTasks \cup {t}
  <1>0. /\ attempt \in [Attempts -> Attempt] /\ handler[s] \in Handler
        /\ handler[s].pc = "send" /\ HandlerControl(handler[s])
    BY DEF IInv, TypeControl, TypeOK, Control, Send
  <1>1. PICK k \in FreeAttempts,
             t \in IF handler[s].src = "queue" THEN {handler[s].cur} ELSE handler[s].snap :
          attempt' = [attempt EXCEPT ![k] =
               [Unsent EXCEPT !.st = IF connected[s] THEN "wire" ELSE "lost",
                              !.task = t, !.stream = s]]
    BY DEF Send
  <1>2. k \in Attempts /\ ~ Sent(k)
    BY <1>1, FreeAttemptsFact
  <1>3. t \in OnStream(s)
    BY <1>0, <1>1 DEF OnStream, Carried, HandlerControl
  <1>4. t \in Tasks /\ Exists(t)
    BY <1>3, OnStreamTasks DEF IInv, Ownership
  <1>5. /\ attempt'[k].st \in {"wire", "lost"} /\ attempt'[k].task = t
        /\ \A i \in Attempts \ {k} : attempt'[i] = attempt[i]
    BY <1>0, <1>1, <1>2 DEF Unsent
  <1>. QED BY <1>2, <1>4, <1>5 DEF SentTasks, Sent

\* A step that changes no row, no result and sends nothing is no step of the life cycle.
LEMMA LifecycleStutter ==
  ASSUME UNCHANGED <<task, results, held>>, SentTasks' = SentTasks
  PROVE  UNCHANGED Lifecycle!lifecycleVars
  BY DEF Lifecycle!lifecycleVars, SentTasks, OneShot

\* The moves of one task are steps of the life cycle.
LEMMA LifecycleMoves ==
  ASSUME NEW t \in Tasks, NEW r \in ResultStatuses,
         \/ Lifecycle!Assign(t) \/ Lifecycle!Begin(t) \/ Lifecycle!Rearm(t)
         \/ Lifecycle!Finish(t, r)
  PROVE  Lifecycle!Next
  BY DEF Lifecycle!Next

\* The initial states correspond.
LEMMA LifecycleInit == Init => Lifecycle!Init
  <1>. SUFFICES ASSUME Init PROVE Lifecycle!Init
    OBVIOUS
  <1>1. SentTasks = {}
    BY DEF Init, SentTasks, Sent, Unsent
  <1>. QED BY <1>1 DEF Init, StoreInit, Lifecycle!Init, SentTasks, OneShot

\* Every step is one of the life cycle or none.
LEMMA LifecycleStep ==
  ASSUME IInv, [Next]_vars
  PROVE  [Lifecycle!Next]_(Lifecycle!lifecycleVars)
  <1>. DEFINE Step == [Lifecycle!Next]_(Lifecycle!lifecycleVars)
              row == [t \in Tasks |-> task[t].status]
              recurs == {t \in Tasks : ~ OneShot(t)}
  <1>0. /\ StoreTypeOK /\ task \in [Tasks -> Row]
        /\ handler \in [Streams -> Handler]
        /\ \A s \in Streams : handler[s] \in Handler /\ HandlerControl(handler[s])
        /\ \A i \in Attempts : attempt[i] \in Attempt /\ AttemptControl(attempt[i])
    BY DEF IInv, TypeControl, TypeOK, Control, StoreTypeOK
  <1>a. ASSUME UNCHANGED handler
        PROVE  SentTasks' = SentTasks
    <2>1. ASSUME NEW s \in Streams, Send(s) PROVE FALSE
      BY <1>0, <1>a, <2>1 DEF Send, Handler
    <2>. QED BY <2>1, SentTasksFrame
  <1>1. CASE UNCHANGED <<task, results, held>>
    <2>1. ASSUME NEW s \in Streams, Send(s) PROVE Step
      <3>1. PICK t \in Tasks : Exists(t) /\ SentTasks' = SentTasks \cup {t}
        BY <2>1, SentTasksGrow
      <3>2. Lifecycle!Send(t)
        BY <1>1, <3>1 DEF Lifecycle!Send, SentTasks, Exists, OneShot
      <3>. QED BY <3>2 DEF Lifecycle!Next
    <2>2. CASE ~ \E s \in Streams : Send(s)
      BY <1>1, <2>2, SentTasksFrame, LifecycleStutter
    <2>. QED BY <2>1, <2>2
  <1>2. ASSUME NEW u \in Tasks, Create(u) PROVE Step
    <2>1. PICK schedule \in Creations[u], p \in Tasks \cup {NoTask} : CreateTask(u, schedule, p)
      BY <1>2 DEF Create
    <2>2. schedule \in ScheduleTypes
      BY DispatchAssumption
    <2>3. /\ ~ Exists(u)
          /\ task'[u] = [status |-> "pending", schedule |-> schedule, prerequisite |-> p]
          /\ held'[u] = held[u] \cup {schedule}
          /\ \A x \in Tasks \ {u} : task'[x] = task[x] /\ held'[x] = held[x]
          /\ results' = results
      BY <1>0, <2>1, <2>2, CreateTaskEffect
    <2>4. row' = [row EXCEPT ![u] = "pending"] /\ row[u] = "absent"
      <3>1. \A x \in Tasks : task'[x].status = IF x = u THEN "pending" ELSE task[x].status
        BY <2>3
      <3>. QED BY <2>3, <3>1 DEF Exists
    <2>5. recurs' \in {recurs, recurs \cup {u}}
      <3>1. CASE schedule = "RECURRING"
        BY <2>3, <3>1 DEF OneShot
      <3>2. CASE schedule # "RECURRING"
        BY <2>3, <3>2 DEF OneShot
      <3>. QED BY <3>1, <3>2
    <2>6. SentTasks' = SentTasks
      BY <1>2, <1>a DEF Create
    <2>7. Lifecycle!Create(u)
      BY <2>3, <2>4, <2>5, <2>6 DEF Lifecycle!Create, SentTasks
    <2>. QED BY <2>7 DEF Lifecycle!Next
  <1>3. ASSUME NEW u \in Tasks, Reschedule(u) PROVE Step
    <2>1. PICK schedule \in ScheduleTypes : UpdateTaskSchedule(u, schedule)
      BY <1>3 DEF Reschedule
    <2>2. /\ Exists(u)
          /\ task'[u] = [status |-> task[u].status, schedule |-> schedule,
                          prerequisite |-> NoTask]
          /\ held'[u] = held[u] \cup {schedule}
          /\ \A x \in Tasks \ {u} : task'[x] = task[x] /\ held'[x] = held[x]
          /\ results' = results
      BY <1>0, <2>1, UpdateTaskScheduleEffect
    <2>3. row' = row /\ row[u] # "absent"
      BY <2>2 DEF Exists
    <2>4. SentTasks' = SentTasks
      BY <1>3, <1>a DEF Reschedule
    <2>5. CASE schedule = "RECURRING"
      <3>1. recurs' = recurs \cup {u}
        BY <2>2, <2>5 DEF OneShot
      <3>2. Lifecycle!MakeRecurring(u)
        BY <2>2, <2>3, <2>4, <3>1 DEF Lifecycle!MakeRecurring, SentTasks
      <3>. QED BY <3>2 DEF Lifecycle!Next
    <2>6. CASE schedule # "RECURRING"
      <3>1. recurs' = recurs
        BY <2>2, <2>6 DEF OneShot
      <3>. QED BY <2>2, <2>3, <2>4, <3>1 DEF Lifecycle!lifecycleVars, SentTasks
    <2>. QED BY <2>5, <2>6
  <1>4. ASSUME NEW s \in Streams, HandleTaskAcknowledgement(s) PROVE Step
    <2>1. PICK i \in Attempts :
            /\ attempt[i].ack = "sent"
            /\ \/ MarkTaskStartedIfCurrent(attempt[i].task, "assigned")
               \/ UNCHANGED task
      BY <1>4 DEF HandleTaskAcknowledgement
    <2>0. PICK t \in Tasks : t = attempt[i].task
      BY <1>0, <2>1 DEF AttemptControl
    <2>2. "running" \in TaskStatuses
      BY DEF TaskStatuses
    <2>3. UNCHANGED <<results, held>> /\ SentTasks' = SentTasks
      BY <1>4, <1>a DEF HandleTaskAcknowledgement
    <2>4. CASE UNCHANGED task
      BY <2>3, <2>4, LifecycleStutter
    <2>5. CASE task[t].status = "assigned" /\ SetStatus(t, "running")
      <3>1. row' = [row EXCEPT ![t] = "running"]
        BY <1>0, <2>2, <2>5, SetStatusEffect
      <3>2. Lifecycle!Begin(t)
        BY <2>3, <2>5, <3>1 DEF Lifecycle!Begin, SentTasks, OneShot
      <3>. QED BY <3>2, LifecycleMoves DEF ResultStatuses
    <2>. QED BY <1>0, <2>0, <2>1, <2>2, <2>4, <2>5, StartedEffect
  <1>5. ASSUME NEW s \in Streams, RecordAssigned(s) PROVE Step
    <2>0. PICK t \in Tasks : t = handler[s].cur
      BY <1>0, <1>5 DEF RecordAssigned, HandlerControl
    <2>1. /\ handler[s].pc = "record"
          /\ "assigned" \in TaskStatuses /\ UNCHANGED <<results, held>>
          /\ handler' = [handler EXCEPT ![s] = NextRound(handler[s])]
      BY <1>5 DEF RecordAssigned, TaskStatuses
    <2>2. ASSUME NEW x \in Streams, Send(x) PROVE FALSE
      <3>1. handler[x].pc = "send" /\ handler'[x].pc = "record"
        BY <1>0, <2>2 DEF Send, Handler
      <3>. QED BY <1>0, <2>1, <3>1
    <2>3. SentTasks' = SentTasks
      BY <2>2, SentTasksFrame
    <2>4. CASE UNCHANGED task
      BY <2>1, <2>3, <2>4, LifecycleStutter
    <2>5. CASE task[t].status = "pending" /\ SetStatus(t, "assigned")
      <3>1. row' = [row EXCEPT ![t] = "assigned"]
        BY <1>0, <2>1, <2>5, SetStatusEffect
      <3>2. t \in SentTasks
        BY <2>0, <2>1 DEF IInv, RecordSent, SentTasks
      <3>3. Lifecycle!Assign(t)
        BY <2>1, <2>3, <2>5, <3>1, <3>2 DEF Lifecycle!Assign, SentTasks, OneShot
      <3>. QED BY <3>3, LifecycleMoves DEF ResultStatuses
    <2>. QED BY <1>0, <1>5, <2>0, <2>1, <2>4, <2>5, IfCurrentEffect DEF RecordAssigned
  <1>6. ASSUME NEW i \in Attempts, SaveResult(i) PROVE Step
    <2>0. PICK t \in Tasks, r \in ResultStatuses : t = attempt[i].task /\ r = attempt[i].outcome
      BY <1>0, <1>6 DEF SaveResult, AttemptControl, Attempt
    <2>1. /\ t \in SentTasks
          /\ results' = results \cup {<<t, r>>}
          /\ UNCHANGED <<task, held>>
      BY <1>6, <2>0 DEF SaveResult, CreateTaskResult, SentTasks, Sent
    <2>2. SentTasks' = SentTasks
      BY <1>6, <1>a DEF SaveResult
    <2>3. Lifecycle!Report(t, r)
      BY <2>1, <2>2 DEF Lifecycle!Report, SentTasks, OneShot
    <2>. QED BY <2>3 DEF Lifecycle!Next
  <1>7. ASSUME NEW i \in Attempts, MarkCompleted(i) PROVE Step
    <2>0. PICK t \in Tasks, r \in ResultStatuses : t = attempt[i].task /\ r = attempt[i].outcome
      BY <1>0, <1>7 DEF MarkCompleted, AttemptControl, Attempt
    <2>. DEFINE status == IF attempt[i].recurring THEN "pending" ELSE FinalStatus(r)
    <2>1. /\ attempt[i].st = "mark" /\ Sent(i)
          /\ UNCHANGED <<results, held>>
          /\ SetStatus(t, status)
      BY <1>7, <2>0 DEF MarkCompleted, MarkTaskCompleted, Sent
    <2>2. status \in TaskStatuses
      BY <2>1, FinalStatusTerminal DEF TaskStatuses, Terminal
    <2>3. row' = [row EXCEPT ![t] = status]
      <3>. HIDE DEF status
      <3>. QED BY <1>0, <2>1, <2>2, SetStatusEffect
    <2>4. SentTasks' = SentTasks
      BY <1>7, <1>a DEF MarkCompleted
    <2>5. <<t, r>> \in results
      BY <2>0, <2>1 DEF IInv, CallsRecorded
    <2>6. CASE attempt[i].recurring
      <3>1. t \in recurs
        BY <2>0, <2>1, <2>6 DEF IInv, CallsRecorded
      <3>2. Lifecycle!Rearm(t)
        BY <2>1, <2>3, <2>4, <2>5, <2>6, <3>1 DEF Lifecycle!Rearm, SentTasks, OneShot
      <3>. QED BY <3>2, LifecycleMoves
    <2>7. CASE ~ attempt[i].recurring
      <3>1. Lifecycle!Finish(t, r)
        BY <2>1, <2>3, <2>4, <2>5, <2>7 DEF Lifecycle!Finish, SentTasks, OneShot
      <3>. QED BY <3>1, LifecycleMoves
    <2>. QED BY <2>6, <2>7
  <1>. QED BY <1>1, <1>2, <1>3, <1>4, <1>5, <1>6, <1>7, StoreFrame

\* Read through its status column, the system of handlers, agents, calls and failures

\* implements the life cycle a reader of the column relies on.
THEOREM Implementation == Spec => ImplementsLifecycle
  <1>1. Init => Lifecycle!Init
    BY LifecycleInit
  <1>2. IInv /\ [Next]_vars => [Lifecycle!Next]_(Lifecycle!lifecycleVars)
    BY LifecycleStep
  <1>. QED BY <1>1, <1>2, Invariance, PTL DEF Spec, ImplementsLifecycle, Lifecycle!Spec

-----------------------------------------------------------------------------
(* An id that triggerChainedTasks has pushed is not lost by the handlers   *)
(* through whose hands it goes: Receive takes it off the shared queue,     *)
(* Defer keeps it in a local slice, Requeue pushes it back, and between    *)
(* these steps other handlers, result calls and failures interleave.       *)

\* A handler has nothing at hand between two rounds, and has pushed back all it
\* deferred before it polls.
HandClean(h) ==
  /\ h.pc \in {"off", "select", "receive", "requeue", "poll"} => h.cur = NoTask
  /\ h.pc \in {"off", "select", "poll"} \/ h.src = "poll" => h.deferred = <<>>

\* t is not due, was sent, or its id is still there.
Kept(t) ==
  \/ task[t].status # "pending"
  \/ \E i \in Attempts : Sent(i) /\ attempt[i].task = t
  \/ t \in InQueue
  \/ \E s \in Streams : t \in InHand(s)

TriggerInv ==
  /\ IInv
  /\ \A s \in Streams : HandClean(handler[s])
  /\ \A t \in triggered : Exists(t) /\ (t \in dropped \/ Kept(t))

\* InHand, of a handler.
Holds(h) == DeferredIn(h) \cup (IF h.src = "queue" THEN {h.cur} ELSE {})

-----------------------------------------------------------------------------
(* Its preservation. *)

\* A round over the queue that ends lets go of the task at hand only.
LEMMA NextRoundClean ==
  ASSUME NEW h \in Handler, h.src = "queue" => h.depth > 0,
         h.src = "poll" => h.deferred = <<>>
  PROVE  LET n == NextRound(h) IN
         /\ HandClean(n)
         /\ h.src = "queue" => n.src = "queue" /\ n.deferred = h.deferred
  <1>0. /\ h.src \in {"queue", "poll"} /\ h.depth \in Nat
        /\ h.deferred \in Seq(Tasks) /\ h.snap \in SUBSET Tasks
    BY DEF Handler
  <1>1. CASE h.src = "queue"
    <2>. DEFINE pc == IF h.depth > 1 THEN "receive"
                      ELSE IF h.deferred # <<>> THEN "requeue" ELSE "poll"
                n == [h EXCEPT !.cur = NoTask, !.depth = h.depth - 1, !.pc = pc]
    <2>1. NextRound(h) = n
      BY <1>1 DEF NextRound
    <2>2. /\ n.pc = pc /\ n.src = h.src /\ n.cur = NoTask /\ n.deferred = h.deferred
      BY DEF Handler
    <2>3. pc \in {"receive", "requeue"} \/ (pc = "poll" /\ h.deferred = <<>>)
      OBVIOUS
    <2>. HIDE DEF n, pc
    <2>. QED BY <1>1, <2>1, <2>2, <2>3 DEF HandClean
  <1>2. CASE h.src = "poll" /\ h.snap # {}
    BY <1>0, <1>2 DEF NextRound, Handler, HandClean
  <1>3. CASE h.src = "poll" /\ h.snap = {}
    BY <1>0, <1>3 DEF NextRound, Select, Fresh, HandClean
  <1>. QED BY <1>0, <1>1, <1>2, <1>3

\* A round over the queue that ends by deferring lets go of nothing.
LEMMA DeferClean ==
  ASSUME NEW h \in Handler, h.src = "queue", h.depth > 0, h.cur \in Tasks
  PROVE  LET n == Defer(h) IN
         /\ HandClean(n)
         /\ n.src = "queue" /\ n.deferred = Append(h.deferred, h.cur)
  <1>. DEFINE d == [h EXCEPT !.deferred = Append(h.deferred, h.cur)]
  <1>1. /\ d \in Handler /\ d.src = "queue" /\ d.depth > 0
        /\ d.deferred = Append(h.deferred, h.cur)
    BY QueueFacts DEF Handler
  <1>2. Defer(h) = NextRound(d)
    BY DEF Defer
  <1>. HIDE DEF d
  <1>. QED BY <1>1, <1>2, NextRoundClean

\* A list grows at its end and shrinks at its head.
LEMMA DeferredGrows ==
  ASSUME NEW h \in Handler, NEW n, NEW t \in Tasks, n.deferred = Append(h.deferred, t)
  PROVE  DeferredIn(h) \cup {t} \subseteq DeferredIn(n)
  <1>0. h.deferred \in Seq(Tasks)
    BY DEF Handler
  <1>1. /\ Len(n.deferred) = Len(h.deferred) + 1 /\ Len(h.deferred) \in Nat
        /\ \A k \in 1..Len(h.deferred) + 1 :
             n.deferred[k] = IF k = Len(h.deferred) + 1 THEN t ELSE h.deferred[k]
    BY <1>0, QueueFacts
  <1>2. ASSUME NEW k \in 1..Len(h.deferred)
        PROVE  k \in 1..Len(n.deferred) /\ n.deferred[k] = h.deferred[k]
    BY <1>1
  <1>3. /\ Len(h.deferred) + 1 \in 1..Len(n.deferred)
        /\ n.deferred[Len(h.deferred) + 1] = t
    BY <1>1
  <1>. QED BY <1>2, <1>3 DEF DeferredIn

\* Between two steps a handler keeps its hands as HandClean says.
LEMMA HandCleanStep ==
  ASSUME TriggerInv, [Next]_vars, NEW s \in Streams
  PROVE  HandClean(handler'[s])
  <1>0. /\ handler \in [Streams -> Handler] /\ handler[s] \in Handler
        /\ HandlerControl(handler[s]) /\ HandClean(handler[s])
        /\ taskQueue \in Seq(Tasks)
    BY DEF TriggerInv, IInv, TypeControl, TypeOK, Control
  <1>1. CASE handler'[s] = handler[s]
    BY <1>0, <1>1
  <1>2. CASE \E pc \in {"off", "select", "poll"} : handler'[s] = Fresh(pc)
    BY <1>2 DEF Fresh, HandClean
  <1>3. CASE Tick(s)
    <2>1. /\ handler'[s].cur = NoTask /\ handler'[s].src = "queue"
          /\ handler'[s].deferred = <<>>
      BY <1>0, <1>3 DEF Tick, Select, Fresh
    <2>. QED BY <2>1 DEF HandClean
  <1>4. CASE Receive(s)
    <2>1. /\ handler'[s].pc = "load" /\ handler'[s].src = handler[s].src
          /\ handler[s].pc = "receive" /\ handler'[s].deferred = handler[s].deferred
      BY <1>0, <1>4 DEF Receive, Handler
    <2>. QED BY <1>0, <2>1 DEF HandClean
  <1>5. CASE Load(s)
    <2>0. /\ handler[s].pc = "load" /\ handler[s].cur \in Tasks
          /\ handler[s].src = "queue" /\ handler[s].depth > 0
      BY <1>0, <1>5 DEF Load, HandlerControl
    <2>1. handler'[s] \in {Defer(handler[s]), NextRound(handler[s]),
                           [handler[s] EXCEPT !.pc = "send"]}
      BY <1>0, <1>5 DEF Load
    <2>2. HandClean([handler[s] EXCEPT !.pc = "send"])
      BY <1>0, <2>0 DEF HandClean, Handler
    <2>. QED BY <1>0, <2>0, <2>1, <2>2, DeferClean, NextRoundClean
  <1>6. CASE LoadFails(s) \/ RecordAssigned(s)
    <2>1. /\ handler'[s] = NextRound(handler[s])
          /\ handler[s].src = "queue" => handler[s].depth > 0
          /\ handler[s].src = "poll" => handler[s].deferred = <<>>
      BY <1>0, <1>6 DEF LoadFails, RecordAssigned, HandlerControl, HandClean
    <2>. QED BY <1>0, <2>1, NextRoundClean
  <1>7. CASE Send(s)
    <2>1. /\ handler'[s].pc = "record" /\ handler'[s].src = handler[s].src
          /\ handler'[s].deferred = handler[s].deferred
      BY <1>0, <1>7 DEF Send, Handler
    <2>. QED BY <1>0, <2>1 DEF HandClean
  <1>8. CASE SendFails(s) /\ handler[s].src = "queue"
    <2>1. /\ handler'[s] = Defer(handler[s]) /\ handler[s].cur \in Tasks
          /\ handler[s].depth > 0
      BY <1>0, <1>8 DEF SendFails, HandlerControl
    <2>. QED BY <1>0, <1>8, <2>1, DeferClean
  <1>9. CASE Requeue(s)
    <2>1. /\ handler[s].pc = "requeue" /\ handler[s].src = "queue"
          /\ handler[s].deferred # <<>> /\ handler[s].cur = NoTask
          /\ handler[s].deferred \in Seq(Tasks)
      BY <1>0, <1>9 DEF Requeue, Handler, HandlerControl, HandClean
    <2>2. /\ handler'[s].src = "queue" /\ handler'[s].cur = NoTask
          /\ handler'[s].deferred = Tail(handler[s].deferred)
          /\ handler'[s].pc = IF Len(handler[s].deferred) > 1 THEN "requeue" ELSE "poll"
      BY <1>0, <1>9, <2>1 DEF Requeue, Handler
    <2>3. /\ Tail(handler[s].deferred) \in Seq(Tasks)
          /\ Len(Tail(handler[s].deferred)) = Len(handler[s].deferred) - 1
          /\ Len(handler[s].deferred) >= 1 /\ Len(handler[s].deferred) \in Nat
      BY <2>1, QueueFacts
    <2>4. ~ Len(handler[s].deferred) > 1 => Tail(handler[s].deferred) = <<>>
      BY <2>3, QueueFacts
    <2>. QED BY <2>2, <2>4 DEF HandClean
  <1>10. CASE Poll(s)
    <2>. DEFINE h == [Select EXCEPT !.src = "poll", !.snap = GetPendingTasksByAgent(StreamAgent[s])]
    <2>1. h \in Handler /\ h.src = "poll" /\ h.deferred = <<>>
      BY FreshControl DEF Select, Fresh, Handler, GetPendingTasksByAgent
    <2>2. handler'[s] = NextRound(h)
      BY <1>0, <1>10 DEF Poll
    <2>. HIDE DEF h
    <2>. QED BY <2>1, <2>2, NextRoundClean
  <1>11. CASE Connect(s) \/ HandlerExit(s) \/ PollFails(s) \/ ServerCrash
              \/ (SendFails(s) /\ handler[s].src # "queue")
    <2>1. \E pc \in {"off", "select", "poll"} : handler'[s] = Fresh(pc)
      BY <1>0, <1>11 DEF Connect, HandlerExit, PollFails, ServerCrash, SendFails, Off, Select
    <2>. QED BY <1>2, <2>1
  <1>12. ASSUME NEW x \in Streams, x # s,
                \/ Connect(x) \/ HandlerExit(x) \/ Tick(x) \/ Receive(x) \/ Load(x)
                \/ LoadFails(x) \/ Send(x) \/ SendFails(x) \/ RecordAssigned(x)
                \/ Requeue(x) \/ Poll(x) \/ PollFails(x)
         PROVE  handler'[s] = handler[s]
    BY <1>0, <1>12 DEF Connect, HandlerExit, Tick, Receive, Load, LoadFails, Send, SendFails,
       RecordAssigned, Requeue, Poll, PollFails
  <1>. QED BY <1>1, <1>3, <1>4, <1>5, <1>6, <1>7, <1>8, <1>9, <1>10, <1>11, <1>12, HandlerFrame

\* What is thrown away stays on record.
LEMMA DroppedGrows ==
  ASSUME [Next]_vars
  PROVE  dropped \subseteq dropped'
  BY DEF Next, vars, history, Create, Reschedule, SchedulerQueues, Connect, HandlerExit,
     HandleTaskAcknowledgement, Tick, Receive, Load, LoadFails, Send, SendFails, RecordAssigned,
     Requeue, Poll, PollFails, AgentStart, AgentReport, ReadTask, SaveResult, MarkCompleted,
     LoadChained, PushChained, CallFails, Disconnect, AgentCrash, ServerCrash

\* A task that is not pending comes back to pending from a result call only, and that
\* belongs to a command that was sent.
LEMMA StatusKept ==
  ASSUME IInv, [Next]_vars, NEW t \in Tasks, Exists(t), task[t].status # "pending"
  PROVE  \/ task'[t].status # "pending"
         \/ \E i \in Attempts : Sent(i)' /\ attempt'[i].task = t
  <1>1. StatusStep(t)
    BY RowSteps DEF IInv
  <1>2. CASE \E i \in Attempts : attempt[i].st = "mark" /\ attempt[i].task = t
    BY <1>2, NothingForgotten DEF Sent
  <1>. QED BY <1>1, <1>2 DEF StatusStep

\* An id leaves the queue into the hands of a handler, or with the server.
LEMMA QueueKept ==
  ASSUME IInv, [Next]_vars, NEW t \in Tasks, t \in InQueue
  PROVE  \/ t \in InQueue' \/ t \in dropped'
         \/ \E s \in Streams : t \in Holds(handler'[s])
  <1>0. /\ taskQueue \in Seq(Tasks) /\ handler \in [Streams -> Handler]
        /\ \A s \in Streams : handler[s] \in Handler /\ HandlerControl(handler[s])
        /\ \A i \in Attempts : attempt[i] \in Attempt
    BY DEF IInv, TypeControl, TypeOK, Control
  <1>1. PICK k \in 1..Len(taskQueue) : t = taskQueue[k]
    BY DEF InQueue
  <1>2. CASE UNCHANGED taskQueue
    BY <1>2 DEF InQueue
  <1>3. ASSUME \E u \in Tasks : taskQueue' = Append(taskQueue, u)
        PROVE  t \in InQueue'
    <2>1. /\ Len(taskQueue') = Len(taskQueue) + 1 /\ Len(taskQueue) \in Nat
          /\ taskQueue'[k] = taskQueue[k]
      BY <1>0, <1>1, <1>3, QueueFacts
    <2>2. k \in 1..Len(taskQueue')
      BY <1>1, <2>1
    <2>. QED BY <1>1, <2>1, <2>2 DEF InQueue
  <1>4. ASSUME NEW u \in Tasks, SchedulerQueues(u) PROVE t \in InQueue'
    BY <1>3, <1>4 DEF SchedulerQueues
  <1>5. ASSUME NEW s \in Streams, Requeue(s) PROVE t \in InQueue'
    <2>1. /\ handler[s].deferred \in Seq(Tasks) /\ handler[s].deferred # <<>>
          /\ taskQueue' = Append(taskQueue, Head(handler[s].deferred))
      BY <1>0, <1>5 DEF Requeue, Handler, HandlerControl
    <2>2. Head(handler[s].deferred) \in Tasks
      BY <2>1, QueueFacts
    <2>. QED BY <1>3, <2>1, <2>2
  <1>6. ASSUME NEW i \in Attempts, PushChained(i) PROVE t \in InQueue'
    <2>1. PICK u \in attempt[i].chain : taskQueue' = Append(taskQueue, u)
      BY <1>6 DEF PushChained
    <2>. QED BY <1>0, <1>3, <2>1 DEF Attempt
  <1>7. ASSUME NEW s \in Streams, Receive(s)
        PROVE  t \in InQueue' \/ t \in Holds(handler'[s])
    <2>1. /\ handler[s].src = "queue" /\ taskQueue # <<>>
          /\ handler'[s].cur = Head(taskQueue) /\ handler'[s].src = handler[s].src
          /\ taskQueue' = Tail(taskQueue)
      BY <1>0, <1>7 DEF Receive, HandlerControl, Handler
    <2>2. /\ Head(taskQueue) = taskQueue[1] /\ Len(taskQueue) \in Nat
          /\ Len(taskQueue') = Len(taskQueue) - 1
          /\ \A j \in 1..Len(taskQueue) - 1 : taskQueue'[j] = taskQueue[j + 1]
      BY <1>0, <2>1, QueueFacts
    <2>3. CASE k = 1
      BY <1>1, <2>1, <2>2, <2>3 DEF Holds
    <2>4. CASE k # 1
      <3>1. k - 1 \in 1..Len(taskQueue') /\ taskQueue'[k - 1] = t
        BY <1>1, <2>2, <2>4
      <3>. QED BY <3>1 DEF InQueue
    <2>. QED BY <2>3, <2>4
  <1>8. CASE ServerCrash
    BY <1>8 DEF ServerCrash
  <1>. QED BY <1>2, <1>4, <1>5, <1>6, <1>7, <1>8, QueueFrame

\* An id leaves a handler's hands when it is sent or its task is not due, into the
\* queue, or with a failure.
LEMMA HandsKept ==
  ASSUME TriggerInv, [Next]_vars, NEW t \in Tasks, NEW s \in Streams,
         t \in Holds(handler[s])
  PROVE  \/ t \in Holds(handler'[s]) \/ t \in InQueue' \/ t \in dropped'
         \/ task[t].status # "pending"
         \/ \E i \in Attempts : Sent(i)' /\ attempt'[i].task = t
  <1>0. /\ handler \in [Streams -> Handler] /\ handler[s] \in Handler
        /\ HandlerControl(handler[s]) /\ HandClean(handler[s])
        /\ taskQueue \in Seq(Tasks) /\ attempt \in [Attempts -> Attempt] /\ IInv
        /\ handler[s].src \in {"queue", "poll"} /\ handler[s].deferred \in Seq(Tasks)
    BY DEF TriggerInv, IInv, TypeControl, TypeOK, Control, Handler
  <1>a. /\ t \in DeferredIn(handler[s]) \/ t = handler[s].cur
        /\ handler[s].src = "queue"
        /\ t # NoTask
    <2>1. handler[s].src = "poll" => DeferredIn(handler[s]) = {}
      BY <1>0 DEF HandClean, DeferredIn
    <2>. QED BY <1>0, <2>1, StoreAssumption DEF Holds
  <1>b. ASSUME handler'[s].src = "queue", handler'[s].cur = handler[s].cur,
               handler'[s].deferred = handler[s].deferred
        PROVE  t \in Holds(handler'[s])
    BY <1>a, <1>b DEF Holds, DeferredIn
  <1>c. ASSUME handler'[s] = Defer(handler[s]), handler[s].depth > 0, handler[s].cur \in Tasks
        PROVE  t \in Holds(handler'[s])
    <2>1. handler'[s].deferred = Append(handler[s].deferred, handler[s].cur)
      BY <1>0, <1>a, <1>c, DeferClean
    <2>2. DeferredIn(handler[s]) \cup {handler[s].cur} \subseteq DeferredIn(handler'[s])
      BY <1>0, <1>c, <2>1, DeferredGrows
    <2>. QED BY <1>a, <2>2 DEF Holds
  <1>d. ASSUME handler'[s] = NextRound(handler[s]), handler[s].depth > 0
        PROVE  t \in Holds(handler'[s]) \/ t = handler[s].cur
    <2>1. handler'[s].deferred = handler[s].deferred
      BY <1>0, <1>a, <1>d, NextRoundClean
    <2>. QED BY <1>a, <2>1 DEF Holds, DeferredIn
  <1>e. ASSUME handler[s].pc \in {"off", "select", "poll"}
        PROVE  FALSE
    BY <1>0, <1>a, <1>e DEF HandClean, DeferredIn
  <1>1. CASE handler'[s] = handler[s]
    BY <1>1
  <1>2. CASE \/ Connect(s) \/ HandlerExit(s) \/ Tick(s) \/ Poll(s) \/ PollFails(s)
    BY <1>2, <1>e DEF Connect, HandlerExit, Tick, Poll, PollFails, Off, Fresh
  <1>3. CASE Receive(s)
    <2>1. /\ handler'[s].src = "queue" /\ handler'[s].deferred = handler[s].deferred
          /\ handler[s].cur = NoTask
      BY <1>0, <1>3, <1>a DEF Receive, Handler, HandClean
    <2>. QED BY <1>a, <2>1 DEF Holds, DeferredIn
  <1>4. CASE Load(s)
    <2>0. handler[s].depth > 0 /\ handler[s].cur \in Tasks
      BY <1>0, <1>4 DEF Load, HandlerControl
    <2>1. CASE AgentOf[handler[s].cur] # StreamAgent[s]
      BY <1>0, <1>4, <2>0, <2>1, <1>c DEF Load
    <2>2. CASE AgentOf[handler[s].cur] = StreamAgent[s] /\ task[handler[s].cur].status # "pending"
      BY <1>0, <1>4, <2>0, <2>2, <1>d DEF Load
    <2>3. CASE AgentOf[handler[s].cur] = StreamAgent[s] /\ task[handler[s].cur].status = "pending"
      <3>1. handler'[s] = [handler[s] EXCEPT !.pc = "send"]
        BY <1>0, <1>4, <2>3 DEF Load
      <3>. QED BY <1>0, <1>a, <1>b, <3>1 DEF Handler
    <2>. QED BY <2>1, <2>2, <2>3
  <1>5. CASE LoadFails(s)
    BY <1>0, <1>5, <1>a, <1>d DEF LoadFails, HandlerControl
  <1>6. CASE Send(s)
    <2>1. PICK i \in FreeAttempts :
            attempt' = [attempt EXCEPT ![i] =
                 [Unsent EXCEPT !.st = IF connected[s] THEN "wire" ELSE "lost",
                                !.task = handler[s].cur, !.stream = s]]
      BY <1>6, <1>a DEF Send
    <2>2. /\ i \in Attempts /\ attempt'[i].st \in {"wire", "lost"}
          /\ attempt'[i].task = handler[s].cur
      BY <1>0, <2>1, FreeAttemptsFact DEF Unsent
    <2>3. /\ handler'[s].src = "queue" /\ handler'[s].deferred = handler[s].deferred
      BY <1>0, <1>6, <1>a DEF Send, Handler
    <2>. QED BY <1>a, <2>2, <2>3 DEF Holds, DeferredIn, Sent
  <1>7. CASE SendFails(s)
    BY <1>0, <1>7, <1>a, <1>c DEF SendFails, HandlerControl
  <1>8. CASE RecordAssigned(s)
    <2>1. /\ handler'[s] = NextRound(handler[s]) /\ handler[s].depth > 0
          /\ handler[s].pc = "record"
      BY <1>0, <1>8, <1>a DEF RecordAssigned, HandlerControl
    <2>2. \E i \in Attempts : Sent(i) /\ attempt[i].task = handler[s].cur
      BY <1>0, <2>1 DEF IInv, RecordSent
    <2>. QED BY <1>0, <1>d, <2>1, <2>2, NothingForgotten
  <1>9. CASE Requeue(s)
    <2>1. /\ handler[s].deferred # <<>> /\ handler[s].cur = NoTask
          /\ taskQueue' = Append(taskQueue, Head(handler[s].deferred))
      BY <1>0, <1>9 DEF Requeue, HandlerControl, HandClean
    <2>2. /\ handler'[s].deferred = Tail(handler[s].deferred)
      BY <1>0, <1>9 DEF Requeue, Handler
    <2>3. PICK k \in 1..Len(handler[s].deferred) : t = handler[s].deferred[k]
      BY <1>a, <2>1 DEF DeferredIn
    <2>4. /\ Head(handler[s].deferred) = handler[s].deferred[1]
          /\ Head(handler[s].deferred) \in Tasks
          /\ Len(handler[s].deferred) \in Nat
          /\ Len(handler'[s].deferred) = Len(handler[s].deferred) - 1
          /\ \A j \in 1..Len(handler[s].deferred) - 1 :
               handler'[s].deferred[j] = handler[s].deferred[j + 1]
      BY <1>0, <2>1, <2>2, QueueFacts
    <2>5. CASE k = 1
      <3>1. t = Head(handler[s].deferred)
        BY <2>3, <2>4, <2>5
      <3>2. /\ Len(taskQueue) + 1 \in 1..Len(taskQueue')
            /\ taskQueue'[Len(taskQueue) + 1] = t
        BY <1>0, <2>1, <2>4, <3>1, QueueFacts
      <3>. QED BY <3>2 DEF InQueue
    <2>6. CASE k # 1
      <3>1. k - 1 \in 1..Len(handler'[s].deferred) /\ handler'[s].deferred[k - 1] = t
        BY <2>3, <2>4, <2>6
      <3>. QED BY <3>1 DEF Holds, DeferredIn
    <2>. QED BY <2>5, <2>6
  <1>10. CASE ServerCrash
    <2>1. t \in InHand(s)
      BY DEF Holds, DeferredIn, InHand
    <2>2. dropped' = dropped \cup InQueue \cup UNION {InHand(x) \cap Tasks : x \in Streams}
      BY <1>10 DEF ServerCrash
    <2>. QED BY <2>1, <2>2
  <1>11. ASSUME NEW x \in Streams, x # s,
                \/ Connect(x) \/ HandlerExit(x) \/ Tick(x) \/ Receive(x) \/ Load(x)
                \/ LoadFails(x) \/ Send(x) \/ SendFails(x) \/ RecordAssigned(x)
                \/ Requeue(x) \/ Poll(x) \/ PollFails(x)
         PROVE  handler'[s] = handler[s]
    BY <1>0, <1>11 DEF Connect, HandlerExit, Tick, Receive, Load, LoadFails, Send, SendFails,
       RecordAssigned, Requeue, Poll, PollFails
  <1>. QED BY <1>1, <1>2, <1>3, <1>4, <1>5, <1>6, <1>7, <1>8, <1>9, <1>10, <1>11, HandlerFrame

\* So a task that was triggered and is due is still on its way.
LEMMA KeptStep ==
  ASSUME TriggerInv, [Next]_vars, NEW t \in Tasks, Exists(t), t \in dropped \/ Kept(t)
  PROVE  t \in dropped' \/ Kept(t)'
  <1>0. IInv /\ \A s \in Streams : InHand(s) = Holds(handler[s])
    BY DEF TriggerInv, InHand, Holds, DeferredIn
  <1>a. \A s \in Streams : InHand(s)' = Holds(handler'[s])
    BY DEF InHand, Holds, DeferredIn
  <1>1. CASE t \in dropped
    BY <1>1, DroppedGrows
  <1>2. CASE task[t].status # "pending"
    BY <1>0, <1>2, StatusKept DEF Kept
  <1>3. CASE \E i \in Attempts : Sent(i) /\ attempt[i].task = t
    BY <1>0, <1>3, NothingForgotten DEF Kept
  <1>4. CASE t \in InQueue
    BY <1>0, <1>a, <1>4, QueueKept DEF Kept
  <1>5. ASSUME NEW s \in Streams, t \in InHand(s)
        PROVE  t \in dropped' \/ Kept(t)'
    BY <1>0, <1>a, <1>2, <1>5, HandsKept DEF Kept
  <1>. QED BY <1>1, <1>2, <1>3, <1>4, <1>5 DEF Kept

\* PushChained alone triggers, a task that exists, and puts its id in the queue.
LEMMA NewTrigger ==
  ASSUME IInv, [Next]_vars, NEW t \in triggered'
  PROVE  t \in triggered \/ (t \in Tasks /\ Exists(t) /\ t \in InQueue')
  <1>1. CASE UNCHANGED triggered
    BY <1>1
  <1>2. ASSUME NEW i \in Attempts, PushChained(i)
        PROVE  t \in triggered \/ (t \in Tasks /\ Exists(t) /\ t \in InQueue')
    <2>1. PICK u \in attempt[i].chain :
            /\ taskQueue' = Append(taskQueue, u)
            /\ triggered' = triggered \cup {u}
      BY <1>2 DEF PushChained
    <2>2. u \in Tasks /\ u \in UnderWay /\ taskQueue \in Seq(Tasks)
      BY <2>1 DEF IInv, TypeControl, TypeOK, Attempt, UnderWay
    <2>3. Exists(u)
      BY <2>2 DEF IInv, OnlyReleased, Released
    <2>4. /\ Len(taskQueue) + 1 \in 1..Len(taskQueue')
          /\ taskQueue'[Len(taskQueue) + 1] = u
      BY <2>1, <2>2, QueueFacts
    <2>. QED BY <2>1, <2>2, <2>3, <2>4 DEF InQueue
  <1>3. \/ UNCHANGED triggered
        \/ \E i \in Attempts : PushChained(i)
    BY DEF Next, vars, history, Create, Reschedule, SchedulerQueues, Connect, HandlerExit,
       HandleTaskAcknowledgement, Tick, Receive, Load, LoadFails, Send, SendFails,
       RecordAssigned, Requeue, Poll, PollFails, AgentStart, AgentReport, ReadTask, SaveResult,
       MarkCompleted, LoadChained, CallFails, Disconnect, AgentCrash, ServerCrash
  <1>. QED BY <1>1, <1>2, <1>3

\* A chained task whose turn has come does not end up pending with its id nowhere
\* (triggerChainedTasks, dispatchQueuedTasks): no handler forgets an id but at a load that
\* fails, and no handler ends with an id in its hands.
THEOREM TriggersAreKept == Spec => []TriggerKept
  <1>1. Init => TriggerInv
    <2>. SUFFICES ASSUME Init PROVE TriggerInv
      OBVIOUS
    <2>1. IInv /\ triggered = {} /\ \A s \in Streams : handler[s] = Fresh("off")
      BY IInvInit DEF Init, Off
    <2>2. HandClean(Fresh("off"))
      BY DEF HandClean, Fresh
    <2>. QED BY <2>1, <2>2 DEF TriggerInv
  <1>2. TriggerInv /\ [Next]_vars => TriggerInv'
    <2>. SUFFICES ASSUME TriggerInv, [Next]_vars PROVE TriggerInv'
      OBVIOUS
    <2>1. IInv /\ IInv' /\ triggered \subseteq Tasks
      BY IInvStep DEF TriggerInv, IInv, TypeControl, TypeOK
    <2>2. ASSUME NEW t \in triggered'
          PROVE  Exists(t)' /\ (t \in dropped' \/ Kept(t)')
      <3>1. CASE t \in triggered
        BY <2>1, <3>1, KeptStep, NothingForgotten DEF TriggerInv
      <3>2. CASE t \in Tasks /\ Exists(t) /\ t \in InQueue'
        BY <2>1, <3>2, NothingForgotten DEF Kept
      <3>. QED BY <2>1, <3>1, <3>2, NewTrigger
    <2>. QED BY <2>1, <2>2, HandCleanStep DEF TriggerInv
  <1>3. TriggerInv => TriggerKept
    BY DEF TriggerInv, TriggerKept, Kept
  <1>. QED BY <1>1, <1>2, <1>3, PTL DEF Spec
=============================================================================
