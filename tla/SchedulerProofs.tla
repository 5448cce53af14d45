---------------------------- MODULE SchedulerProofs ----------------------------
(***************************************************************************)
(* Theorems about Scheduler, for every set of tasks, every queue capacity, *)
(* any schedules and any bounds.                                           *)
(***************************************************************************)
EXTENDS Scheduler, TLAPS

Scheduled == {"ONCE", "RECURRING"}

-----------------------------------------------------------------------------
(* The inductive invariant. *)

\* A row's schedule is one the task has had, and so is its time; a recurring one has
\* an expression.
RowsKnown ==
  \A t \in Tasks :
    /\ Exists(t) => task[t].schedule \in held[t]
    /\ Exists(t) /\ task[t].schedule = "ONCE" => scheduledAt[t] \in times[t]
    /\ Exists(t) /\ task[t].schedule = "RECURRING" => expression[t] \in Expressions
    /\ times[t] # {} => "ONCE" \in held[t]

\* A copy in the map is of a row the task once had.
CopiesKnown ==
  \A t \in Tasks :
    \/ tasks[t] = NoCopy
    \/ tasks[t].schedule = "ONCE" /\ tasks[t].at \in times[t]
    \/ tasks[t].schedule = "RECURRING" /\ "RECURRING" \in held[t]

\* The pass pushes copies whose time has come.
TodoIsDue ==
  /\ loop.pc # "check" => loop.todo = {}
  /\ \A t \in loop.todo : tasks[t].schedule = "ONCE" /\ tasks[t].at <= now

\* A recurring task with an entry keeps its copy unless it is made one-time.
EntriesKnown ==
  \A t \in Tasks :
    /\ cron[t] # <<>> \/ firing[t] > 0 => "RECURRING" \in held[t]
    /\ cron[t] # <<>> /\ "ONCE" \notin held[t]
         => Len(cron[t]) = 1 /\ tasks[t].schedule = "RECURRING"

\* Why an id may be in the queue: it has been recurring, or a time it had is over.
MayBeQueued(t) == "RECURRING" \in held[t] \/ \E at \in times[t] : at <= now

QueueKnown == \A k \in 1..Len(taskQueue) : MayBeQueued(taskQueue[k])

SInv ==
  /\ TypeOK
  /\ RowsKnown
  /\ CopiesKnown
  /\ TodoIsDue
  /\ EntriesKnown
  /\ QueueKnown
  /\ EarlyOnlyAfterEdit

-----------------------------------------------------------------------------
(* Lemmas. *)

\* The places of a queue after a push and after a receive.
LEMMA QueueFacts ==
  ASSUME NEW S, NEW q \in Seq(S)
  PROVE  /\ \A e \in S : /\ Append(q, e) \in Seq(S)
                          /\ Len(Append(q, e)) = Len(q) + 1
                          /\ \A k \in 1..Len(q) + 1 :
                               Append(q, e)[k] = IF k = Len(q) + 1 THEN e ELSE q[k]
         /\ q # <<>> => /\ Head(q) \in S
                        /\ Head(q) = q[1]
                        /\ Tail(q) \in Seq(S)
                        /\ Len(Tail(q)) = Len(q) - 1
                        /\ Len(q) >= 1
                        /\ \A k \in 1..Len(q) - 1 : Tail(q)[k] = q[k + 1]
         /\ Len(q) \in Nat
         /\ \A k \in 1..Len(q) : q[k] \in S
  <1>1. \A e \in S : /\ Append(q, e) \in Seq(S)
                      /\ Len(Append(q, e)) = Len(q) + 1
                      /\ \A k \in 1..Len(q) + 1 :
                           Append(q, e)[k] = IF k = Len(q) + 1 THEN e ELSE q[k]
    BY SMT
  <1>2. q # <<>> => /\ Head(q) \in S
                    /\ Head(q) = q[1]
                    /\ Tail(q) \in Seq(S)
                    /\ Len(Tail(q)) = Len(q) - 1
                    /\ Len(q) >= 1
                    /\ \A k \in 1..Len(q) - 1 : Tail(q)[k] = q[k + 1]
    BY SMT
  <1>3. Len(q) \in Nat /\ \A k \in 1..Len(q) : q[k] \in S
    BY SMT
  <1>. QED BY <1>1, <1>2, <1>3

\* A push of an id that may be queued keeps the queue as it should be.
LEMMA PushKeepsQueue ==
  ASSUME TypeOK, QueueKnown, NEW t \in Tasks, HasRoom, MayBeQueued(t),
         taskQueue' = Append(taskQueue, t), UNCHANGED <<now, times, held>>
  PROVE  /\ taskQueue' \in Seq(Tasks)
         /\ Len(taskQueue') <= QueueCap
         /\ QueueKnown'
  <1>1. taskQueue \in Seq(Tasks) /\ QueueCap \in Nat
    BY SchedulerAssumption DEF TypeOK
  <1>2. /\ taskQueue' \in Seq(Tasks)
        /\ Len(taskQueue') = Len(taskQueue) + 1
        /\ Len(taskQueue) \in Nat
        /\ \A k \in 1..Len(taskQueue) + 1 :
             taskQueue'[k] = IF k = Len(taskQueue) + 1 THEN t ELSE taskQueue[k]
    BY <1>1, QueueFacts
  <1>3. \A k \in 1..Len(taskQueue') : MayBeQueued(taskQueue'[k])
    <2>. TAKE k \in 1..Len(taskQueue')
    <2>1. CASE k = Len(taskQueue) + 1
      BY <1>2, <2>1
    <2>2. CASE k # Len(taskQueue) + 1
      BY <1>2, <2>2 DEF QueueKnown
    <2>. QED BY <2>1, <2>2
  <1>4. QueueKnown'
    BY <1>3 DEF QueueKnown, MayBeQueued
  <1>. QED BY <1>1, <1>2, <1>4 DEF HasRoom

\* Nothing that is known is forgotten: schedules and times are only added and time
\* goes on, so an unchanged queue stays as it should be.
LEMMA QueueStays ==
  ASSUME TypeOK, QueueKnown, UNCHANGED taskQueue,
         \A t \in Tasks : held[t] \subseteq held'[t] /\ times[t] \subseteq times'[t],
         now <= now', now' \in Nat
  PROVE  QueueKnown'
  <1>1. taskQueue \in Seq(Tasks) /\ now \in Nat /\ times \in [Tasks -> SUBSET Nat]
    BY SchedulerAssumption DEF TypeOK, Times
  <1>2. \A k \in 1..Len(taskQueue) : taskQueue[k] \in Tasks
    BY <1>1, QueueFacts
  <1>3. ASSUME NEW t \in Tasks, MayBeQueued(t)
        PROVE  MayBeQueued(t)'
    <2>1. CASE "RECURRING" \in held[t]
      BY <2>1 DEF MayBeQueued
    <2>2. CASE \E at \in times[t] : at <= now
      <3>1. PICK at \in times[t] : at <= now
        BY <2>2
      <3>2. at \in Nat /\ at <= now'
        BY <1>1, <3>1
      <3>. QED BY <3>1, <3>2 DEF MayBeQueued
    <2>. QED BY <1>3, <2>1, <2>2 DEF MayBeQueued
  <1>. QED BY <1>2, <1>3 DEF QueueKnown

\* What an early task shows of its past stays.
LEMMA EarlyStays ==
  ASSUME TypeOK, EarlyOnlyAfterEdit, UNCHANGED early,
         \A t \in Tasks : held[t] \subseteq held'[t] /\ times[t] \subseteq times'[t]
  PROVE  EarlyOnlyAfterEdit'
  BY DEF TypeOK, EarlyOnlyAfterEdit

\* An action that leaves the rows alone leaves what is known of them.
LEMMA RowsStay ==
  ASSUME RowsKnown, UNCHANGED rows
  PROVE  RowsKnown'
  BY DEF RowsKnown, rows, storeVars, Exists

\* Both forms set a row, its schedule and, for a one-time task, a time.
LEMMA PlanningKeeps ==
  ASSUME SInv, NEW t \in Tasks, NEW schedule \in {"NONE", "ONCE", "RECURRING"},
         NEW row \in Row,
         row.schedule = schedule,
         task' = [task EXCEPT ![t] = row],
         held' = [held EXCEPT ![t] = @ \cup {schedule}],
         results' = results,
         PlannedFor(t, schedule),
         UNCHANGED <<process, now, early>>,
         edits' \in 0..MaxEdits, restarts' \in 0..MaxRestarts, errors' \in 0..MaxErrors
  PROVE  SInv'
  <1>0. /\ StoreTypeOK
        /\ scheduledAt \in [Tasks -> Times] /\ times \in [Tasks -> SUBSET Times]
        /\ expression \in [Tasks -> Expressions \cup {NoExpression}]
        /\ now \in Times /\ MaxTime \in Nat
    BY SchedulerAssumption DEF SInv, TypeOK
  <1>1. StoreTypeOK'
    BY <1>0 DEF StoreTypeOK, ScheduleTypes
  <1>2. /\ scheduledAt' \in [Tasks -> Times]
        /\ times' \in [Tasks -> SUBSET Times]
        /\ \A u \in Tasks : /\ times[u] \subseteq times'[u]
                            /\ u # t => scheduledAt'[u] = scheduledAt[u] /\ times'[u] = times[u]
        /\ schedule = "ONCE" => scheduledAt'[t] \in times'[t]
        /\ schedule # "ONCE" => times'[t] = times[t]
    <2>1. CASE schedule = "ONCE"
      <3>1. PICK at \in now..MaxTime :
              /\ scheduledAt' = [scheduledAt EXCEPT ![t] = at]
              /\ times' = [times EXCEPT ![t] = @ \cup {at}]
        BY <2>1 DEF PlannedFor
      <3>2. at \in Times
        BY <1>0 DEF Times
      <3>. QED BY <1>0, <2>1, <3>1, <3>2
    <2>2. CASE schedule # "ONCE"
      BY <1>0, <2>2 DEF PlannedFor
    <2>. QED BY <2>1, <2>2
  <1>2a. /\ expression' \in [Tasks -> Expressions \cup {NoExpression}]
         /\ \A u \in Tasks \ {t} : expression'[u] = expression[u]
         /\ schedule = "RECURRING" => expression'[t] \in Expressions
    <2>1. PICK e \in IF schedule = "RECURRING" THEN Expressions ELSE {NoExpression} :
            expression' = [expression EXCEPT ![t] = e]
      BY DEF PlannedFor
    <2>. QED BY <1>0, <2>1
  <1>3. \A u \in Tasks : /\ held[u] \subseteq held'[u]
                         /\ u # t => held'[u] = held[u]
                         /\ schedule \in held'[t]
                         /\ held'[t] = held[t] \cup {schedule}
    BY <1>0 DEF StoreTypeOK
  <1>4. TypeOK'
    BY <1>1, <1>2, <1>2a DEF SInv, TypeOK, process
  <1>5. RowsKnown'
    <2>. SUFFICES ASSUME NEW u \in Tasks
                  PROVE  /\ Exists(u)' => task'[u].schedule \in held'[u]
                         /\ Exists(u)' /\ task'[u].schedule = "ONCE"
                              => scheduledAt'[u] \in times'[u]
                         /\ Exists(u)' /\ task'[u].schedule = "RECURRING"
                              => expression'[u] \in Expressions
                         /\ times'[u] # {} => "ONCE" \in held'[u]
      BY DEF RowsKnown
    <2>1. CASE u = t
      BY <1>0, <1>2, <1>2a, <1>3, <2>1 DEF SInv, RowsKnown, StoreTypeOK
    <2>2. CASE u # t
      <3>1. task'[u] = task[u]
        BY <1>0, <2>2 DEF StoreTypeOK
      <3>. QED BY <1>2, <1>2a, <1>3, <2>2, <3>1 DEF SInv, RowsKnown, Exists
    <2>. QED BY <2>1, <2>2
  <1>6. CopiesKnown'
    BY <1>2, <1>3 DEF SInv, CopiesKnown, process
  <1>7. TodoIsDue'
    BY DEF SInv, TodoIsDue, process
  <1>8. EntriesKnown'
    BY <1>3 DEF SInv, EntriesKnown, process
  <1>9. QueueKnown'
    <2>1. now' = now /\ now \in Nat /\ now <= now'
      BY <1>0 DEF Times
    <2>. QED BY <1>2, <1>3, <2>1, QueueStays DEF SInv, process
  <1>10. EarlyOnlyAfterEdit'
    BY <1>2, <1>3, EarlyStays DEF SInv
  <1>. QED BY <1>4, <1>5, <1>6, <1>7, <1>8, <1>9, <1>10 DEF SInv

\* The invariant holds at the first start.
LEMMA InitSInv == Init => SInv
  <1>. SUFFICES ASSUME Init PROVE SInv
    OBVIOUS
  <1>1. TypeOK
    <2>0. /\ MaxTime \in Nat /\ MaxFirings \in Nat /\ QueueCap \in Nat
          /\ MaxEdits \in Nat /\ MaxRestarts \in Nat /\ MaxErrors \in Nat
      BY SchedulerAssumption
    <2>1. StoreTypeOK
      BY DEF Init, StoreInit, StoreTypeOK, Row, TaskStatuses, ScheduleTypes
    <2>2. 0 \in Times /\ 0 \in 0..MaxFirings /\ <<>> \in Seq(Expressions)
      BY <2>0 DEF Times
    <2>3. tasks \in [Tasks -> Copy] /\ loop \in Loop
      BY <2>2 DEF Init, NoCopy, Copy, Loop, At
    <2>4. taskQueue \in Seq(Tasks) /\ Len(taskQueue) <= QueueCap
      BY <2>0 DEF Init
    <2>5. /\ scheduledAt \in [Tasks -> Times] /\ now \in Times
          /\ expression \in [Tasks -> Expressions \cup {NoExpression}]
          /\ cron \in [Tasks -> Seq(Expressions)] /\ firing \in [Tasks -> 0..MaxFirings]
          /\ serving \in BOOLEAN /\ times \in [Tasks -> SUBSET Times] /\ early \subseteq Tasks
      BY <2>2 DEF Init
    <2>6. edits \in 0..MaxEdits /\ restarts \in 0..MaxRestarts /\ errors \in 0..MaxErrors
      BY <2>0 DEF Init
    <2>. QED BY <2>1, <2>3, <2>4, <2>5, <2>6 DEF TypeOK
  <1>2. RowsKnown
    BY DEF Init, StoreInit, RowsKnown, Exists
  <1>3. CopiesKnown /\ TodoIsDue /\ EarlyOnlyAfterEdit
    BY DEF Init, CopiesKnown, TodoIsDue, At, EarlyOnlyAfterEdit
  <1>4. EntriesKnown
    BY DEF Init, EntriesKnown
  <1>5. QueueKnown
    BY DEF Init, QueueKnown
  <1>. QED BY <1>1, <1>2, <1>3, <1>4, <1>5 DEF SInv

\* A form keeps the invariant.
LEMMA FormsKeepSInv ==
  ASSUME SInv, NEW t \in Tasks, Create(t) \/ Reschedule(t)
  PROVE  SInv'
  <1>0. /\ StoreTypeOK /\ edits \in 0..MaxEdits
        /\ restarts \in 0..MaxRestarts /\ errors \in 0..MaxErrors
        /\ MaxEdits \in Nat
    BY SchedulerAssumption DEF SInv, TypeOK
  <1>1. CASE Create(t)
    <2>1. PICK schedule \in Creations[t] : CreateTask(t, schedule, NoTask) /\ PlannedFor(t, schedule)
      BY <1>1 DEF Create
    <2>2. schedule \in {"NONE", "ONCE", "RECURRING"}
      BY <2>1, SchedulerAssumption
    <2>. DEFINE row == [status |-> "pending", schedule |-> schedule, prerequisite |-> NoTask]
    <2>3. row \in Row /\ row.schedule = schedule
      BY <2>2 DEF Row, TaskStatuses, ScheduleTypes
    <2>4. /\ task' = [task EXCEPT ![t] = row]
          /\ held' = [held EXCEPT ![t] = @ \cup {schedule}]
          /\ results' = results
      BY <2>1 DEF CreateTask
    <2>5. UNCHANGED <<process, now, early, edits, restarts, errors>>
      BY <1>1 DEF Create, bounds
    <2>. HIDE DEF row
    <2>. QED BY <1>0, <2>1, <2>2, <2>3, <2>4, <2>5, PlanningKeeps
  <1>2. CASE Reschedule(t)
    <2>1. PICK schedule \in {"NONE", "ONCE", "RECURRING"} :
            UpdateTaskSchedule(t, schedule) /\ PlannedFor(t, schedule)
      BY <1>2 DEF Reschedule
    <2>. DEFINE row == [status |-> task[t].status, schedule |-> schedule, prerequisite |-> NoTask]
    <2>3. row \in Row /\ row.schedule = schedule
      BY <1>0, <2>1 DEF Row, StoreTypeOK, ScheduleTypes
    <2>4. /\ task' = [task EXCEPT ![t] = row]
          /\ held' = [held EXCEPT ![t] = @ \cup {schedule}]
          /\ results' = results
      BY <2>1 DEF UpdateTaskSchedule
    <2>5. UNCHANGED <<process, now, early, restarts, errors>> /\ edits' \in 0..MaxEdits
      BY <1>0, <1>2 DEF Reschedule
    <2>. HIDE DEF row
    <2>. QED BY <1>0, <2>1, <2>3, <2>4, <2>5, PlanningKeeps
  <1>. QED BY <1>1, <1>2

\* An action of the process that pushes nothing keeps the invariant if it keeps the
\* types and what is known of the map, the pass and the entries.
LEMMA ProcessKeeps ==
  ASSUME SInv, TypeOK', UNCHANGED <<rows, taskQueue, now, early>>,
         CopiesKnown', TodoIsDue', EntriesKnown'
  PROVE  SInv'
  <1>1. \A t \in Tasks : held[t] \subseteq held'[t] /\ times[t] \subseteq times'[t]
    BY DEF rows, storeVars
  <1>2. now <= now' /\ now' \in Nat
    BY SchedulerAssumption DEF SInv, TypeOK, Times
  <1>. QED BY <1>1, <1>2, QueueStays, EarlyStays, RowsStay DEF SInv

\* So does one that pushes an id that may be queued.
LEMMA PushKeeps ==
  ASSUME SInv, NEW t \in Tasks, HasRoom, MayBeQueued(t),
         taskQueue' = Append(taskQueue, t),
         UNCHANGED <<rows, cron, now, early, bounds>>,
         tasks' \in [Tasks -> Copy], firing' \in [Tasks -> 0..MaxFirings],
         loop' \in Loop, serving' \in BOOLEAN,
         CopiesKnown', TodoIsDue', EntriesKnown'
  PROVE  SInv'
  <1>1. /\ taskQueue' \in Seq(Tasks) /\ Len(taskQueue') <= QueueCap /\ QueueKnown'
    BY PushKeepsQueue DEF SInv, rows, storeVars
  <1>2. TypeOK'
    BY <1>1 DEF SInv, TypeOK, StoreTypeOK, rows, storeVars, bounds
  <1>3. EarlyOnlyAfterEdit'
    BY EarlyStays DEF SInv, rows, storeVars
  <1>. QED BY <1>1, <1>2, <1>3, RowsStay DEF SInv

\* A one-time copy that is in the map is of a time the task had.
LEMMA DueMayBeQueued ==
  ASSUME SInv, NEW t \in loop.todo
  PROVE  t \in Tasks /\ "ONCE" \in held[t] /\ MayBeQueued(t)
  <1>1. t \in Tasks /\ tasks[t].schedule = "ONCE" /\ tasks[t].at <= now
    BY DEF SInv, TypeOK, Loop, TodoIsDue
  <1>2. tasks[t].at \in times[t]
    BY <1>1 DEF SInv, CopiesKnown, NoCopy
  <1>. QED BY <1>1, <1>2 DEF SInv, RowsKnown, MayBeQueued

\* Reading the rows into the map keeps the invariant.
LEMMA LoadKeepsSInv ==
  ASSUME SInv, LoadScheduledTasks
  PROVE  SInv'
  <1>. DEFINE Fresh(t) == [schedule |-> task[t].schedule,
                           at |-> IF task[t].schedule = "ONCE" THEN scheduledAt[t] ELSE 0]
              Read(t) == t \in NewRecurring
                           \/ (t \in GetScheduledTasks /\ task[t].schedule # "RECURRING")
  <1>0. /\ StoreTypeOK /\ scheduledAt \in [Tasks -> Times] /\ 0 \in Times
        /\ tasks \in [Tasks -> Copy] /\ cron \in [Tasks -> Seq(Expressions)]
    BY SchedulerAssumption DEF SInv, TypeOK, Times
  <1>1. /\ tasks' = [t \in Tasks |-> IF Read(t) THEN Fresh(t) ELSE tasks[t]]
        /\ cron' = [t \in Tasks |->
             IF t \in NewRecurring THEN Append(cron[t], expression[t]) ELSE cron[t]]
        /\ loop.pc = "load" /\ loop' = At("check")
        /\ UNCHANGED <<rows, taskQueue, firing, serving, now, early, bounds>>
    BY DEF LoadScheduledTasks
  <1>2. \A t \in Tasks : Fresh(t) \in Copy
    BY <1>0 DEF StoreTypeOK, Row, Copy
  <1>3. \A t \in Tasks : Read(t) =>
          /\ task[t].status = "pending"
          /\ task[t].schedule \in Scheduled
          /\ task[t].schedule \in held[t]
          /\ t \in NewRecurring => /\ task[t].schedule = "RECURRING" /\ tasks[t] = NoCopy
                                  /\ expression[t] \in Expressions
          /\ t \notin NewRecurring => task[t].schedule = "ONCE"
          /\ task[t].schedule = "ONCE" => scheduledAt[t] \in times[t]
    BY DEF SInv, RowsKnown, Exists, NewRecurring, GetScheduledTasks, Scheduled
  <1>. HIDE DEF Read
  <1>4. TypeOK'
    <2>1. tasks' \in [Tasks -> Copy]
      BY <1>0, <1>1, <1>2
    <2>2. cron' \in [Tasks -> Seq(Expressions)]
      <3>1. \A t \in NewRecurring : t \in Tasks /\ Read(t)
        BY DEF Read, NewRecurring, GetScheduledTasks
      <3>2. \A t \in NewRecurring : Append(cron[t], expression[t]) \in Seq(Expressions)
        BY <1>0, <1>3, <3>1
      <3>. QED BY <1>0, <1>1, <3>2
    <2>3. loop' \in Loop
      BY <1>1 DEF At, Loop
    <2>. QED BY <1>1, <2>1, <2>2, <2>3 DEF SInv, TypeOK, StoreTypeOK, rows, storeVars, bounds
  <1>5. CopiesKnown'
    <2>. SUFFICES ASSUME NEW t \in Tasks
                  PROVE  \/ tasks'[t] = NoCopy
                         \/ tasks'[t].schedule = "ONCE" /\ tasks'[t].at \in times[t]
                         \/ tasks'[t].schedule = "RECURRING" /\ "RECURRING" \in held[t]
      BY <1>1 DEF CopiesKnown, rows, storeVars, NoCopy
    <2>1. CASE Read(t)
      <3>1. tasks'[t] = Fresh(t)
        BY <1>1, <2>1
      <3>. QED BY <1>3, <2>1, <3>1 DEF Scheduled
    <2>2. CASE ~ Read(t)
      <3>1. tasks'[t] = tasks[t]
        BY <1>1, <2>2
      <3>. QED BY <3>1 DEF SInv, CopiesKnown
    <2>. QED BY <2>1, <2>2
  <1>6. TodoIsDue'
    BY <1>1 DEF At, TodoIsDue
  <1>7. EntriesKnown'
    <2>. SUFFICES ASSUME NEW t \in Tasks
                  PROVE  /\ cron'[t] # <<>> \/ firing[t] > 0 => "RECURRING" \in held[t]
                         /\ cron'[t] # <<>> /\ "ONCE" \notin held[t]
                              => Len(cron'[t]) = 1 /\ tasks'[t].schedule = "RECURRING"
      BY <1>1 DEF EntriesKnown, rows, storeVars
    <2>0. /\ cron[t] # <<>> \/ firing[t] > 0 => "RECURRING" \in held[t]
          /\ cron[t] # <<>> /\ "ONCE" \notin held[t]
               => Len(cron[t]) = 1 /\ tasks[t].schedule = "RECURRING"
          /\ cron[t] \in Seq(Expressions)
      BY <1>0 DEF SInv, EntriesKnown
    <2>1. CASE t \in NewRecurring
      <3>1. /\ Read(t) /\ task[t].schedule = "RECURRING" /\ "RECURRING" \in held[t]
            /\ tasks[t].schedule = "absent"
        BY <1>3, <2>1 DEF Read, NoCopy
      <3>2. cron'[t] = Append(cron[t], expression[t]) /\ tasks'[t].schedule = "RECURRING"
        BY <1>1, <2>1, <3>1
      <3>3. cron[t] # <<>> => "ONCE" \in held[t]
        BY <2>0, <3>1
      <3>4. cron[t] = <<>> => Len(cron'[t]) = 1
        BY <3>2
      <3>. QED BY <2>0, <3>1, <3>2, <3>3, <3>4
    <2>2. CASE t \notin NewRecurring
      <3>1. cron'[t] = cron[t]
        BY <1>1, <2>2
      <3>2. Read(t) => "ONCE" \in held[t]
        BY <1>3, <2>2
      <3>3. ~ Read(t) => tasks'[t] = tasks[t]
        BY <1>1
      <3>. QED BY <2>0, <3>1, <3>2, <3>3
    <2>. QED BY <2>1, <2>2
  <1>. QED BY <1>1, <1>4, <1>5, <1>6, <1>7, ProcessKeeps

\* A push of the due pass keeps the invariant.
LEMMA QueueDueKeepsSInv ==
  ASSUME SInv, NEW t \in Tasks, QueueDue(t)
  PROVE  SInv'
  <1>0. /\ t \in loop.todo /\ loop.pc = "check" /\ loop \in Loop
        /\ tasks \in [Tasks -> Copy] /\ serving \in BOOLEAN
    BY DEF SInv, TypeOK, QueueDue
  <1>1. "ONCE" \in held[t] /\ MayBeQueued(t)
    BY <1>0, DueMayBeQueued
  <1>2. /\ tasks' = [tasks EXCEPT ![t] = NoCopy]
        /\ loop' = IF loop.todo = {t} THEN At("wait") ELSE [loop EXCEPT !.todo = @ \ {t}]
        /\ serving' = (serving \/ loop.todo = {t})
        /\ taskQueue' = Append(taskQueue, t) /\ HasRoom
        /\ UNCHANGED <<rows, cron, firing, now, early, bounds>>
    BY DEF QueueDue
  <1>3. tasks' \in [Tasks -> Copy] /\ loop' \in Loop /\ serving' \in BOOLEAN
    <2>1. NoCopy \in Copy
      BY SchedulerAssumption DEF NoCopy, Copy, Times
    <2>2. loop' \in Loop
      BY <1>0, <1>2 DEF Loop, At
    <2>. QED BY <1>0, <1>2, <2>1, <2>2
  <1>4. CopiesKnown'
    BY <1>0, <1>2 DEF SInv, CopiesKnown, rows, storeVars, NoCopy
  <1>5. TodoIsDue'
    <2>1. CASE loop.todo = {t}
      BY <1>2, <2>1 DEF At, TodoIsDue
    <2>2. CASE loop.todo # {t}
      <3>1. loop'.todo = loop.todo \ {t} /\ loop'.pc = "check"
        BY <1>0, <1>2, <2>2 DEF Loop
      <3>2. \A u \in loop.todo \ {t} : tasks'[u] = tasks[u]
        BY <1>0, <1>2 DEF Loop
      <3>. QED BY <1>2, <3>1, <3>2 DEF SInv, TodoIsDue
    <2>. QED BY <2>1, <2>2
  <1>6. EntriesKnown'
    BY <1>0, <1>1, <1>2 DEF SInv, EntriesKnown, rows, storeVars
  <1>7. firing' \in [Tasks -> 0..MaxFirings]
    BY <1>2 DEF SInv, TypeOK
  <1>. QED BY <1>1, <1>2, <1>3, <1>4, <1>5, <1>6, <1>7, PushKeeps

\* A firing of a cron entry keeps the invariant, and so does its push.
LEMMA FiringKeepsSInv ==
  ASSUME SInv, NEW t \in Tasks, Fire(t) \/ QueueRecurring(t)
  PROVE  SInv'
  <1>0. firing \in [Tasks -> 0..MaxFirings] /\ MaxFirings \in Nat
    BY SchedulerAssumption DEF SInv, TypeOK
  <1>1. CASE Fire(t)
    <2>1. firing' \in [Tasks -> 0..MaxFirings]
      <3>1. firing[t] \in 0..MaxFirings /\ firing[t] < MaxFirings
        BY <1>0, <1>1 DEF Fire
      <3>2. firing[t] + 1 \in 0..MaxFirings
        BY <1>0, <3>1
      <3>. QED BY <1>0, <1>1, <3>2 DEF Fire
    <2>2. TypeOK'
      BY <1>1, <2>1 DEF SInv, TypeOK, Fire, StoreTypeOK, rows, storeVars, bounds
    <2>3. CopiesKnown' /\ TodoIsDue'
      BY <1>1 DEF SInv, CopiesKnown, TodoIsDue, Fire, rows, storeVars, NoCopy
    <2>4. EntriesKnown'
      BY <1>0, <1>1 DEF SInv, EntriesKnown, Fire, rows, storeVars
    <2>. QED BY <1>1, <2>2, <2>3, <2>4, ProcessKeeps DEF Fire
  <1>2. CASE QueueRecurring(t)
    <2>1. firing[t] > 0 /\ MayBeQueued(t)
      BY <1>2 DEF SInv, EntriesKnown, MayBeQueued, QueueRecurring
    <2>2. firing' \in [Tasks -> 0..MaxFirings]
      <3>1. firing[t] - 1 \in 0..MaxFirings
        BY <1>0, <2>1
      <3>. QED BY <1>0, <1>2, <3>1 DEF QueueRecurring
    <2>3. CopiesKnown' /\ TodoIsDue'
      BY <1>2 DEF SInv, CopiesKnown, TodoIsDue, QueueRecurring, rows, storeVars, NoCopy
    <2>4. EntriesKnown'
      BY <1>0, <1>2, <2>1 DEF SInv, EntriesKnown, QueueRecurring, rows, storeVars
    <2>5. tasks' \in [Tasks -> Copy] /\ loop' \in Loop /\ serving' \in BOOLEAN
      BY <1>2 DEF SInv, TypeOK, QueueRecurring
    <2>. QED BY <1>2, <2>1, <2>2, <2>3, <2>4, <2>5, PushKeeps DEF QueueRecurring
  <1>. QED BY <1>1, <1>2

\* The steps of the goroutine that only move it on keep the invariant.
LEMMA LoopKeepsSInv ==
  ASSUME SInv, Tick \/ LoadFails \/ CheckAndQueueDueTasks \/ Restart
  PROVE  SInv'
  <1>0. /\ loop \in Loop /\ serving \in BOOLEAN /\ errors \in 0..MaxErrors /\ MaxErrors \in Nat
        /\ tasks \in [Tasks -> Copy] /\ now \in Times
    BY SchedulerAssumption DEF SInv, TypeOK
  <1>1. /\ UNCHANGED <<rows, taskQueue, tasks, cron, firing, now, early, edits, restarts>>
        /\ errors' \in 0..MaxErrors
    BY <1>0 DEF Tick, LoadFails, CheckAndQueueDueTasks, Restart, bounds
  <1>2. /\ loop' \in Loop /\ serving' \in BOOLEAN
        /\ loop'.pc # "check" => loop'.todo = {}
        /\ \A t \in loop'.todo : tasks[t].schedule = "ONCE" /\ tasks[t].at <= now
    <2>1. CASE Tick
      BY <1>0, <2>1 DEF Tick, At, Loop
    <2>2. CASE LoadFails
      BY <1>0, <2>2 DEF LoadFails, At, Loop
    <2>3. CASE Restart
      BY <1>0, <2>3 DEF Restart, At, Loop
    <2>4. CASE CheckAndQueueDueTasks
      <3>1. CASE loop.todo = {} /\ Due = {}
        BY <2>4, <3>1 DEF CheckAndQueueDueTasks, At, Loop
      <3>2. CASE ~ (loop.todo = {} /\ Due = {})
        <4>1. loop' = [loop EXCEPT !.todo = Due] /\ loop.pc = "check" /\ serving' = serving
          BY <2>4, <3>2 DEF CheckAndQueueDueTasks
        <4>2. loop'.pc = "check" /\ loop'.todo = Due /\ loop' \in Loop
          BY <1>0, <4>1 DEF Loop, Due
        <4>. QED BY <1>0, <4>1, <4>2 DEF Due
      <3>. QED BY <3>1, <3>2
    <2>. QED BY <2>1, <2>2, <2>3, <2>4
  <1>3. TypeOK'
    BY <1>1, <1>2 DEF SInv, TypeOK, StoreTypeOK, rows, storeVars
  <1>4. CopiesKnown'
    BY <1>1 DEF SInv, CopiesKnown, rows, storeVars, NoCopy
  <1>5. TodoIsDue'
    BY <1>1, <1>2 DEF TodoIsDue
  <1>6. EntriesKnown'
    BY <1>1 DEF SInv, EntriesKnown, rows, storeVars
  <1>. QED BY <1>1, <1>3, <1>4, <1>5, <1>6, ProcessKeeps

\* A change of a status that leaves the row in place keeps what is known of it.
LEMMA StatusKeepsRows ==
  ASSUME SInv, NEW t \in Tasks, NEW status \in TaskStatuses \ {"absent"},
         Exists(t), SetStatus(t, status), UNCHANGED <<results, held, scheduledAt, expression, times>>
  PROVE  StoreTypeOK' /\ RowsKnown'
  <1>1. task \in [Tasks -> Row]
    BY DEF SInv, TypeOK, StoreTypeOK
  <1>2. /\ task' \in [Tasks -> Row]
        /\ \A u \in Tasks : task'[u].schedule = task[u].schedule /\ (Exists(u)' => Exists(u))
    BY <1>1 DEF SetStatus, Row, Exists
  <1>3. StoreTypeOK'
    BY <1>2 DEF SInv, TypeOK, StoreTypeOK
  <1>4. RowsKnown'
    BY <1>2 DEF SInv, RowsKnown
  <1>. QED BY <1>3, <1>4

\* The send at the head of the queue keeps the invariant: a one-time task that leaves
\* before its time has either been recurring or is there for an earlier time.
LEMMA DispatchKeepsSInv ==
  ASSUME SInv, Dispatch
  PROVE  SInv'
  <1>. DEFINE t == Head(taskQueue)
  <1>0. /\ taskQueue \in Seq(Tasks) /\ taskQueue # <<>>
        /\ taskQueue' = Tail(taskQueue)
        /\ UpdateTaskStatusIfCurrent(t, "pending", "assigned")
        /\ UNCHANGED <<results, held, scheduledAt, expression, times, tasks, cron, firing,
                       loop, serving, now, bounds>>
        /\ early' = IF /\ task[t].status = "pending" /\ task[t].schedule = "ONCE"
                       /\ now < scheduledAt[t]
                    THEN early \cup {t} ELSE early
    BY DEF Dispatch, SInv, TypeOK
  <1>1. /\ t \in Tasks /\ t = taskQueue[1] /\ Len(taskQueue) >= 1
        /\ taskQueue' \in Seq(Tasks) /\ Len(taskQueue') = Len(taskQueue) - 1
        /\ \A k \in 1..Len(taskQueue) - 1 : taskQueue'[k] = taskQueue[k + 1]
        /\ Len(taskQueue) \in Nat /\ QueueCap \in Nat /\ Len(taskQueue) <= QueueCap
    BY <1>0, QueueFacts, SchedulerAssumption DEF SInv, TypeOK
  <1>2. MayBeQueued(t)
    BY <1>1 DEF SInv, QueueKnown
  <1>3. StoreTypeOK' /\ RowsKnown'
    <2>1. CASE task[t].status = "pending"
      <3>1. Exists(t) /\ SetStatus(t, "assigned")
        BY <1>0, <2>1 DEF Exists, UpdateTaskStatusIfCurrent
      <3>2. "assigned" \in TaskStatuses \ {"absent"}
        BY DEF TaskStatuses
      <3>. HIDE DEF t
      <3>. QED BY <1>0, <1>1, <3>1, <3>2, StatusKeepsRows
    <2>2. CASE task[t].status # "pending"
      <3>1. UNCHANGED rows
        BY <1>0, <2>2 DEF UpdateTaskStatusIfCurrent, rows, storeVars
      <3>. QED BY <3>1, RowsStay DEF SInv, TypeOK, StoreTypeOK, rows, storeVars
    <2>. QED BY <2>1, <2>2
  <1>4. TypeOK'
    BY <1>0, <1>1, <1>3 DEF SInv, TypeOK, bounds
  <1>5. CopiesKnown' /\ TodoIsDue' /\ EntriesKnown'
    BY <1>0 DEF SInv, CopiesKnown, TodoIsDue, EntriesKnown, NoCopy
  <1>6. QueueKnown'
    <2>1. \A k \in 1..Len(taskQueue') : MayBeQueued(taskQueue'[k])
      BY <1>1 DEF SInv, QueueKnown
    <2>. QED BY <1>0, <2>1 DEF QueueKnown, MayBeQueued
  <1>7. EarlyOnlyAfterEdit'
    <2>. SUFFICES ASSUME NEW u \in early'
                  PROVE  "RECURRING" \in held[u] \/ \E before, after \in times[u] : before < after
      BY <1>0 DEF EarlyOnlyAfterEdit
    <2>1. CASE u \in early
      BY <2>1 DEF SInv, EarlyOnlyAfterEdit
    <2>2. CASE u \notin early
      <3>1. /\ u = t /\ task[t].status = "pending" /\ task[t].schedule = "ONCE"
            /\ now < scheduledAt[t]
        BY <1>0, <2>2
      <3>2. scheduledAt[t] \in times[t]
        BY <1>1, <3>1 DEF SInv, RowsKnown, Exists
      <3>3. CASE "RECURRING" \in held[t]
        BY <3>1, <3>3
      <3>4. CASE "RECURRING" \notin held[t]
        <4>1. PICK at \in times[t] : at <= now
          BY <1>2, <3>4 DEF MayBeQueued
        <4>2. at \in Nat /\ now \in Nat /\ scheduledAt[t] \in Nat
          <5>1. Times \subseteq Nat
            BY SchedulerAssumption DEF Times
          <5>. HIDE DEF t
          <5>2. times[t] \subseteq Times /\ now \in Times /\ scheduledAt[t] \in Times
            BY <1>1 DEF SInv, TypeOK
          <5>. QED BY <4>1, <5>1, <5>2
        <4>3. at < scheduledAt[t]
          BY <3>1, <4>1, <4>2
        <4>. QED BY <3>1, <3>2, <4>1, <4>3
      <3>. QED BY <3>3, <3>4
    <2>. QED BY <2>1, <2>2
  <1>. QED BY <1>3, <1>4, <1>5, <1>6, <1>7 DEF SInv

\* A result keeps the invariant.
LEMMA FinishKeepsSInv ==
  ASSUME SInv, NEW t \in Tasks, Finish(t)
  PROVE  SInv'
  <1>. DEFINE status == IF task[t].schedule = "RECURRING" THEN "pending" ELSE "completed"
  <1>0. /\ SetStatus(t, status) /\ Exists(t)
        /\ status \in TaskStatuses \ {"absent"}
        /\ UNCHANGED <<results, held, scheduledAt, expression, times, process, now, early, bounds>>
    BY DEF Finish, MarkTaskCompleted, Exists, TaskStatuses, Terminal
  <1>. HIDE DEF status
  <1>1. StoreTypeOK' /\ RowsKnown'
    BY <1>0, StatusKeepsRows
  <1>2. TypeOK'
    BY <1>0, <1>1 DEF SInv, TypeOK, process, bounds
  <1>3. CopiesKnown' /\ TodoIsDue' /\ EntriesKnown'
    BY <1>0 DEF SInv, CopiesKnown, TodoIsDue, EntriesKnown, NoCopy, process
  <1>4. QueueKnown' /\ EarlyOnlyAfterEdit'
    BY <1>0 DEF SInv, QueueKnown, MayBeQueued, EarlyOnlyAfterEdit, process
  <1>. QED BY <1>1, <1>2, <1>3, <1>4 DEF SInv

\* Time only makes more copies due.
LEMMA AdvanceKeepsSInv ==
  ASSUME SInv, Advance
  PROVE  SInv'
  <1>0. /\ now \in Nat /\ now' \in Times /\ now <= now' /\ now' \in Nat
        /\ UNCHANGED <<rows, process, early, bounds>>
    BY SchedulerAssumption DEF Advance, SInv, TypeOK, Times
  <1>1. TypeOK'
    BY <1>0 DEF SInv, TypeOK, StoreTypeOK, rows, storeVars, process, bounds
  <1>2. CopiesKnown' /\ EntriesKnown'
    BY <1>0 DEF SInv, CopiesKnown, EntriesKnown, NoCopy, rows, storeVars, process
  <1>3. TodoIsDue'
    <2>. SUFFICES ASSUME NEW t \in loop.todo
                  PROVE  tasks[t].schedule = "ONCE" /\ tasks[t].at <= now'
      BY <1>0 DEF SInv, TodoIsDue, process
    <2>1. tasks[t].schedule = "ONCE" /\ tasks[t].at <= now
      BY DEF SInv, TodoIsDue
    <2>2. tasks[t].at \in Nat
      BY SchedulerAssumption DEF SInv, TypeOK, Loop, Copy, Times
    <2>. QED BY <1>0, <2>1, <2>2
  <1>4. QueueKnown'
    BY <1>0, QueueStays DEF SInv, rows, storeVars, process
  <1>5. EarlyOnlyAfterEdit'
    BY <1>0, EarlyStays DEF SInv, rows, storeVars
  <1>. QED BY <1>0, <1>1, <1>2, <1>3, <1>4, <1>5, RowsStay DEF SInv

\* A process that ends leaves nothing but the rows.
LEMMA CrashKeepsSInv ==
  ASSUME SInv, Crash
  PROVE  SInv'
  <1>0. /\ restarts \in 0..MaxRestarts /\ MaxRestarts \in Nat /\ restarts < MaxRestarts
        /\ restarts' = restarts + 1
        /\ QueueCap \in Nat /\ MaxFirings \in Nat /\ 0 \in Times
    BY SchedulerAssumption DEF SInv, TypeOK, Crash, Times
  <1>1. /\ loop' = At("down") /\ serving' = FALSE /\ taskQueue' = <<>>
        /\ tasks' = [t \in Tasks |-> NoCopy]
        /\ cron' = [t \in Tasks |-> <<>>] /\ firing' = [t \in Tasks |-> 0]
        /\ UNCHANGED <<rows, now, early, edits, errors>>
    BY DEF Crash
  <1>2. TypeOK'
    <2>1. loop' \in Loop /\ tasks' \in [Tasks -> Copy]
      BY <1>0, <1>1 DEF At, Loop, NoCopy, Copy
    <2>2. taskQueue' \in Seq(Tasks) /\ Len(taskQueue') <= QueueCap
      BY <1>0, <1>1
    <2>3. /\ 0 \in 0..MaxFirings /\ <<>> \in Seq(Expressions)
          /\ restarts' \in 0..MaxRestarts
      BY <1>0
    <2>4. /\ cron' \in [Tasks -> Seq(Expressions)] /\ firing' \in [Tasks -> 0..MaxFirings]
          /\ serving' \in BOOLEAN
      BY <1>1, <2>3
    <2>. QED BY <1>1, <2>1, <2>2, <2>3, <2>4 DEF SInv, TypeOK, StoreTypeOK, rows, storeVars
  <1>3. CopiesKnown' /\ TodoIsDue' /\ EntriesKnown'
    BY <1>1 DEF CopiesKnown, TodoIsDue, EntriesKnown, NoCopy, At
  <1>4. QueueKnown'
    BY <1>1 DEF QueueKnown
  <1>5. EarlyOnlyAfterEdit'
    BY <1>1, EarlyStays DEF SInv, rows, storeVars
  <1>. QED BY <1>1, <1>2, <1>3, <1>4, <1>5, RowsStay DEF SInv

-----------------------------------------------------------------------------
(* Theorems. *)

\* The invariant is inductive: the map, the pass, the cron entries and the queue
\* hold only what the rows once said.
THEOREM SchedulerInvariant == Spec => []SInv
  <1>1. ASSUME SInv, [Next]_vars
        PROVE  SInv'
    <2>1. CASE \E t \in Tasks : Create(t) \/ Reschedule(t)
      BY <1>1, <2>1, FormsKeepSInv
    <2>2. CASE Tick \/ LoadFails \/ CheckAndQueueDueTasks \/ Restart
      BY <1>1, <2>2, LoopKeepsSInv
    <2>3. CASE LoadScheduledTasks
      BY <1>1, <2>3, LoadKeepsSInv
    <2>4. CASE \E t \in Tasks : QueueDue(t)
      BY <1>1, <2>4, QueueDueKeepsSInv
    <2>5. CASE \E t \in Tasks : Fire(t) \/ QueueRecurring(t)
      BY <1>1, <2>5, FiringKeepsSInv
    <2>6. CASE Dispatch
      BY <1>1, <2>6, DispatchKeepsSInv
    <2>7. CASE \E t \in Tasks : Finish(t)
      BY <1>1, <2>7, FinishKeepsSInv
    <2>8. CASE Advance
      BY <1>1, <2>8, AdvanceKeepsSInv
    <2>9. CASE Crash
      BY <1>1, <2>9, CrashKeepsSInv
    <2>10. CASE UNCHANGED vars
      <3>1. UNCHANGED <<rows, process, now, early, bounds>>
        BY <2>10 DEF vars
      <3>2. TypeOK' /\ RowsKnown'
        BY <1>1, <3>1, RowsStay
        DEF SInv, TypeOK, StoreTypeOK, rows, storeVars, process, bounds
      <3>3. CopiesKnown' /\ TodoIsDue' /\ EntriesKnown'
        BY <1>1, <3>1
        DEF SInv, CopiesKnown, TodoIsDue, EntriesKnown, NoCopy, rows, storeVars, process
      <3>4. QueueKnown' /\ EarlyOnlyAfterEdit'
        BY <1>1, <3>1
        DEF SInv, QueueKnown, MayBeQueued, EarlyOnlyAfterEdit, rows, storeVars, process
      <3>. QED BY <3>2, <3>3, <3>4 DEF SInv
    <2>. QED
      BY <1>1, <2>1, <2>2, <2>3, <2>4, <2>5, <2>6, <2>7, <2>8, <2>9, <2>10 DEF Next
  <1>. QED BY <1>1, InitSInv, PTL DEF Spec

\* Every variable keeps its type, and the queue its capacity (taskQueue, main.go).
THEOREM SchedulerTypes == Spec => []TypeOK
  <1>1. SInv => TypeOK
    BY DEF SInv
  <1>. QED BY <1>1, SchedulerInvariant, PTL

\* The scheduler holds and pushes nothing but ids of tasks that have had a schedule
\* (GetScheduledTasks, checkAndQueueDueTasks, AddRecurring).
THEOREM OnlyScheduled == Spec => []OnlyScheduledQueued
  <1>1. SInv => OnlyScheduledQueued
    <2>. SUFFICES ASSUME SInv, NEW t \in Tasks,
                         \/ tasks[t] # NoCopy
                         \/ cron[t] # <<>>
                         \/ firing[t] > 0
                         \/ \E k \in 1..Len(taskQueue) : taskQueue[k] = t
                  PROVE  held[t] \cap {"ONCE", "RECURRING"} # {}
      BY DEF OnlyScheduledQueued
    <2>1. times[t] # {} => "ONCE" \in held[t]
      BY DEF SInv, RowsKnown
    <2>2. CASE tasks[t] # NoCopy
      BY <2>1, <2>2 DEF SInv, CopiesKnown
    <2>3. CASE cron[t] # <<>> \/ firing[t] > 0
      BY <2>3 DEF SInv, EntriesKnown
    <2>4. CASE \E k \in 1..Len(taskQueue) : taskQueue[k] = t
      BY <2>1, <2>4 DEF SInv, QueueKnown, MayBeQueued
    <2>. QED BY <2>2, <2>3, <2>4
  <1>. QED BY <1>1, SchedulerInvariant, PTL

\* A one-time task is sent before its time only if it was recurring once or had an
\* earlier time: the entry in cron or the copy in the map is out of date.
THEOREM EarlyIsEdited == Spec => []EarlyOnlyAfterEdit
  <1>1. SInv => EarlyOnlyAfterEdit
    BY DEF SInv
  <1>. QED BY <1>1, SchedulerInvariant, PTL

\* A task that is never one-time gets one cron entry, however often the rows are read
\* (loadScheduledTasks).
THEOREM OneEntry == Spec => []RegisteredOnce
  <1>1. SInv => RegisteredOnce
    <2>. SUFFICES ASSUME SInv, NEW t \in Tasks, Len(cron[t]) > 1, "ONCE" \notin held[t]
                  PROVE  FALSE
      BY DEF RegisteredOnce
    <2>1. cron[t] \in Seq(Expressions)
      BY DEF SInv, TypeOK
    <2>2. cron[t] # <<>>
      BY <2>1
    <2>3. Len(cron[t]) = 1
      BY <2>2 DEF SInv, EntriesKnown
    <2>. QED BY <2>3
  <1>. QED BY <1>1, SchedulerInvariant, PTL
=============================================================================
