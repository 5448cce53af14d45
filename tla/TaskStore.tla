------------------------------ MODULE TaskStore ------------------------------
(***************************************************************************)
(* The tables "tasks" and "task_results" and the TaskRepository operations *)
(* the server runs on them (server/internal/storage/postgres.go).  Every   *)
(* operation is one SQL statement, so it is one indivisible update here.   *)
(* Of a row the model keeps what a control decision depends on: its        *)
(* status, its schedule type and its prerequisite; the agent of a task     *)
(* never changes and is a constant.                                        *)
(***************************************************************************)
CONSTANTS
  Agents,     \* the registered agents
  Tasks,      \* the ids of the tasks that are ever created
  AgentOf,    \* tasks.agent_id
  NoTask      \* a NULL task id

ASSUME StoreAssumption ==
  /\ AgentOf \in [Tasks -> Agents]
  /\ NoTask \notin Tasks

VARIABLES
  task,       \* the rows of "tasks"
  results,    \* the rows of "task_results", as pairs task and status
  held        \* history: the schedule types each task has had

storeVars == <<task, results, held>>

\* schedule_type; "NONE" is NULL, an immediate task
ScheduleTypes == {"NONE", "ONCE", "RECURRING", "CHAINED"}

\* TaskResultStatus, the status an agent reports
ResultStatuses == {"SUCCESS", "FAILED", "TIMED_OUT"}

Terminal == {"completed", "failed", "timed_out"}

\* "absent" is a task that has no row yet
TaskStatuses == {"absent", "pending", "assigned", "running"} \cup Terminal

Row == [status : TaskStatuses, schedule : ScheduleTypes,
        prerequisite : Tasks \cup {NoTask}]

Exists(t) == task[t].status # "absent"

\* A task that has never been RECURRING runs to one end.
OneShot(t) == "RECURRING" \notin held[t]

StoreTypeOK ==
  /\ task \in [Tasks -> Row]
  /\ results \subseteq Tasks \X ResultStatuses
  /\ held \in [Tasks -> SUBSET ScheduleTypes]

StoreInit ==
  /\ task = [t \in Tasks |-> [status |-> "absent", schedule |-> "NONE",
                              prerequisite |-> NoTask]]
  /\ results = {}
  /\ held = [t \in Tasks |-> {}]

-----------------------------------------------------------------------------
(* The queries. *)

GetPendingTasksByAgent_AnySchedule(a) ==
  {t \in Tasks : AgentOf[t] = a /\ task[t].status = "pending"}

GetPendingTasksByAgent(a) ==
  {t \in Tasks : /\ AgentOf[t] = a
                 /\ task[t].status = "pending"
                 /\ task[t].schedule = "NONE"}

GetTasksByPrerequisite(p) ==
  {t \in Tasks : task[t].prerequisite = p /\ task[t].status = "pending"}

-----------------------------------------------------------------------------
(* The updates. *)

SetStatus(t, status) == task' = [task EXCEPT ![t].status = status]

\* A prerequisite is a foreign key: the row it names is there.
CreateTask(t, schedule, prerequisite) ==
  /\ ~ Exists(t)
  /\ IF schedule = "CHAINED"
     THEN prerequisite \in {p \in Tasks : Exists(p)}
     ELSE prerequisite = NoTask
  /\ task' = [task EXCEPT ![t] = [status |-> "pending", schedule |-> schedule,
                                  prerequisite |-> prerequisite]]
  /\ held' = [held EXCEPT ![t] = @ \cup {schedule}]
  /\ UNCHANGED results

\* Whatever the status of the task is; a prerequisite is cleared.
UpdateTaskSchedule(t, schedule) ==
  /\ Exists(t)
  /\ task' = [task EXCEPT ![t] = [status |-> task[t].status, schedule |-> schedule,
                                  prerequisite |-> NoTask]]
  /\ held' = [held EXCEPT ![t] = @ \cup {schedule}]
  /\ UNCHANGED results

UpdateTaskStatusIfCurrent_Unguarded(t, current, new) ==
  SetStatus(t, new)

UpdateTaskStatusIfCurrent(t, current, new) ==
  IF task[t].status = current THEN SetStatus(t, new) ELSE UNCHANGED task

MarkTaskStartedIfCurrent(t, current) ==
  IF task[t].status = current THEN SetStatus(t, "running") ELSE UNCHANGED task

\* Unconditional.
MarkTaskCompleted(t, status) == SetStatus(t, status)

CreateTaskResult(t, status) == results' = results \cup {<<t, status>>}
=============================================================================
