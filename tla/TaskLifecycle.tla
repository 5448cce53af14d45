---------------------------- MODULE TaskLifecycle ----------------------------
(***************************************************************************)
(* What the status of a task means to somebody who reads it: the promise   *)
(* the server makes with TaskStatus (server/internal/storage/models.go).   *)
(*   - assigned: a command for the task has been sent;                     *)
(*   - running: it was assigned before, and the agent says it has begun;   *)
(*   - completed, failed, timed_out: that is what a recorded result says;  *)
(*   - back to pending: only a task that has been recurring, with a result.*)
(* Nothing is said about which result counts when there are several, nor   *)
(* about how commands and results travel: TaskDispatch says that.          *)
(***************************************************************************)
CONSTANTS Tasks, FinalStatus(_), ResultStatuses

VARIABLES
  status,   \* the status column of every task, "absent" before it has a row
  sent,     \* the tasks a command was sent for
  reports,  \* the recorded results, as pairs of a task and a result status
  recurs    \* the tasks that have had a recurring schedule

lifecycleVars == <<status, sent, reports, recurs>>

Init ==
  /\ status = [t \in Tasks |-> "absent"]
  /\ sent = {}
  /\ reports = {}
  /\ recurs = {}

Create(t) ==
  /\ status[t] = "absent"
  /\ status' = [status EXCEPT ![t] = "pending"]
  /\ recurs' \in {recurs, recurs \cup {t}}
  /\ UNCHANGED <<sent, reports>>

MakeRecurring(t) ==
  /\ status[t] # "absent"
  /\ recurs' = recurs \cup {t}
  /\ UNCHANGED <<status, sent, reports>>

Send(t) ==
  /\ status[t] # "absent"
  /\ sent' = sent \cup {t}
  /\ UNCHANGED <<status, reports, recurs>>

Assign(t) ==
  /\ t \in sent
  /\ status[t] = "pending"
  /\ status' = [status EXCEPT ![t] = "assigned"]
  /\ UNCHANGED <<sent, reports, recurs>>

Begin(t) ==
  /\ status[t] = "assigned"
  /\ status' = [status EXCEPT ![t] = "running"]
  /\ UNCHANGED <<sent, reports, recurs>>

Report(t, r) ==
  /\ t \in sent
  /\ reports' = reports \cup {<<t, r>>}
  /\ UNCHANGED <<status, sent, recurs>>

Finish(t, r) ==
  /\ <<t, r>> \in reports
  /\ status' = [status EXCEPT ![t] = FinalStatus(r)]
  /\ UNCHANGED <<sent, reports, recurs>>

Rearm(t) ==
  /\ t \in recurs
  /\ \E r \in ResultStatuses : <<t, r>> \in reports
  /\ status' = [status EXCEPT ![t] = "pending"]
  /\ UNCHANGED <<sent, reports, recurs>>

Next ==
  \E t \in Tasks :
    \/ Create(t) \/ MakeRecurring(t) \/ Send(t) \/ Assign(t) \/ Begin(t) \/ Rearm(t)
    \/ \E r \in ResultStatuses : Report(t, r) \/ Finish(t, r)

Spec == Init /\ [][Next]_lifecycleVars
=============================================================================
