-------------------------------- MODULE Fleet --------------------------------
(***************************************************************************)
(* Agents, what they run, and who watches: Presence, AgentRuntime and      *)
(* LiveView together, with the pages an operator looks at.  A plan says    *)
(* which agents run at the start, what they are given to do, whether time  *)
(* passes, and how often each thing may happen that nobody has to do.      *)
(***************************************************************************)
EXTENDS AgentRuntime

CONSTANTS
  FirstId,     \* the id of each host whose agent runs at the start
  Plans        \* records of up, clock, opened, jobs, files and budget

Optional == {"start", "die", "fault", "toggle", "delete", "load", "disconnect", "view"}

\* Two goroutines broadcast for each command; what a user may see are tasks.
ASSUME ViewAssumption ==
  /\ Publishers = Commands \X {"stream", "result"}
  /\ MayView \in [Browsers -> SUBSET Tasks]

\* A task as it was stored.  A transfer goes to none of the agent's own files.
IsJob(j) ==
  /\ j.host \in Hosts /\ j.task \in Tasks
  /\ j.type \in {"EXEC_COMMAND", "EXEC_PYTHON_SCRIPT", "PUSH_FILE", "FETCH_FILE", "AGENT_UPDATE"}
  /\ j.lines \in [Readers -> Nat] /\ j.chunks \in Nat /\ j.exit \in Outcomes
  /\ j.type = "PUSH_FILE" => j.destination # "agent"

\* The files a job may write.
Targets(j) ==
  CASE j.type = "FETCH_FILE"   -> {<<"server", j.destination>>}
    [] j.type = "PUSH_FILE"    -> {<<j.host, j.destination, name>> : name \in j.files}
    [] j.type = "AGENT_UPDATE" -> {<<j.host, "agent", "agent">>}
    [] OTHER                   -> {}

\* The agents of the start have different ids (uuid.New).
ASSUME PlanAssumption ==
  /\ FirstId \in [Hosts -> Ids]
  /\ \A g, h \in Hosts : FirstId[g] = FirstId[h] => g = h
  /\ \A plan \in Plans :
       /\ plan.up \subseteq Hosts /\ plan.opened \subseteq Browsers
       /\ plan.budget \in [Optional -> Nat]
       /\ DOMAIN plan.jobs \subseteq Commands
       /\ \A c \in DOMAIN plan.jobs :
            IsJob(plan.jobs[c]) /\ Targets(plan.jobs[c]) \subseteq plan.files

VARIABLES
  clock,       \* whether time passes
  budget,      \* how often each optional thing may still happen
  page         \* the page of one task, made of three queries

fleetVars == <<clock, budget, page>>
vars == <<presenceVars, liveVars, runtimeVars, fleetVars>>

-----------------------------------------------------------------------------
\* unread: the queries whose error viewTask threw away.
NoPage == [pc |-> "none", task |-> {}, status |-> "pending", results |-> {}, logs |-> {},
           unread |-> {}]

FleetTypeOK ==
  /\ PresenceTypeOK /\ LiveTypeOK /\ RuntimeTypeOK
  /\ budget \in [Optional -> Nat]
  /\ page.pc \in {"none", "row", "result", "shown"} /\ page.task \subseteq Tasks
  /\ page.status \in Statuses /\ page.unread \subseteq {"result", "logs"}

FleetInit ==
  \E plan \in Plans :
    /\ PresenceInit(plan.up, FirstId) /\ LiveInit(plan.opened) /\ RuntimeInit(plan.jobs, plan.files)
    /\ clock = plan.clock /\ budget = plan.budget /\ page = NoPage

Spend(thing) ==
  /\ budget[thing] > 0
  /\ budget' = [budget EXCEPT ![thing] = @ - 1]
  /\ UNCHANGED clock

-----------------------------------------------------------------------------
(* viewTask: the row, then the result, then the logs.  The page is shown     *)
(* without a result or logs that could not be read.                          *)

ViewRow(t) ==
  /\ page.pc \in {"none", "shown"}
  /\ page' = [NoPage EXCEPT !.pc = "row", !.task = {t}, !.status = status[t]]
  /\ Spend("view")
  /\ UNCHANGED <<presenceVars, liveVars, runtimeVars>>

OfPage(c) == c \in Jobs /\ Task(c) \in page.task

ViewResult(read) ==
  /\ page.pc = "row"
  /\ page' = IF read
             THEN [page EXCEPT !.pc = "result", !.results = {r \in results : OfPage(r.command)}]
             ELSE [page EXCEPT !.pc = "result", !.unread = @ \cup {"result"}]
  /\ UNCHANGED <<presenceVars, liveVars, runtimeVars>>

ViewLogs(read) ==
  /\ page.pc = "result"
  /\ page' = IF read
             THEN [page EXCEPT !.pc = "shown", !.logs = {l \in logs : OfPage(l.command)}]
             ELSE [page EXCEPT !.pc = "shown", !.unread = @ \cup {"logs"}]
  /\ UNCHANGED <<presenceVars, liveVars, runtimeVars>>

ViewStep == (ViewResult(TRUE) \/ ViewLogs(TRUE)) /\ UNCHANGED <<clock, budget>>
ViewFails == Spend("fault") /\ (ViewResult(FALSE) \/ ViewLogs(FALSE))

-----------------------------------------------------------------------------
(* What goes on by itself. *)

ProcessStep(h) ==
  /\ ReadId(h) \/ CreateIdFile(h) \/ WriteIdFile(h) \/ RegisterAgent(h, FALSE)
  /\ UNCHANGED <<liveVars, runtimeVars, fleetVars>>

Beat(h) == SendHeartbeat(h) /\ UNCHANGED <<liveVars, runtimeVars, fleetVars>>
TimePasses == clock /\ Tick /\ UNCHANGED <<liveVars, runtimeVars, fleetVars>>
Sweep == SetOfflineStatusForInactiveAgents /\ UNCHANGED <<liveVars, runtimeVars, fleetVars>>
Toggled == ToggleWrite /\ UNCHANGED <<liveVars, runtimeVars, fleetVars>>

HandlerStep(c) == (Assign(c) \/ Acknowledge(c)) /\ UNCHANGED fleetVars

CommandStep(c) ==
  /\ \/ Start(c) \/ ReadPackageFile(c) \/ OpenTarget(c) \/ WriteChunk(c) \/ ApplyUpdate(c)
     \/ OpenLogs(c) \/ (\E s \in Readers : ReadLine(c, s, TRUE)) \/ Exit(c) \/ ReadersEnd(c)
     \/ CloseLogs(c, TRUE) \/ SaveResult(c) \/ MarkCompleted(c) \/ FinishCall(c) \/ ExitAfterUpdate(c)
  /\ UNCHANGED fleetVars

Expire(c) == Timeout(c) /\ UNCHANGED fleetVars

PublishStep(c) ==
  /\ c \in Jobs
  /\ \E p \in {StreamOf(c), ResultOf(c)} : GetForPublish(p, Task(c)) \/ Broadcast(p)
  /\ UNCHANGED <<presenceVars, runtimeVars, fleetVars>>

BrokerStep ==
  /\ PassOn \/ \E b \in DOMAIN browser : Deliver(b)
  /\ UNCHANGED <<presenceVars, runtimeVars, fleetVars>>

-----------------------------------------------------------------------------
(* What may happen, and how often. *)

Dispatched(c) == Send(c) /\ UNCHANGED fleetVars
Unlucky(c) ==
  /\ \/ (\E s \in Readers : FillPipe(c, s)) \/ SendersCollide(c) \/ CancelCall(c)
  /\ UNCHANGED fleetVars
Removed(t) == CleanUp(t) /\ UNCHANGED fleetVars

Started(h) == Spend("start") /\ StartAgent(h) /\ UNCHANGED <<liveVars, runtimeVars, page>>
Died(h) == Spend("die") /\ AgentEnds(h) /\ UNCHANGED page

Failed ==
  /\ Spend("fault")
  /\ \/ /\ \E h \in Hosts : \/ CreateIdFileFails(h) \/ RegisterAgent(h, TRUE)
                            \/ RegisterFails(h) \/ HeartbeatFails(h)
        /\ UNCHANGED <<liveVars, runtimeVars>>
     \/ \E c \in Jobs : \/ StepFails(c) \/ WriteFails(c) \/ BreakStream(c) \/ CallFails(c)
                        \/ CloseLogs(c, FALSE)
                        \/ \E s \in Readers : ReadLine(c, s, FALSE)
     \/ /\ \E c \in Jobs : \E p \in {StreamOf(c), ResultOf(c)} : GetFails(p, Task(c))
        /\ UNCHANGED <<presenceVars, runtimeVars>>
  /\ UNCHANGED page

Clicked ==
  /\ \/ Spend("toggle") /\ (\E i \in Ids : ToggleRead(i)) /\ UNCHANGED <<liveVars, runtimeVars>>
     \/ Spend("delete") /\ (\E i \in Ids : RemoveAgent(i))
     \/ /\ Spend("load") /\ \E b \in DOMAIN browser : LoadPage(b)
        /\ UNCHANGED <<presenceVars, runtimeVars>>
  /\ UNCHANGED page

Connected ==
  /\ \/ (\E b \in DOMAIN browser : Subscribe(b)) /\ UNCHANGED <<clock, budget>>
     \/ Spend("disconnect") /\ \E b \in DOMAIN browser : Disconnect(b)
  /\ UNCHANGED <<presenceVars, runtimeVars, page>>

FleetNext ==
  \/ \E h \in Hosts : ProcessStep(h) \/ Beat(h) \/ Started(h) \/ Died(h)
  \/ TimePasses \/ Sweep \/ Toggled
  \/ \E c \in Jobs : \/ Dispatched(c) \/ HandlerStep(c) \/ CommandStep(c) \/ Expire(c)
                     \/ PublishStep(c) \/ Unlucky(c)
  \/ \E t \in Tasks : Removed(t) \/ ViewRow(t)
  \/ BrokerStep \/ Failed \/ Clicked \/ Connected \/ ViewStep \/ ViewFails

\* Processes and their heartbeats, the goroutine of a command with its deadline, the server
\* with its broker, time, the sweep and a request to toggle go on; of what may happen nothing
\* has to.
ServerStep == BrokerStep \/ \E c \in Jobs : HandlerStep(c) \/ PublishStep(c)

FleetFairness ==
  /\ \A h \in Hosts : WF_vars(ProcessStep(h) \/ Beat(h))
  /\ \A c \in Commands : WF_vars(CommandStep(c) \/ Expire(c))
  /\ WF_vars(ServerStep) /\ WF_vars(TimePasses) /\ WF_vars(Sweep) /\ WF_vars(Toggled)

FleetSpec == FleetInit /\ [][FleetNext]_vars /\ FleetFairness

-----------------------------------------------------------------------------
(* Properties. *)

\* Sweep, heartbeats, registration and toggle (postgres.go): however they interleave, an
\* agent that runs and beats is never offline; only one whose registration was refused or
\* whose last heartbeat failed may be.
BeatingIsNotOffline ==
  \A h \in Hosts : Running(h) /\ Exists(process[h].id) /\ agent[process[h].id].status = "offline"
                   => h \in silenced

\* getOrCreateAgentID: over restarts, crashes between creating and writing the file, and
\* failed writes, a host registers one id.
OneIdPerHost == \A h \in Hosts : Cardinality(registered[h]) <= 1

\* SetOfflineStatusForInactiveAgents: when no process of an agent runs any more it does not
\* stay online, whatever the administrator toggles.
DeadIsNoticed ==
  \A i \in Ids :
    clock /\ <>[](\A h \in Hosts : ~ (Running(h) /\ process[h].id = i))
      => <>[](agent[i].status # "online")

\* SendHeartbeat: an agent that keeps running and has a row is online again and again, also
\* after it was taken for inactive or disconnected by the administrator.
LivingIsOnline ==
  \A h \in Hosts :
    clock /\ <>[](Running(h) /\ Exists(process[h].id))
      => []<>(Running(h) /\ Exists(process[h].id) /\ agent[process[h].id].status = "online")

\* The lines a command wrote, as far as it came.
Lines(c) ==
  UNION {{<<s, k>> : k \in 1..(job[c].lines[s] - command[c].left[s])} : s \in Readers}

\* viewTask, SubmitTaskResult and StreamLogs: a page that shows a task as finished shows its
\* result, and all lines the command wrote - unless the agent has been deleted, or a line
\* came to nothing: its batch was not stored, its stream broke, or its reader had stopped.
\* Of the result and the logs it does not show what its own query failed to read.
PageComplete ==
  page.pc = "shown" /\ page.status \in {"completed", "failed", "timed_out"} =>
    \/ page.task \subseteq orphans
    \/ /\ page.results # {} \/ "result" \in page.unread
       /\ \A c \in {r.command : r \in page.results} :
            \/ c \in lossy \/ "logs" \in page.unread
            \/ Lines(c) \subseteq {l.line : l \in {k \in page.logs : k.command = c}}

\* UploadTaskFile, extractPushArchive, AGENT_UPDATE: a transfer that reports success has
\* written its whole files, and nothing else ever leaves a file that is not the whole of what
\* one command sent or what was there before - unless two commands wrote the file at once or
\* a transfer was interrupted; a fetched file is not there either if its source was empty.
FilesWhole ==
  /\ \A d \in delivered : d[3] = Whole(d[1]) \/ d[1] \in shared
  /\ \A f \in DOMAIN disk :
       Writers(f) = {} /\ f \notin spoiled =>
         disk[f] = <<Old>> \/ \E c \in Jobs : disk[f] = Whole(c)
  /\ \A r \in results :
       LET c == r.command IN
       r.outcome = "SUCCESS" /\ Type(c) \in {"FETCH_FILE", "PUSH_FILE"} =>
         \/ Type(c) = "FETCH_FILE" /\ job[c].chunks = 0
         \/ {d[2] : d \in {e \in delivered : e[1] = c}} = {PathOf(c, n) : n \in job[c].files}

\* handleExecCommandTask and pipeLogs: every command that has been received comes to an end,
\* also when the log stream breaks and nobody reads its output any more - unless it has left
\* a process behind that keeps the pipes: the deadline does not reach that one.
Underway(c) == c \in Jobs /\ command[c].pc \in OnAgent \cup OnServer

CommandSettles ==
  \A c \in Commands : Underway(c) ~> (~ Underway(c) \/ (At(c, "run") /\ Held(c)))

\* SubmitTaskResult, handleTaskAcknowledgement, the broker and sse-client.js: when all
\* writers of a task have broadcast and all broadcasts have arrived, a page shows the status
\* of its row - unless the last event for the task did not reach it (its channel was full, or
\* it was between loading and subscribing or between two streams), or was older than the row:
\* the goroutine of the stream broadcast what it had read before the result was written, or
\* the row could not be read again.
\* All this of tasks that are sent once and do not recur: a second command, or an assigned
\* that is written late, after the result has set a recurring task to pending again, may make
\* the broadcast of a result older than the row as well.
Once(t) == \A c, d \in Jobs : Task(c) = t /\ Task(d) = t => c = d /\ ~ job[c].recurring

Quiet(b, t) ==
  /\ \A c \in Jobs : Task(c) = t => Idle(StreamOf(c)) /\ Idle(ResultOf(c))
  /\ \A i \in DOMAIN broadcast : broadcast[i].task # t
  /\ browser[b].inbox = <<>>

BadgeIsCurrent ==
  \A b \in DOMAIN browser : browser[b].pc # "closed" =>
    \A t \in MayView[b] \ (browser[b].missed \cup overtaken) :
      Once(t) /\ Quiet(b, t) => browser[b].badge[t] = status[t]
=============================================================================
