---------------------------- MODULE RuntimeProofs ----------------------------
(***************************************************************************)
(* Theorems about what runs in Fleet, for every plan, set of commands and  *)
(* limit of a buffer: goroutines, files, results and lines of the log.     *)
(***************************************************************************)
EXTENDS FleetProofs, SequenceTheorems

-----------------------------------------------------------------------------
(* The inductive invariant, in parts. *)

CommandFields == {"pc", "begun", "id", "left", "reading", "buffer", "connected", "ended", "wait",
                  "path", "chunk", "outcome"}

Shape ==
  /\ DOMAIN command = Jobs /\ DOMAIN handler = Jobs
  /\ \A c \in Jobs : /\ c \in Commands /\ IsJob(job[c]) /\ Targets(job[c]) \subseteq DOMAIN disk
                     /\ DOMAIN command[c] = CommandFields

\* A goroutine is in the part of the code that is for its type of task; it has a file open
\* only while it writes, lines in a buffer only while its log stream is open.
After == {"mark", "publish", "exit", "over", "lost"}
Control(c) ==
  LET k == command[c]  pc == command[c].pc IN
  /\ pc \in OnAgent \cup OnServer \cup {"idle", "over", "lost"}
  /\ handler[c] \in {"idle", "assign", "ack", "over"}
  /\ k.outcome \in Outcomes
  /\ pc \in {"idle", "start", "package", "target", "write"} => k.outcome = "FAILED"
  /\ pc = "package" => Type(c) \in {"EXEC_PYTHON_SCRIPT", "PUSH_FILE", "AGENT_UPDATE"}
  /\ pc \in {"target", "write"} => Type(c) \in {"PUSH_FILE", "FETCH_FILE"}
  /\ pc = "apply" => Type(c) = "AGENT_UPDATE"
  /\ pc \in {"open", "run", "close"} => Type(c) \in {"EXEC_COMMAND", "EXEC_PYTHON_SCRIPT"}
  /\ IF pc = "write" THEN \E f \in Targets(job[c]) : k.path = {f} ELSE k.path = {}
  /\ pc \notin {"run", "close"} => k.buffer = {}
  /\ Cardinality(k.buffer) < BufferLimit
  /\ \A line \in k.buffer : line[1] \in Readers
  /\ k.reading \subseteq Readers /\ k.wait \subseteq job[c].files
  /\ k.left \in [Readers -> Nat] /\ \A s \in Readers : k.left[s] <= job[c].lines[s]

\* A command works for the agent whose id its host has; no two hosts have one id, and a row
\* is there only for an id that has been registered.
Owned(h) == {idFile[h], process[h].id} \cap Ids
Known == \A i \in Ids : Exists(i) => \E h \in Hosts : i \in registered[h]
Apart == \A g, h \in Hosts : g # h => Owned(g) \cap Owned(h) = {}
Identity ==
  /\ Known /\ Apart
  /\ \A c \in Jobs : command[c].pc # "idle" =>
       command[c].id \in Ids /\ command[c].id = idFile[Host(c)]

\* The files a transfer has delivered are those it has taken from its list.
Done(c) == {d[2] : d \in {e \in delivered : e[1] = c}}
PathsOf(c, names) == {PathOf(c, n) : n \in names}
Progress(c) ==
  LET k == command[c]  files == job[c].files IN
  Type(c) \in {"FETCH_FILE", "PUSH_FILE"} =>
    /\ k.pc \in {"idle", "start", "package"} => Done(c) = {}
    /\ k.pc = "target" => Done(c) = PathsOf(c, files \ k.wait)
    /\ k.pc = "write" => \E n \in files \ k.wait : /\ k.path = {PathOf(c, n)}
                                                 /\ Done(c) = PathsOf(c, (files \ k.wait) \ {n})
    /\ k.pc = "submit" /\ k.outcome = "SUCCESS" =>
         (Type(c) = "FETCH_FILE" /\ job[c].chunks = 0) \/ Done(c) = PathsOf(c, files)

\* A file that nothing has spoiled has one writer, and contains what that one has written.
Prefix(c) == [i \in 1..(command[c].chunk - 1) |-> c]
Writing(c) ==
  \A f \in command[c].path :
    /\ command[c].chunk \in Nat \ {0} /\ command[c].chunk <= job[c].chunks + 1
    /\ c \notin shared => f \notin spoiled
    /\ f \notin spoiled => Writers(f) = {c} /\ disk[f] = Prefix(c)

\* Rows of the log and of the results belong to agents that have been registered.
LogRows ==
  \A l \in logs : /\ l.command \in Jobs /\ l.line[1] \in Readers
                  /\ command[l.command].pc # "idle"
                  /\ l.agent \in registered[Host(l.command)]
ResultAgents == \A r \in results : r.agent \in registered[Host(r.command)]

Stored(c) == {l.line : l \in {k \in logs : k.command = c}}
Kept(c) ==
  command[c].pc # "idle" =>
    c \in lossy \/ Task(c) \in orphans \/ Lines(c) \subseteq Stored(c) \cup command[c].buffer

-----------------------------------------------------------------------------
(* The steps of Fleet, without what merely counts them. *)

FileAct(c) == OpenTarget(c) \/ WriteChunk(c) \/ WriteFails(c) \/ ApplyUpdate(c)
LogAct(c) ==
  \/ BreakStream(c)
  \/ \E s \in Readers : FillPipe(c, s) \/ ReadLine(c, s, TRUE) \/ ReadLine(c, s, FALSE)
  \/ CloseLogs(c, TRUE) \/ CloseLogs(c, FALSE)
StreamAct(c) == Send(c) \/ Assign(c) \/ Acknowledge(c)
ControlAct(c) ==
  \/ Start(c) \/ ReadPackageFile(c) \/ StepFails(c)
  \/ OpenLogs(c) \/ Exit(c) \/ Timeout(c) \/ ReadersEnd(c)
  \/ FinishCall(c) \/ CallFails(c)
CommandAct(c) ==
  FileAct(c) \/ LogAct(c) \/ StreamAct(c) \/ ControlAct(c) \/ SaveResult(c) \/ MarkCompleted(c)

LiveAct ==
  \/ \E c \in Jobs : \E p \in {StreamOf(c), ResultOf(c)} :
       GetForPublish(p, Task(c)) \/ GetFails(p, Task(c)) \/ Broadcast(p)
  \/ PassOn
  \/ \E b \in DOMAIN browser : Deliver(b) \/ LoadPage(b) \/ Subscribe(b) \/ Disconnect(b)
PageAct == (\E read \in BOOLEAN : ViewResult(read) \/ ViewLogs(read)) \/ \E t \in Tasks : ViewRow(t)

\* What the agents' processes and rows do by themselves.
RowAct == [PresenceNext]_presenceVars /\ UNCHANGED <<liveVars, runtimeVars, page>>

LEMMA Steps ==
  ASSUME JobsOnHosts, [FleetNext]_vars
  PROVE  \/ \E c \in Jobs : CommandAct(c) /\ UNCHANGED page
         \/ \E h \in Hosts : AgentEnds(h) /\ UNCHANGED page
         \/ \E i \in Ids : RemoveAgent(i) /\ UNCHANGED page
         \/ \E t \in Tasks : CleanUp(t) /\ UNCHANGED page
         \/ LiveAct /\ UNCHANGED <<presenceVars, runtimeVars, page>>
         \/ PageAct /\ UNCHANGED <<presenceVars, liveVars, runtimeVars>>
         \/ RowAct
  <1>1. [PresenceNext]_presenceVars
    BY FleetStep
  <1>2. ASSUME NEW h \in Hosts, ProcessStep(h) \/ Beat(h) \/ Started(h)
        PROVE  RowAct
    BY <1>1, <1>2 DEF ProcessStep, Beat, Started, RowAct, fleetVars
  <1>3. ASSUME TimePasses \/ Sweep \/ Toggled
        PROVE  RowAct
    BY <1>1, <1>3 DEF TimePasses, Sweep, Toggled, RowAct, fleetVars
  <1>4. ASSUME NEW c \in Jobs, Dispatched(c) \/ HandlerStep(c) \/ Expire(c) \/ Unlucky(c)
        PROVE  CommandAct(c) /\ UNCHANGED page
    BY <1>4 DEF Dispatched, HandlerStep, Expire, Unlucky, SendersCollide, CancelCall, CommandAct, LogAct,
                StreamAct, ControlAct, fleetVars
  <1>5. ASSUME NEW c \in Jobs, CommandStep(c)
        PROVE  (CommandAct(c) \/ AgentEnds(Host(c))) /\ UNCHANGED page
    BY <1>5 DEF CommandStep, ExitAfterUpdate, CommandAct, FileAct, LogAct, ControlAct, fleetVars
  <1>6. ASSUME NEW c \in Jobs, PublishStep(c)
        PROVE  LiveAct /\ UNCHANGED <<presenceVars, runtimeVars, page>>
    BY <1>6 DEF PublishStep, LiveAct, fleetVars
  <1>7. ASSUME BrokerStep \/ Connected
        PROVE  LiveAct /\ UNCHANGED <<presenceVars, runtimeVars, page>>
    BY <1>7 DEF BrokerStep, Connected, LiveAct, fleetVars
  <1>8. ASSUME Failed
        PROVE  \/ \E c \in Jobs : CommandAct(c) /\ UNCHANGED page
               \/ LiveAct /\ UNCHANGED <<presenceVars, runtimeVars, page>>
               \/ RowAct
    <2>1. CASE (\E h \in Hosts : \/ CreateIdFileFails(h) \/ RegisterAgent(h, TRUE)
                                 \/ RegisterFails(h) \/ HeartbeatFails(h))
               /\ UNCHANGED <<liveVars, runtimeVars>>
      BY <1>1, <1>8, <2>1 DEF Failed, RowAct
    <2>2. CASE \E c \in Jobs : \/ StepFails(c) \/ WriteFails(c) \/ BreakStream(c) \/ CallFails(c)
                               \/ CloseLogs(c, FALSE)
                               \/ \E s \in Readers : ReadLine(c, s, FALSE)
      BY <1>8, <2>2 DEF Failed, CommandAct, FileAct, LogAct, ControlAct
    <2>3. CASE (\E c \in Jobs : \E p \in {StreamOf(c), ResultOf(c)} : GetFails(p, Task(c)))
               /\ UNCHANGED <<presenceVars, runtimeVars>>
      BY <1>8, <2>3 DEF Failed, LiveAct
    <2>. QED BY <1>8, <2>1, <2>2, <2>3 DEF Failed
  <1>9. ASSUME Clicked
        PROVE  \/ \E i \in Ids : RemoveAgent(i) /\ UNCHANGED page
               \/ LiveAct /\ UNCHANGED <<presenceVars, runtimeVars, page>>
               \/ RowAct
    BY <1>1, <1>9 DEF Clicked, LiveAct, RowAct
  <1>10. CASE FleetNext
    <2>1. ASSUME NEW c \in Jobs
          PROVE  Host(c) \in Hosts
      BY DEF JobsOnHosts
    <2>2. CASE \E h \in Hosts : ProcessStep(h) \/ Beat(h) \/ Started(h) \/ Died(h)
      BY <1>2, <2>2 DEF Died
    <2>3. CASE \E c \in Jobs : \/ Dispatched(c) \/ HandlerStep(c) \/ CommandStep(c) \/ Expire(c)
                               \/ PublishStep(c) \/ Unlucky(c)
      BY <1>4, <1>5, <1>6, <2>1, <2>3
    <2>4. CASE \E t \in Tasks : Removed(t) \/ ViewRow(t)
      <3>1. ASSUME NEW t \in Tasks, ViewRow(t)
            PROVE  PageAct /\ UNCHANGED <<presenceVars, liveVars, runtimeVars>>
        BY <3>1 DEF ViewRow, PageAct
      <3>. QED BY <2>4, <3>1 DEF Removed, fleetVars
    <2>5. CASE ViewStep \/ ViewFails
      BY <2>5 DEF ViewStep, ViewFails, ViewResult, ViewLogs, PageAct
    <2>. QED BY <1>3, <1>7, <1>8, <1>9, <1>10, <2>2, <2>3, <2>4, <2>5 DEF FleetNext
  <1>11. CASE UNCHANGED vars
    BY <1>1, <1>11 DEF vars, RowAct, fleetVars
  <1>. QED BY <1>10, <1>11

-----------------------------------------------------------------------------
(* What a step leaves alone. *)

LEMMA CommandFrame ==
  ASSUME NEW c, CommandAct(c)
  PROVE  /\ UNCHANGED <<presenceVars, job, orphans, broadcast, browser, overtaken>>
         /\ FileAct(c) \/ UNCHANGED <<disk, delivered, spoiled, shared>>
         /\ LogAct(c) \/ UNCHANGED <<logs, lossy>>
         /\ SaveResult(c) \/ UNCHANGED results
         /\ Assign(c) \/ Acknowledge(c) \/ MarkCompleted(c) \/ UNCHANGED <<status, publish>>
         /\ StreamAct(c) \/ UNCHANGED handler
         /\ cleaning' \subseteq cleaning \cup {Task(c)}
  <1>1. CASE FileAct(c)
    BY <1>1 DEF FileAct, OpenTarget, WriteChunk, WriteFails, ApplyUpdate, liveVars
  <1>2. CASE LogAct(c)
    BY <1>2 DEF LogAct, BreakStream, FillPipe, ReadLine, CloseLogs, liveVars, fileVars
  <1>3. CASE StreamAct(c)
    BY <1>3 DEF StreamAct, Send, Assign, Acknowledge, liveVars, fileVars
  <1>4. CASE ControlAct(c)
    <2>1. CASE Start(c) \/ ReadPackageFile(c) \/ StepFails(c)
      BY <2>1 DEF Start, ReadPackageFile, StepFails, liveVars, fileVars
    <2>2. CASE OpenLogs(c) \/ Exit(c) \/ Timeout(c) \/ ReadersEnd(c)
      BY <2>2 DEF OpenLogs, Exit, Timeout, ReadersEnd, liveVars, fileVars
    <2>3. CASE FinishCall(c)
      BY <2>3 DEF FinishCall, liveVars
    <2>4. CASE CallFails(c)
      BY <2>4 DEF CallFails, liveVars, fileVars
    <2>. QED BY <1>4, <2>1, <2>2, <2>3, <2>4 DEF ControlAct
  <1>5. CASE SaveResult(c)
    BY <1>5 DEF SaveResult, liveVars, fileVars
  <1>6. CASE MarkCompleted(c)
    BY <1>6 DEF MarkCompleted, fileVars
  <1>. QED BY <1>1, <1>2, <1>3, <1>4, <1>5, <1>6 DEF CommandAct

LEMMA EndFrame ==
  ASSUME NEW h, AgentEnds(h)
  PROVE  /\ UNCHANGED <<liveVars, job, handler, logs, results, orphans, package, cleaning, disk,
                        delivered, shared>>
         /\ UNCHANGED <<idFile, agent, registered>>
         /\ spoiled \subseteq spoiled' /\ lossy \subseteq lossy'
  BY DEF AgentEnds, EndCommands, Die

-----------------------------------------------------------------------------
(* What a step does to the goroutine of its command. *)

Moved(c) ==
  /\ DOMAIN command' = DOMAIN command /\ DOMAIN command'[c] = CommandFields
  /\ \A d \in Jobs \ {c} : command'[d] = command[d]

\* The fields that the invariant is about, but for the place.
Data == {"id", "left", "reading", "buffer", "path", "chunk", "wait", "outcome"}
Same(c, names) == \A n \in names : command'[c][n] = command[c][n]

LEMMA Replaced ==
  ASSUME Shape, NEW c \in Jobs, NEW g, DOMAIN g = CommandFields, Update(c, g)
  PROVE  Moved(c) /\ command'[c] = g
  BY DEF Shape, Update, Moved

LEMMA GotoEffect ==
  ASSUME Shape, NEW c \in Jobs, NEW pc, Goto(c, pc)
  PROVE  Moved(c) /\ Same(c, Data) /\ command'[c].pc = pc
  <1> DEFINE g == [command[c] EXCEPT !.pc = pc]
  <1>1. DOMAIN command[c] = CommandFields /\ DOMAIN g = CommandFields
    BY DEF Shape
  <1>2. Update(c, g)
    BY DEF Goto, Update
  <1>3. Moved(c) /\ command'[c] = g
    BY <1>1, <1>2, Replaced
  <1>. QED BY <1>1, <1>3 DEF Same, Data, CommandFields

LEMMA SubmitEffect ==
  ASSUME Shape, NEW c \in Jobs, NEW outcome, Submit(c, outcome)
  PROVE  /\ Moved(c) /\ Same(c, Data \ {"outcome"})
         /\ command'[c].pc = "submit" /\ command'[c].outcome = outcome
  <1> DEFINE g == [command[c] EXCEPT !.pc = "submit", !.outcome = outcome]
  <1>1. DOMAIN command[c] = CommandFields /\ DOMAIN g = CommandFields
    BY DEF Shape
  <1>2. Update(c, g)
    BY DEF Submit, Update, Shape
  <1>3. Moved(c) /\ command'[c] = g
    BY <1>1, <1>2, Replaced
  <1>. QED BY <1>1, <1>3 DEF Same, Data, CommandFields

LEMMA SendEffect ==
  ASSUME Shape, NEW c \in Jobs, Send(c)
  PROVE  LET g == command'[c] IN
         /\ Moved(c) /\ command[c].pc = "idle" /\ Running(Host(c)) /\ process[Host(c)].id # NoId
         /\ g.pc = "start" /\ g.id = process[Host(c)].id /\ g.left = job[c].lines /\ g.reading = {}
         /\ g.buffer = {} /\ g.path = {} /\ g.wait = {} /\ g.outcome = "FAILED"
         /\ handler' = [handler EXCEPT ![c] = "assign"]
  <1> DEFINE i == process[Host(c)].id  g == [NewCommand(i, "start") EXCEPT !.left = job[c].lines]
  <1>1. DOMAIN NewCommand(i, "start") = CommandFields
    BY DEF NewCommand, CommandFields
  <1>2. DOMAIN g = CommandFields
    BY <1>1
  <1>3. Update(c, g)
    BY DEF Send
  <1>4. Moved(c) /\ command'[c] = g
    BY <1>2, <1>3, Replaced
  <1>5. /\ g.pc = "start" /\ g.id = i /\ g.left = job[c].lines /\ g.reading = {} /\ g.buffer = {}
        /\ g.path = {} /\ g.wait = {} /\ g.outcome = "FAILED"
    BY DEF NewCommand
  <1>6. /\ command[c].pc = "idle" /\ Running(Host(c)) /\ i # NoId
        /\ handler' = [handler EXCEPT ![c] = "assign"]
    BY DEF Send, At
  <1>. QED BY <1>4, <1>5, <1>6

LEMMA StartEffect ==
  ASSUME Shape, NEW c \in Jobs, Start(c)
  PROVE  LET g == command'[c] IN
         /\ Moved(c) /\ Same(c, Data \ {"wait"}) /\ command[c].pc = "start"
         /\ \/ g.pc = FirstPC[Type(c)] /\ g.wait = job[c].files
            \/ g.pc = "submit" /\ g.wait = command[c].wait
  <1>0. DOMAIN command[c] = CommandFields /\ command[c].pc = "start"
    BY DEF Shape, Start, At
  <1>1. CASE job[c].valid
    <2> DEFINE g == [command[c] EXCEPT !.pc = FirstPC[Type(c)], !.wait = job[c].files, !.begun = TRUE]
    <2>1. DOMAIN g = CommandFields /\ Update(c, g)
      BY <1>0, <1>1 DEF Start
    <2>2. Moved(c) /\ command'[c] = g
      BY <2>1, Replaced
    <2>. QED BY <1>0, <2>2 DEF CommandFields, Same, Data
  <1>2. CASE ~ job[c].valid
    <2> DEFINE g == [command[c] EXCEPT !.pc = "submit", !.begun = TRUE]
    <2>1. DOMAIN g = CommandFields /\ Update(c, g)
      BY <1>0, <1>2 DEF Start
    <2>2. Moved(c) /\ command'[c] = g
      BY <2>1, Replaced
    <2>. QED BY <1>0, <2>2 DEF CommandFields, Same, Data
  <1>. QED BY <1>1, <1>2

LEMMA PackageEffect ==
  ASSUME Shape, NEW c \in Jobs, ReadPackageFile(c)
  PROVE  LET g == command'[c] IN
         /\ Moved(c) /\ Same(c, Data \ {"wait", "outcome"}) /\ command[c].pc = "package"
         /\ \/ g.pc = "submit" /\ g.outcome = "FAILED"
            \/ g.pc = AfterPackage[Type(c)] /\ g.wait = job[c].files /\ Same(c, {"outcome"})
            \/ g.pc = "package" /\ Same(c, {"outcome"})
         /\ g.wait \subseteq command[c].wait \cup job[c].files
  <1>0. DOMAIN command[c] = CommandFields /\ command[c].pc = "package"
    BY DEF Shape, ReadPackageFile, At
  <1>1. CASE Submit(c, "FAILED")
    <2>1. Moved(c) /\ Same(c, Data \ {"outcome"}) /\ command'[c].pc = "submit" /\ command'[c].outcome = "FAILED"
      BY <1>1, SubmitEffect
    <2>. QED BY <1>0, <2>1 DEF Same, Data
  <1>2. CASE Update(c, [command[c] EXCEPT !.pc = AfterPackage[Type(c)], !.wait = job[c].files])
    <2> DEFINE g == [command[c] EXCEPT !.pc = AfterPackage[Type(c)], !.wait = job[c].files]
    <2>1. DOMAIN g = CommandFields
      BY <1>0
    <2>2. Moved(c) /\ command'[c] = g
      BY <1>2, <2>1, Replaced
    <2>. QED BY <1>0, <2>2 DEF CommandFields, Same, Data
  <1>3. ASSUME NEW f, Update(c, [command[c] EXCEPT !.wait = @ \ {f}])
        PROVE  /\ Moved(c) /\ Same(c, Data \ {"wait"}) /\ command'[c].pc = "package"
               /\ command'[c].wait \subseteq command[c].wait
    <2> DEFINE g == [command[c] EXCEPT !.wait = @ \ {f}]
    <2>1. DOMAIN g = CommandFields
      BY <1>0
    <2>2. Moved(c) /\ command'[c] = g
      BY <1>3, <2>1, Replaced
    <2>. QED BY <1>0, <2>2 DEF CommandFields, Same, Data
  <1>4. Submit(c, "FAILED") \/ Update(c, [command[c] EXCEPT !.pc = AfterPackage[Type(c)], !.wait = job[c].files])
        \/ \E f : Update(c, [command[c] EXCEPT !.wait = @ \ {f}])
    BY DEF ReadPackageFile
  <1>. QED BY <1>0, <1>1, <1>2, <1>3, <1>4 DEF Same, Data

LEMMA TargetEffect ==
  ASSUME Shape, NEW c \in Jobs, OpenTarget(c)
  PROVE  LET g == command'[c] IN
         /\ Moved(c) /\ Same(c, {"id", "left", "reading", "buffer"}) /\ command[c].pc = "target"
         /\ UNCHANGED delivered
         /\ \/ /\ g.pc = "submit" /\ Same(c, {"path", "chunk", "wait"})
               /\ g.outcome \in {"SUCCESS", "FAILED"}
               /\ g.outcome = "SUCCESS" => Type(c) = "FETCH_FILE" /\ job[c].chunks = 0
               /\ UNCHANGED <<disk, shared, spoiled>>
            \/ \E name \in command[c].wait : \E f : 
                 /\ f = PathOf(c, name)
                 /\ g.pc = "write" /\ g.path = {f} /\ g.chunk = 1 /\ g.wait = command[c].wait \ {name}
                 /\ Same(c, {"outcome"})
                 /\ disk' = [disk EXCEPT ![f] = <<>>]
                 /\ shared' = IF Writers(f) = {} THEN shared ELSE shared \cup Writers(f) \cup {c}
                 /\ spoiled' = IF Writers(f) = {} THEN spoiled \ {f} ELSE spoiled \cup {f}
  <1>0. DOMAIN command[c] = CommandFields /\ command[c].pc = "target" /\ UNCHANGED delivered
    BY DEF Shape, OpenTarget, At
  <1>1. ASSUME NEW outcome \in {"SUCCESS", "FAILED"}, Submit(c, outcome), UNCHANGED <<disk, shared, spoiled>>,
               outcome = "SUCCESS" => Type(c) = "FETCH_FILE" /\ job[c].chunks = 0
        PROVE  LET g == command'[c] IN
               /\ Moved(c) /\ Same(c, Data \ {"outcome"}) /\ g.pc = "submit"
               /\ g.outcome \in {"SUCCESS", "FAILED"}
               /\ g.outcome = "SUCCESS" => Type(c) = "FETCH_FILE" /\ job[c].chunks = 0
               /\ UNCHANGED <<disk, shared, spoiled>>
    BY <1>1, SubmitEffect
  <1>2. ASSUME NEW name \in command[c].wait, NEW f,
               Update(c, [command[c] EXCEPT !.pc = "write", !.path = {f}, !.chunk = 1, !.wait = @ \ {name}])
        PROVE  LET g == command'[c] IN
               /\ Moved(c) /\ Same(c, {"id", "left", "reading", "buffer", "outcome"})
               /\ g.pc = "write" /\ g.path = {f} /\ g.chunk = 1 /\ g.wait = command[c].wait \ {name}
    <2> DEFINE g == [command[c] EXCEPT !.pc = "write", !.path = {f}, !.chunk = 1, !.wait = @ \ {name}]
    <2>1. DOMAIN g = CommandFields
      BY <1>0
    <2>2. Moved(c) /\ command'[c] = g
      BY <1>2, <2>1, Replaced
    <2>. QED BY <1>0, <2>2 DEF CommandFields, Same
  <1>3. CASE Type(c) = "FETCH_FILE" /\ job[c].chunks = 0
    <2>1. Submit(c, "SUCCESS") /\ UNCHANGED <<disk, spoiled, shared>>
      BY <1>3 DEF OpenTarget
    <2>. QED BY <1>0, <1>1, <1>3, <2>1 DEF Same, Data
  <1>4. CASE ~ (Type(c) = "FETCH_FILE" /\ job[c].chunks = 0) /\ Type(c) = "FETCH_FILE" /\ Task(c) \in orphans
    <2>1. Submit(c, "FAILED") /\ UNCHANGED <<disk, spoiled, shared>>
      BY <1>4 DEF OpenTarget
    <2>. QED BY <1>0, <1>1, <2>1 DEF Same, Data
  <1>5. CASE /\ ~ (Type(c) = "FETCH_FILE" /\ job[c].chunks = 0)
             /\ ~ (Type(c) = "FETCH_FILE" /\ Task(c) \in orphans)
    <2>1. PICK name \in command[c].wait : \E f :
            /\ f = PathOf(c, name)
            /\ disk' = [disk EXCEPT ![f] = <<>>]
            /\ shared' = IF Writers(f) = {} THEN shared ELSE shared \cup Writers(f) \cup {c}
            /\ spoiled' = IF Writers(f) = {} THEN spoiled \ {f} ELSE spoiled \cup {f}
            /\ Update(c, [command[c] EXCEPT !.pc = "write", !.path = {f}, !.chunk = 1, !.wait = @ \ {name}])
      BY <1>5 DEF OpenTarget
    <2>2. PICK f :
            /\ f = PathOf(c, name)
            /\ disk' = [disk EXCEPT ![f] = <<>>]
            /\ shared' = IF Writers(f) = {} THEN shared ELSE shared \cup Writers(f) \cup {c}
            /\ spoiled' = IF Writers(f) = {} THEN spoiled \ {f} ELSE spoiled \cup {f}
            /\ Update(c, [command[c] EXCEPT !.pc = "write", !.path = {f}, !.chunk = 1, !.wait = @ \ {name}])
      BY <2>1
    <2>3. LET g == command'[c] IN
          /\ Moved(c) /\ Same(c, {"id", "left", "reading", "buffer", "outcome"})
          /\ g.pc = "write" /\ g.path = {f} /\ g.chunk = 1 /\ g.wait = command[c].wait \ {name}
      BY <1>2, <2>2
    <2>4. Same(c, {"id", "left", "reading", "buffer"}) /\ Same(c, {"outcome"})
      BY <2>3 DEF Same
    <2>. QED BY <1>0, <2>2, <2>3, <2>4
  <1>. QED BY <1>3, <1>4, <1>5

LEMMA ChunkEffect ==
  ASSUME Shape, NEW c \in Jobs, WriteChunk(c)
  PROVE  LET g == command'[c] IN
         /\ Moved(c) /\ Same(c, {"id", "left", "reading", "buffer", "wait"}) /\ command[c].pc = "write"
         /\ UNCHANGED <<shared, spoiled>>
         /\ \E f \in command[c].path :
              \/ /\ ~ AllSent(c) /\ g.pc = "write" /\ Same(c, {"path", "outcome"})
                 /\ g.chunk = command[c].chunk + 1
                 /\ disk' = [disk EXCEPT ![f] = WriteAt(@, command[c].chunk, c)] /\ UNCHANGED delivered
              \/ /\ AllSent(c) /\ g.path = {}
                 /\ delivered' = delivered \cup {<<c, f, disk[f]>>} /\ UNCHANGED disk
                 /\ \/ command[c].wait = {} /\ g.pc = "submit" /\ g.outcome = "SUCCESS"
                    \/ command[c].wait # {} /\ g.pc = "target" /\ Same(c, {"outcome"})
  <1>0. DOMAIN command[c] = CommandFields /\ command[c].pc = "write" /\ UNCHANGED <<shared, spoiled>>
    BY DEF Shape, WriteChunk, At
  <1>1. PICK f \in command[c].path :
         IF ~ AllSent(c)
         THEN /\ disk' = [disk EXCEPT ![f] = WriteAt(@, command[c].chunk, c)]
              /\ Update(c, [command[c] EXCEPT !.chunk = @ + 1])
              /\ UNCHANGED delivered
         ELSE /\ delivered' = delivered \cup {<<c, f, disk[f]>>}
              /\ LET closed == [command[c] EXCEPT !.path = {}] IN
                 IF closed.wait = {}
                 THEN Update(c, [closed EXCEPT !.pc = "submit", !.outcome = "SUCCESS"])
                 ELSE Update(c, [closed EXCEPT !.pc = "target"])
              /\ UNCHANGED disk
    BY DEF WriteChunk
  <1>2. CASE ~ AllSent(c)
    <2> DEFINE g == [command[c] EXCEPT !.chunk = @ + 1]
    <2>1. DOMAIN g = CommandFields /\ Update(c, g)
      BY <1>0, <1>1, <1>2
    <2>2. Moved(c) /\ command'[c] = g
      BY <2>1, Replaced
    <2>. QED BY <1>0, <1>1, <1>2, <2>2 DEF CommandFields, Same
  <1>3. CASE AllSent(c)
    <2> DEFINE closed == [command[c] EXCEPT !.path = {}]
    <2>1. /\ DOMAIN closed = CommandFields /\ closed.path = {}
          /\ \A n \in {"id", "left", "reading", "buffer", "wait", "outcome"} : closed[n] = command[c][n]
      BY <1>0 DEF CommandFields
    <2>2. closed.wait = command[c].wait
      BY <2>1
    <2>3. IF closed.wait = {} THEN Update(c, [closed EXCEPT !.pc = "submit", !.outcome = "SUCCESS"])
          ELSE Update(c, [closed EXCEPT !.pc = "target"])
      BY <1>1, <1>3
    <2> HIDE DEF closed
    <2>4. CASE closed.wait = {}
      <3> DEFINE g == [closed EXCEPT !.pc = "submit", !.outcome = "SUCCESS"]
      <3>1. DOMAIN g = CommandFields /\ Update(c, g)
        BY <2>1, <2>3, <2>4
      <3>2. Moved(c) /\ command'[c] = g
        BY <3>1, Replaced
      <3>3. Same(c, {"id", "left", "reading", "buffer", "wait"}) /\ command'[c].path = {}
            /\ command'[c].pc = "submit" /\ command'[c].outcome = "SUCCESS"
        BY <2>1, <3>2 DEF CommandFields, Same
      <3>. QED BY <1>0, <1>1, <1>3, <2>2, <2>4, <3>2, <3>3
    <2>5. CASE closed.wait # {}
      <3> DEFINE g == [closed EXCEPT !.pc = "target"]
      <3>1. DOMAIN g = CommandFields /\ Update(c, g)
        BY <2>1, <2>3, <2>5
      <3>2. Moved(c) /\ command'[c] = g
        BY <3>1, Replaced
      <3>3. Same(c, {"id", "left", "reading", "buffer", "wait"}) /\ command'[c].path = {}
            /\ command'[c].pc = "target" /\ Same(c, {"outcome"})
        BY <2>1, <3>2 DEF CommandFields, Same
      <3>. QED BY <1>0, <1>1, <1>3, <2>2, <2>5, <3>2, <3>3
    <2>. QED BY <2>4, <2>5
  <1>. QED BY <1>2, <1>3

LEMMA WriteFailsEffect ==
  ASSUME Shape, NEW c \in Jobs, WriteFails(c)
  PROVE  LET g == command'[c] IN
         /\ Moved(c) /\ Same(c, {"id", "left", "reading", "buffer", "wait"}) /\ command[c].pc = "write"
         /\ g.pc = "submit" /\ g.outcome = "FAILED" /\ g.path = {}
         /\ spoiled' = spoiled \cup command[c].path /\ UNCHANGED <<disk, delivered, shared>>
  <1> DEFINE g == [command[c] EXCEPT !.pc = "submit", !.outcome = "FAILED", !.path = {}]
  <1>0. DOMAIN command[c] = CommandFields
    BY DEF Shape
  <1>1. DOMAIN g = CommandFields /\ Update(c, g)
    BY <1>0 DEF WriteFails
  <1>2. Moved(c) /\ command'[c] = g
    BY <1>1, Replaced
  <1>3. /\ Same(c, {"id", "left", "reading", "buffer", "wait"})
        /\ command'[c].pc = "submit" /\ command'[c].outcome = "FAILED" /\ command'[c].path = {}
    BY <1>0, <1>2 DEF CommandFields, Same
  <1>4. /\ command[c].pc = "write"
        /\ spoiled' = spoiled \cup command[c].path /\ UNCHANGED <<disk, delivered, shared>>
    BY DEF WriteFails, At
  <1>. QED BY <1>2, <1>3, <1>4

Binary(c) == <<Host(c), "agent", "agent">>
LEMMA ApplyEffect ==
  ASSUME Shape, NEW c \in Jobs, ApplyUpdate(c)
  PROVE  LET g == command'[c] IN
         /\ Moved(c) /\ Same(c, Data \ {"outcome"}) /\ command[c].pc = "apply"
         /\ g.pc = "submit" /\ g.outcome \in Outcomes /\ UNCHANGED <<spoiled, shared>>
         /\ \/ UNCHANGED <<disk, delivered>>
            \/ /\ disk' = [disk EXCEPT ![Binary(c)] = Whole(c)]
               /\ delivered' = delivered \cup {<<c, Binary(c), Whole(c)>>}
  <1>1. CASE job[c].checksum
    <2>1. /\ Submit(c, "SUCCESS") /\ disk' = [disk EXCEPT ![Binary(c)] = Whole(c)]
          /\ delivered' = delivered \cup {<<c, Binary(c), Whole(c)>>}
      BY <1>1 DEF ApplyUpdate, Binary
    <2>2. /\ Moved(c) /\ Same(c, Data \ {"outcome"})
          /\ command'[c].pc = "submit" /\ command'[c].outcome = "SUCCESS"
      BY <2>1, SubmitEffect
    <2>. QED BY <2>1, <2>2 DEF ApplyUpdate, At, Outcomes
  <1>2. CASE ~ job[c].checksum
    <2>1. Submit(c, "FAILED") /\ UNCHANGED <<disk, delivered>>
      BY <1>2 DEF ApplyUpdate
    <2>2. /\ Moved(c) /\ Same(c, Data \ {"outcome"})
          /\ command'[c].pc = "submit" /\ command'[c].outcome = "FAILED"
      BY <2>1, SubmitEffect
    <2>. QED BY <2>1, <2>2 DEF ApplyUpdate, At, Outcomes
  <1>. QED BY <1>1, <1>2

LEMMA OpenLogsEffect ==
  ASSUME Shape, NEW c \in Jobs, OpenLogs(c)
  PROVE  LET g == command'[c] IN
         /\ Moved(c) /\ Same(c, {"id", "left", "buffer", "path", "chunk", "wait"}) /\ command[c].pc = "open"
         /\ \/ g.pc = "run" /\ g.reading = Readers /\ Same(c, {"outcome"})
            \/ g.pc = "close" /\ g.outcome = "FAILED" /\ Same(c, {"reading"})
  <1>0. DOMAIN command[c] = CommandFields /\ command[c].pc = "open"
    BY DEF Shape, OpenLogs, At
  <1>1. CASE job[c].starts
    <2> DEFINE g == [command[c] EXCEPT !.pc = "run", !.connected = TRUE, !.reading = Readers]
    <2>1. DOMAIN g = CommandFields /\ Update(c, g)
      BY <1>0, <1>1 DEF OpenLogs
    <2>2. Moved(c) /\ command'[c] = g
      BY <2>1, Replaced
    <2>. QED BY <1>0, <2>2 DEF CommandFields, Same
  <1>2. CASE ~ job[c].starts
    <2> DEFINE g == [command[c] EXCEPT !.pc = "close", !.connected = TRUE, !.outcome = "FAILED"]
    <2>1. DOMAIN g = CommandFields /\ Update(c, g)
      BY <1>0, <1>2 DEF OpenLogs
    <2>2. Moved(c) /\ command'[c] = g
      BY <2>1, Replaced
    <2>. QED BY <1>0, <2>2 DEF CommandFields, Same
  <1>. QED BY <1>1, <1>2

LEMMA WrittenFields ==
  ASSUME Shape, NEW c \in Jobs, NEW s
  PROVE  LET g == Written(c, s) IN
         /\ DOMAIN g = CommandFields /\ g.left = [command[c].left EXCEPT ![s] = @ - 1]
         /\ \A n \in CommandFields \ {"left"} : g[n] = command[c][n]
  BY DEF Shape, Written, CommandFields

LineOf(c, s) == <<s, job[c].lines[s] - command[c].left[s] + 1>>
LEMMA ReadLineEffect ==
  ASSUME Shape, NEW c \in Jobs, NEW s, NEW stored, ReadLine(c, s, stored)
  PROVE  LET g == command'[c]  batch == Buffered(c, LineOf(c, s)) IN
         /\ Moved(c) /\ Same(c, {"pc", "id", "path", "chunk", "wait", "outcome"})
         /\ command[c].pc = "run" /\ s \in command[c].reading /\ command[c].left[s] > 0
         /\ g.left = [command[c].left EXCEPT ![s] = @ - 1]
         /\ \/ g.reading = command[c].reading \ {s} /\ g.buffer = command[c].buffer /\ Drop(c)
            \/ (g.reading = command[c].reading /\ g.buffer = batch /\ HasRoom(batch)
                /\ UNCHANGED <<logs, lossy>>)
            \/ g.reading = command[c].reading /\ g.buffer = {} /\ (Store(c, batch) \/ Drop(c))
  <1> DEFINE batch == Buffered(c, LineOf(c, s))  w == Written(c, s)
  <1>0. /\ DOMAIN w = CommandFields /\ w.left = [command[c].left EXCEPT ![s] = @ - 1]
        /\ \A n \in CommandFields \ {"left"} : w[n] = command[c][n]
    BY WrittenFields
  <1>1. command[c].pc = "run" /\ s \in command[c].reading /\ command[c].left[s] > 0
    BY DEF ReadLine, At
  <1>2. \/ Update(c, [w EXCEPT !.reading = @ \ {s}]) /\ Drop(c)
        \/ Update(c, [w EXCEPT !.buffer = batch]) /\ HasRoom(batch) /\ UNCHANGED <<logs, lossy>>
        \/ Update(c, [w EXCEPT !.buffer = {}]) /\ (Store(c, batch) \/ Drop(c))
    BY DEF ReadLine, LineOf
  <1> HIDE DEF w, batch
  <1>3. CASE Update(c, [w EXCEPT !.reading = @ \ {s}]) /\ Drop(c)
    <2> DEFINE g == [w EXCEPT !.reading = @ \ {s}]
    <2>1. Moved(c) /\ command'[c] = g
      BY <1>0, <1>3, Replaced
    <2>. QED BY <1>0, <1>1, <1>3, <2>1 DEF CommandFields, Same
  <1>4. CASE Update(c, [w EXCEPT !.buffer = batch]) /\ HasRoom(batch) /\ UNCHANGED <<logs, lossy>>
    <2> DEFINE g == [w EXCEPT !.buffer = batch]
    <2>1. Moved(c) /\ command'[c] = g
      BY <1>0, <1>4, Replaced
    <2>. QED BY <1>0, <1>1, <1>4, <2>1 DEF CommandFields, Same, batch
  <1>5. CASE Update(c, [w EXCEPT !.buffer = {}]) /\ (Store(c, batch) \/ Drop(c))
    <2> DEFINE g == [w EXCEPT !.buffer = {}]
    <2>1. Moved(c) /\ command'[c] = g
      BY <1>0, <1>5, Replaced
    <2>. QED BY <1>0, <1>1, <1>5, <2>1 DEF CommandFields, Same, batch
  <1>. QED BY <1>2, <1>3, <1>4, <1>5

LEMMA FillPipeEffect ==
  ASSUME Shape, NEW c \in Jobs, NEW s, FillPipe(c, s)
  PROVE  /\ Moved(c) /\ Same(c, (Data \ {"left"}) \cup {"pc"})
         /\ command[c].pc = "run" /\ command[c].left[s] > 0
         /\ command'[c].left = [command[c].left EXCEPT ![s] = @ - 1]
         /\ Drop(c)
  <1> DEFINE w == Written(c, s)
  <1>0. /\ DOMAIN w = CommandFields /\ w.left = [command[c].left EXCEPT ![s] = @ - 1]
        /\ \A n \in CommandFields \ {"left"} : w[n] = command[c][n]
    BY WrittenFields
  <1>1. Update(c, w) /\ command[c].pc = "run" /\ command[c].left[s] > 0 /\ Drop(c)
    BY DEF FillPipe, At
  <1>2. Moved(c) /\ command'[c] = w
    BY <1>0, <1>1, Replaced
  <1>. QED BY <1>0, <1>1, <1>2 DEF Data, Same, CommandFields

LEMMA BreakStreamEffect ==
  ASSUME Shape, NEW c \in Jobs, BreakStream(c)
  PROVE  /\ Moved(c) /\ Same(c, (Data \ {"buffer"}) \cup {"pc"})
         /\ command[c].pc = "run" /\ command'[c].buffer = {}
         /\ (command[c].buffer = {} /\ UNCHANGED <<logs, lossy>>) \/ Drop(c)
  <1> DEFINE g == [command[c] EXCEPT !.connected = FALSE, !.buffer = {}]
  <1>0. DOMAIN command[c] = CommandFields
    BY DEF Shape
  <1>1. Update(c, g) /\ command[c].pc = "run" /\ ((command[c].buffer = {} /\ UNCHANGED <<logs, lossy>>) \/ Drop(c))
    BY DEF BreakStream, At
  <1>2. Moved(c) /\ command'[c] = g
    BY <1>0, <1>1, Replaced
  <1>3. Same(c, (Data \ {"buffer"}) \cup {"pc"}) /\ command'[c].buffer = {}
    BY <1>0, <1>2 DEF Data, Same, CommandFields
  <1>. QED BY <1>1, <1>2, <1>3

\* The end of a process, however it comes.
LEMMA EndEffect ==
  ASSUME Shape, NEW c \in Jobs, Exit(c) \/ Timeout(c) \/ ReadersEnd(c), command[c].outcome \in Outcomes
  PROVE  /\ Moved(c) /\ Same(c, Data \ {"outcome"}) /\ command[c].pc = "run"
         /\ command'[c].pc \in {"run", "close"} /\ command'[c].outcome \in Outcomes
  <1>0. DOMAIN command[c] = CommandFields /\ job[c].exit \in Outcomes
    BY DEF Shape, IsJob
  <1>1. CASE Exit(c) \/ Timeout(c)
    <2>1. PICK outcome \in Outcomes : Update(c, [command[c] EXCEPT !.ended = TRUE, !.outcome = outcome])
      BY <1>0, <1>1 DEF Exit, Timeout, Outcomes
    <2> DEFINE g == [command[c] EXCEPT !.ended = TRUE, !.outcome = outcome]
    <2>2. Moved(c) /\ command'[c] = g
      BY <1>0, <2>1, Replaced
    <2>3. Same(c, (Data \ {"outcome"}) \cup {"pc"}) /\ command'[c].outcome = outcome
      BY <1>0, <2>2 DEF Data, Same, CommandFields
    <2>. QED BY <1>1, <2>2, <2>3 DEF Exit, Timeout, At, Same
  <1>2. CASE ReadersEnd(c)
    <2>1. PICK outcome \in Outcomes : Update(c, [command[c] EXCEPT !.pc = "close", !.outcome = outcome])
      BY <1>0, <1>2 DEF ReadersEnd, Outcomes
    <2> DEFINE g == [command[c] EXCEPT !.pc = "close", !.outcome = outcome]
    <2>2. Moved(c) /\ command'[c] = g
      BY <1>0, <2>1, Replaced
    <2>3. Same(c, Data \ {"outcome"}) /\ command'[c].outcome = outcome /\ command'[c].pc = "close"
      BY <1>0, <2>2 DEF Data, Same, CommandFields
    <2>. QED BY <1>2, <2>2, <2>3 DEF ReadersEnd, At
  <1>. QED BY <1>1, <1>2

LEMMA CloseEffect ==
  ASSUME Shape, NEW c \in Jobs, NEW stored, CloseLogs(c, stored)
  PROVE  /\ Moved(c) /\ Same(c, Data \ {"buffer"}) /\ command[c].pc = "close"
         /\ command'[c].pc = "submit" /\ command'[c].buffer = {}
         /\ Store(c, command[c].buffer) \/ Drop(c)
  <1> DEFINE g == [command[c] EXCEPT !.pc = "submit", !.connected = FALSE, !.buffer = {}]
  <1>0. DOMAIN command[c] = CommandFields
    BY DEF Shape
  <1>1. Update(c, g) /\ command[c].pc = "close" /\ (Store(c, command[c].buffer) \/ Drop(c))
    BY DEF CloseLogs, At, FinalFlush
  <1>2. Moved(c) /\ command'[c] = g
    BY <1>0, <1>1, Replaced
  <1>3. Same(c, Data \ {"buffer"}) /\ command'[c].pc = "submit" /\ command'[c].buffer = {}
    BY <1>0, <1>2 DEF Data, Same, CommandFields
  <1>. QED BY <1>1, <1>2, <1>3

LEMMA ResultEffect ==
  ASSUME Shape, NEW c \in Jobs, SaveResult(c)
  PROVE  /\ Moved(c) /\ Same(c, Data) /\ command[c].pc = "submit"
         /\ \/ command'[c].pc = "mark" /\ Exists(command[c].id)
               /\ results' = results \cup {[command |-> c, agent |-> command[c].id,
                                            outcome |-> command[c].outcome]}
            \/ command'[c].pc \in {"exit", "lost"} /\ UNCHANGED results
  <1>1. command[c].pc = "submit"
    BY DEF SaveResult, At
  <1>2. CASE Exists(command[c].id)
    BY <1>1, <1>2, GotoEffect DEF SaveResult
  <1>3. CASE ~ Exists(command[c].id)
    <2>1. PICK pc \in {"exit", "lost"} : Goto(c, pc) /\ UNCHANGED results
      BY <1>3 DEF SaveResult, AfterCall
    <2>. QED BY <1>1, <2>1, GotoEffect
  <1>. QED BY <1>2, <1>3

LEMMA MarkEffect ==
  ASSUME Shape, NEW c \in Jobs, MarkCompleted(c)
  PROVE  /\ Moved(c) /\ Same(c, Data) /\ command[c].pc = "mark" /\ command'[c].pc = "publish"
         /\ ToPublish(ResultOf(c), Task(c), StatusAfter(c))
  BY GotoEffect DEF MarkCompleted, At

LEMMA FinishEffect ==
  ASSUME Shape, NEW c \in Jobs, FinishCall(c)
  PROVE  /\ Moved(c) /\ Same(c, Data) /\ command[c].pc = "publish" /\ Idle(ResultOf(c))
         /\ command'[c].pc \in {"exit", "over"}
  <1>1. PICK pc \in {"exit", "over"} : Goto(c, pc)
    BY DEF FinishCall, AfterCall
  <1>. QED BY <1>1, GotoEffect DEF FinishCall, At

LEMMA FailsEffect ==
  ASSUME Shape, NEW c \in Jobs, CallFails(c)
  PROVE  /\ Moved(c) /\ Same(c, Data) /\ command[c].pc \in {"submit", "mark"}
         /\ command'[c].pc \in {"exit", "lost"}
  <1>1. PICK pc \in {"exit", "lost"} : Goto(c, pc)
    BY DEF CallFails, AfterCall
  <1>. QED BY <1>1, GotoEffect DEF CallFails, At

LEMMA StepFailsEffect ==
  ASSUME Shape, NEW c \in Jobs, StepFails(c)
  PROVE  /\ Moved(c) /\ Same(c, Data \ {"outcome"}) /\ command'[c].outcome = "FAILED"
         /\ command[c].pc \in {"package", "target", "apply", "open"} /\ command'[c].pc = "submit"
  <1>1. Submit(c, "FAILED") /\ command[c].pc \in {"package", "target", "apply", "open"}
    BY DEF StepFails
  <1>2. Moved(c) /\ Same(c, Data \ {"outcome"}) /\ command'[c].pc = "submit" /\ command'[c].outcome = "FAILED"
    BY <1>1, SubmitEffect
  <1>. QED BY <1>1, <1>2

Ended(h, c) == Host(c) = h /\ command[c].pc \in OnAgent
LEMMA AgentEndsEffect ==
  ASSUME Shape, NEW h, AgentEnds(h)
  PROVE  /\ DOMAIN command' = Jobs /\ \A c \in Jobs : DOMAIN command'[c] = CommandFields
         /\ \A c \in Jobs : IF Ended(h, c)
              THEN /\ Same(c, {"id", "left", "reading", "chunk", "wait", "outcome"})
                   /\ command'[c].pc = IF command[c].pc = "exit" THEN "over" ELSE "lost"
                   /\ command'[c].path = {} /\ command'[c].buffer = {}
              ELSE command'[c] = command[c]
         /\ spoiled' = spoiled \cup UNION {command[c].path : c \in {d \in Jobs : Ended(h, d)}}
         /\ \A c \in Jobs : Ended(h, c) /\ command[c].buffer # {} => c \in lossy'
         /\ lossy \subseteq lossy' /\ lossy' \subseteq lossy \cup Jobs
  <1> DEFINE ended == {c \in Jobs : Host(c) = h /\ command[c].pc \in OnAgent}
             stop(c) == [command[c] EXCEPT !.pc = IF @ = "exit" THEN "over" ELSE "lost",
                                           !.path = {}, !.buffer = {}, !.connected = FALSE]
  <1>1. /\ command' = [c \in Jobs |-> IF c \in ended THEN stop(c) ELSE command[c]]
        /\ spoiled' = spoiled \cup UNION {command[c].path : c \in ended}
        /\ lossy' = lossy \cup {c \in ended : command[c].pc = "run" \/ command[c].buffer # {}}
    BY DEF AgentEnds, EndCommands
  <1>2. ASSUME NEW c \in Jobs
        PROVE  /\ DOMAIN stop(c) = CommandFields
               /\ stop(c).pc = IF command[c].pc = "exit" THEN "over" ELSE "lost"
               /\ stop(c).path = {} /\ stop(c).buffer = {}
               /\ \A n \in {"id", "left", "reading", "chunk", "wait", "outcome"} : stop(c)[n] = command[c][n]
    BY DEF Shape, CommandFields
  <1> HIDE DEF stop
  <1>3. ASSUME NEW c \in Jobs
        PROVE  (c \in ended) = Ended(h, c)
    BY DEF Ended
  <1>4. ended = {d \in Jobs : Ended(h, d)}
    BY DEF Ended
  <1>5. DOMAIN command' = Jobs /\ \A c \in Jobs : DOMAIN command'[c] = CommandFields
    BY <1>1, <1>2 DEF Shape
  <1>6. ASSUME NEW c \in Jobs
        PROVE  command'[c] = IF Ended(h, c) THEN stop(c) ELSE command[c]
    BY <1>1, <1>3
  <1>7. ASSUME NEW c \in Jobs
        PROVE  IF Ended(h, c)
              THEN /\ Same(c, {"id", "left", "reading", "chunk", "wait", "outcome"})
                   /\ command'[c].pc = IF command[c].pc = "exit" THEN "over" ELSE "lost"
                   /\ command'[c].path = {} /\ command'[c].buffer = {}
              ELSE command'[c] = command[c]
    BY <1>2, <1>6 DEF Same
  <1>8. /\ \A c \in Jobs : Ended(h, c) /\ command[c].buffer # {} => c \in lossy'
        /\ lossy \subseteq lossy' /\ lossy' \subseteq lossy \cup Jobs
    BY <1>1, <1>3
  <1>9. spoiled' = spoiled \cup UNION {command[c].path : c \in {d \in Jobs : Ended(h, d)}}
    BY <1>1, <1>4
  <1>. QED BY <1>5, <1>7, <1>8, <1>9

-----------------------------------------------------------------------------
(* Where a goroutine is. *)

Base == Shape /\ \A c \in Jobs : Control(c)

LEMMA CommandMoves ==
  ASSUME Shape, NEW c \in Jobs, command[c].outcome \in Outcomes, CommandAct(c)
  PROVE  Moved(c) \/ ((Assign(c) \/ Acknowledge(c)) /\ command' = command)
  <1>1. CASE FileAct(c)
    BY <1>1, TargetEffect, ChunkEffect, WriteFailsEffect, ApplyEffect DEF FileAct
  <1>2. CASE LogAct(c)
    BY <1>2, BreakStreamEffect, FillPipeEffect, ReadLineEffect, CloseEffect DEF LogAct
  <1>3. CASE StreamAct(c)
    BY <1>3, SendEffect DEF StreamAct, Assign, Acknowledge
  <1>4. CASE ControlAct(c)
    BY <1>4, StartEffect, PackageEffect, StepFailsEffect, OpenLogsEffect, EndEffect, FinishEffect,
       FailsEffect DEF ControlAct
  <1>5. CASE SaveResult(c)
    BY <1>5, ResultEffect
  <1>6. CASE MarkCompleted(c)
    BY <1>6, MarkEffect
  <1>7. Assign(c) \/ Acknowledge(c) => command' = command
    BY DEF Assign, Acknowledge
  <1>. QED BY <1>1, <1>2, <1>3, <1>4, <1>5, <1>6, <1>7 DEF CommandAct, StreamAct

LEMMA DiskDomain ==
  ASSUME Shape, NEW c \in Jobs, CommandAct(c)
  PROVE  DOMAIN disk' = DOMAIN disk /\ DOMAIN handler' = DOMAIN handler
  <1>1. FileAct(c) => DOMAIN disk' = DOMAIN disk
    BY TargetEffect, ChunkEffect, WriteFailsEffect, ApplyEffect DEF FileAct
  <1>2. DOMAIN handler' = DOMAIN handler
    BY CommandFrame DEF StreamAct, Send, Assign, Acknowledge
  <1>. QED BY <1>1, <1>2, CommandFrame

LEMMA ShapeStep ==
  ASSUME Base, JobsOnHosts, [FleetNext]_vars
  PROVE  Shape'
  <1>0. job' = job
    BY JobsStep
  <1>1. /\ DOMAIN command' = Jobs /\ DOMAIN handler' = Jobs /\ DOMAIN disk' = DOMAIN disk
        /\ \A c \in Jobs : DOMAIN command'[c] = CommandFields
    <2>1. ASSUME NEW c \in Jobs, CommandAct(c)
          PROVE  <1>1
      <3>1. command[c].outcome \in Outcomes
        BY DEF Base, Control
      <3>2. Moved(c) \/ command' = command
        BY <2>1, <3>1, CommandMoves DEF Base
      <3>. QED BY <2>1, <3>2, DiskDomain DEF Base, Shape, Moved
    <2>2. ASSUME NEW h, AgentEnds(h)
          PROVE  <1>1
      BY <2>2, EndFrame, AgentEndsEffect DEF Base, Shape
    <2>3. CASE UNCHANGED <<command, handler, disk>>
      BY <2>3 DEF Base, Shape
    <2>4. \/ \E c \in Jobs : CommandAct(c)
          \/ \E h : AgentEnds(h)
          \/ UNCHANGED <<command, handler, disk>>
      BY Steps DEF RemoveAgent, CleanUp, RowAct, runtimeVars, fileVars
    <2>. QED BY <2>1, <2>2, <2>3, <2>4
  <1>. QED BY <1>0, <1>1 DEF Base, Shape, Jobs

\* A step of one goroutine leaves the others where they are.
LEMMA ControlFrame ==
  ASSUME Base, NEW c \in Jobs, NEW d \in Jobs, command'[d] = command[d], handler'[d] = handler[d], job' = job
  PROVE  Control(d)'
  BY DEF Base, Control, Type, Host, Jobs, Targets, IsJob

LEMMA NoLines ==
  Cardinality({}) < BufferLimit
  BY FS_EmptySet, BufferAssumption

LEMMA FileControl ==
  ASSUME Base, job' = job, handler' = handler, NEW c \in Jobs, FileAct(c)
  PROVE  Control(c)'
  <1>. USE DEF Base
  <1>0. Control(c) /\ IsJob(job[c])
    BY DEF Shape
  <1>1. CASE OpenTarget(c)
    <2>1. ASSUME NEW name \in command[c].wait
          PROVE  PathOf(c, name) \in Targets(job[c])
      BY <1>0, <1>1, TargetEffect DEF Control, PathOf, Targets, Type, Host
    <2>. QED BY <1>0, <1>1, <2>1, TargetEffect DEF Control, Type, Same, Outcomes, OnAgent
  <1>2. CASE WriteChunk(c)
    BY <1>0, <1>2, ChunkEffect DEF Control, Type, Same, Outcomes, OnAgent
  <1>3. CASE WriteFails(c)
    BY <1>0, <1>3, WriteFailsEffect DEF Control, Type, Same, Outcomes, OnAgent
  <1>4. CASE ApplyUpdate(c)
    BY <1>0, <1>4, ApplyEffect DEF Control, Type, Same, Data, Outcomes, OnAgent
  <1>. QED BY <1>1, <1>2, <1>3, <1>4 DEF FileAct

LEMMA LogControl ==
  ASSUME Base, job' = job, handler' = handler, NEW c \in Jobs, LogAct(c)
  PROVE  Control(c)'
  <1>. USE DEF Base
  <1>0. Control(c) /\ IsJob(job[c])
    BY DEF Shape
  <1>1. CASE BreakStream(c)
    <2>1. /\ command[c].pc = "run" /\ command'[c].buffer = {}
          /\ Same(c, {"pc", "reading", "wait", "left", "path", "outcome"})
      BY <1>1, BreakStreamEffect DEF Same, Data
    <2>. QED BY <1>0, <2>1, NoLines DEF Control, Type, Same
  <1>2. ASSUME NEW s \in Readers, command'[c].left = [command[c].left EXCEPT ![s] = @ - 1], command[c].left[s] > 0
        PROVE  /\ command'[c].left \in [Readers -> Nat]
               /\ \A r \in Readers : command'[c].left[r] <= job[c].lines[r]
    BY <1>0, <1>2 DEF Control, IsJob
  <1>3. ASSUME NEW s \in Readers, FillPipe(c, s)
        PROVE  Control(c)'
    <2>1. /\ command'[c].left \in [Readers -> Nat]
          /\ \A r \in Readers : command'[c].left[r] <= job[c].lines[r]
      BY <1>2, <1>3, FillPipeEffect
    <2>2. /\ command[c].pc = "run"
          /\ Same(c, {"pc", "reading", "wait", "buffer", "path", "outcome"})
      BY <1>3, FillPipeEffect DEF Same, Data
    <2>. QED BY <1>0, <2>1, <2>2 DEF Control, Type, Same
  <1>4. ASSUME NEW s \in Readers, NEW stored, ReadLine(c, s, stored)
        PROVE  Control(c)'
    <2>1. /\ command'[c].left \in [Readers -> Nat]
          /\ \A r \in Readers : command'[c].left[r] <= job[c].lines[r]
      BY <1>2, <1>4, ReadLineEffect
    <2>2. /\ Cardinality(command'[c].buffer) < BufferLimit
          /\ \A line \in command'[c].buffer : line[1] \in Readers
      <3>1. /\ Cardinality(command[c].buffer) < BufferLimit
            /\ \A line \in command[c].buffer : line[1] \in Readers
        BY <1>0 DEF Control
      <3>2. \A line \in Buffered(c, LineOf(c, s)) : line[1] \in Readers
        BY <3>1 DEF Buffered, LineOf
      <3>3. \/ command'[c].buffer = command[c].buffer \/ command'[c].buffer = {}
            \/ command'[c].buffer = Buffered(c, LineOf(c, s)) /\ HasRoom(Buffered(c, LineOf(c, s)))
        BY <1>4, ReadLineEffect
      <3>. QED BY <3>1, <3>2, <3>3, NoLines DEF HasRoom
    <2>3. /\ Same(c, {"pc", "id", "path", "chunk", "wait", "outcome"}) /\ command[c].pc = "run"
          /\ command'[c].reading \subseteq command[c].reading
      BY <1>4, ReadLineEffect
    <2>. QED BY <1>0, <2>1, <2>2, <2>3 DEF Control, Type, Same
  <1>5. ASSUME NEW stored, CloseLogs(c, stored)
        PROVE  Control(c)'
    <2>1. /\ command[c].pc = "close" /\ command'[c].pc = "submit" /\ command'[c].buffer = {}
          /\ Same(c, {"reading", "wait", "left", "path", "outcome"})
      BY <1>5, CloseEffect DEF Same, Data
    <2>. QED BY <1>0, <2>1, NoLines DEF Control, Type, Same, OnAgent
  <1>. QED BY <1>1, <1>3, <1>4, <1>5 DEF LogAct

LEMMA StreamControl ==
  ASSUME Base, job' = job, NEW c \in Jobs, StreamAct(c)
  PROVE  Control(c)'
  <1>. USE DEF Base
  <1>0. Control(c) /\ IsJob(job[c]) /\ DOMAIN handler = Jobs
    BY DEF Shape
  <1>1. CASE Send(c)
    <2>1. LET g == command'[c] IN
          /\ g.pc = "start" /\ g.left = job[c].lines /\ g.reading = {}
          /\ g.buffer = {} /\ g.path = {} /\ g.wait = {} /\ g.outcome = "FAILED"
          /\ handler'[c] = "assign"
      BY <1>0, <1>1, SendEffect
    <2>2. /\ command'[c].left \in [Readers -> Nat]
          /\ \A s \in Readers : command'[c].left[s] <= job[c].lines[s]
      BY <1>0, <2>1 DEF IsJob
    <2>. QED BY <1>0, <2>1, <2>2, NoLines DEF Control, Type, OnAgent, Outcomes
  <1>2. CASE Assign(c) \/ Acknowledge(c)
    BY <1>0, <1>2 DEF Assign, Acknowledge, Control, Type
  <1>. QED BY <1>1, <1>2 DEF StreamAct

LEMMA OtherControl ==
  ASSUME Base, job' = job, handler' = handler, NEW c \in Jobs,
         ControlAct(c) \/ SaveResult(c) \/ MarkCompleted(c)
  PROVE  Control(c)'
  <1>. USE DEF Base, Control, Type, Same, Data, OnAgent, OnServer
  <1>0. Control(c) /\ IsJob(job[c])
    BY DEF Shape
  <1>1. CASE Start(c)
    <2>1. /\ command[c].pc = "start" /\ command'[c].wait \subseteq job[c].files
          /\ Same(c, {"reading", "left", "path", "buffer", "outcome"})
          /\ command'[c].pc = "submit" \/ command'[c].pc = FirstPC[Type(c)]
      <3>1. /\ command[c].pc = "start" /\ Same(c, Data \ {"wait"})
            /\ \/ command'[c].pc = FirstPC[Type(c)] /\ command'[c].wait = job[c].files
               \/ command'[c].pc = "submit" /\ command'[c].wait \subseteq job[c].files
        BY <1>0, <1>1, StartEffect
      <3>. QED BY <1>0, <3>1
    <2>2. Type(c) \in {"EXEC_COMMAND", "EXEC_PYTHON_SCRIPT", "PUSH_FILE", "FETCH_FILE", "AGENT_UPDATE"}
      BY <1>0 DEF IsJob
    <2>. QED BY <1>0, <2>1, <2>2 DEF FirstPC
  <1>2. CASE ReadPackageFile(c)
    <2>1. /\ command[c].pc = "package" /\ command'[c].wait \subseteq job[c].files
          /\ Same(c, {"reading", "left", "path", "buffer"})
          /\ \/ command'[c].pc = "submit" /\ command'[c].outcome = "FAILED"
             \/ command'[c].pc \in {"package", AfterPackage[Type(c)]} /\ Same(c, {"outcome"})
      BY <1>0, <1>2, PackageEffect
    <2>. QED BY <1>0, <2>1 DEF AfterPackage, Outcomes
  <1>3. CASE StepFails(c)
    BY <1>0, <1>3, StepFailsEffect DEF Outcomes
  <1>4. CASE OpenLogs(c)
    BY <1>0, <1>4, OpenLogsEffect DEF Outcomes
  <1>5. CASE Exit(c) \/ Timeout(c) \/ ReadersEnd(c)
    BY <1>0, <1>5, EndEffect
  <1>6. CASE FinishCall(c)
    BY <1>0, <1>6, FinishEffect
  <1>7. CASE CallFails(c)
    BY <1>0, <1>7, FailsEffect
  <1>8. CASE SaveResult(c)
    BY <1>0, <1>8, ResultEffect
  <1>9. CASE MarkCompleted(c)
    BY <1>0, <1>9, MarkEffect
  <1>. QED BY <1>1, <1>2, <1>3, <1>4, <1>5, <1>6, <1>7, <1>8, <1>9 DEF ControlAct

LEMMA ControlStep ==
  ASSUME Base, JobsOnHosts, [FleetNext]_vars, NEW d \in Jobs
  PROVE  Control(d)'
  <1>0. job' = job /\ Control(d)
    BY JobsStep DEF Base
  <1>1. ASSUME NEW c \in Jobs, CommandAct(c)
        PROVE  Control(d)'
    <2>1. StreamAct(c) \/ handler' = handler
      BY <1>1, CommandFrame
    <2>2. Control(c)'
      BY <1>0, <1>1, <2>1, FileControl, LogControl, StreamControl, OtherControl DEF CommandAct
    <2>3. CASE d # c
      <3>1. handler'[d] = handler[d]
        BY <2>1, <2>3 DEF StreamAct, Send, Assign, Acknowledge, Base, Shape
      <3>2. command[c].outcome \in Outcomes
        BY DEF Base, Control
      <3>3. command'[d] = command[d]
        BY <1>1, <2>3, <3>2, CommandMoves DEF Base, Moved
      <3>. QED BY <1>0, <3>1, <3>3, ControlFrame
    <2>. QED BY <2>2, <2>3
  <1>2. ASSUME NEW h, AgentEnds(h)
        PROVE  Control(d)'
    <2>1. handler' = handler
      BY <1>2, EndFrame
    <2>2. CASE ~ Ended(h, d)
      BY <1>0, <1>2, <2>1, <2>2, AgentEndsEffect, ControlFrame DEF Base
    <2>3. CASE Ended(h, d)
      <3>1. /\ Same(d, {"reading", "left", "wait", "outcome"})
            /\ command'[d].pc \in {"over", "lost"} /\ command'[d].path = {} /\ command'[d].buffer = {}
        BY <1>2, <2>3, AgentEndsEffect DEF Base, Same
      <3>. QED BY <1>0, <2>1, <3>1, NoLines DEF Control, Same, Type
    <2>. QED BY <2>2, <2>3
  <1>3. CASE UNCHANGED <<command, handler>>
    BY <1>0, <1>3, ControlFrame
  <1>4. \/ \E c \in Jobs : CommandAct(c)
        \/ \E h : AgentEnds(h)
        \/ UNCHANGED <<command, handler>>
    BY Steps DEF RemoveAgent, CleanUp, RowAct, runtimeVars
  <1>. QED BY <1>1, <1>2, <1>3, <1>4

LEMMA BaseInit ==
  ASSUME FleetInit
  PROVE  Base
  <1>1. PICK plan \in Plans : RuntimeInit(plan.jobs, plan.files)
    BY DEF FleetInit
  <1>2. /\ job = plan.jobs /\ DOMAIN disk = plan.files /\ DOMAIN command = Jobs /\ DOMAIN handler = Jobs
        /\ \A c \in Jobs : command[c] = NewCommand(NoId, "idle") /\ handler[c] = "idle"
    BY <1>1 DEF RuntimeInit, Jobs
  <1>3. ASSUME NEW c \in Jobs
        PROVE  c \in Commands /\ IsJob(job[c]) /\ Targets(job[c]) \subseteq DOMAIN disk
    BY <1>2, PlanAssumption DEF Jobs
  <1>4. Shape
    BY <1>2, <1>3 DEF Shape, NewCommand, CommandFields
  <1>5. ASSUME NEW c \in Jobs
        PROVE  Control(c)
    <2>1. /\ command[c].pc = "idle" /\ command[c].path = {} /\ command[c].buffer = {} /\ handler[c] = "idle"
          /\ command[c].reading = {} /\ command[c].wait = {} /\ command[c].outcome = "FAILED"
          /\ command[c].left = [s \in Readers |-> 0]
      BY <1>2 DEF NewCommand
    <2>2. job[c].lines \in [Readers -> Nat]
      BY <1>3 DEF IsJob
    <2>. QED BY <2>1, <2>2, NoLines DEF Control, Outcomes
  <1>. QED BY <1>4, <1>5 DEF Base

LEMMA BaseInvariant == FleetSpec => [](PInv /\ JobsOnHosts /\ Base)
  <1>1. FleetInit => PInv /\ JobsOnHosts /\ Base
    BY InitInvariant, BaseInit
  <1>2. PInv /\ JobsOnHosts /\ Base /\ [FleetNext]_vars => (PInv /\ JobsOnHosts /\ Base)'
    <2>. SUFFICES ASSUME PInv, JobsOnHosts, Base, [FleetNext]_vars
                  PROVE  (PInv /\ JobsOnHosts /\ Base)'
      OBVIOUS
    <2>1. PInv' /\ JobsOnHosts' /\ Shape' /\ job' = job
      BY StepInvariant, ShapeStep, JobsStep
    <2>2. \A d \in Jobs : Control(d)'
      BY ControlStep
    <2>3. \A d \in Jobs' : Control(d)'
      BY <2>1, <2>2 DEF Jobs
    <2>. QED BY <2>1, <2>3 DEF Base
  <1>. QED BY <1>1, <1>2, PTL DEF FleetSpec

-----------------------------------------------------------------------------
(* Files. *)

\* What files contain.
DiskInv ==
  /\ \A c \in Jobs : Writing(c)
  /\ \A d \in delivered : d[1] \in Jobs /\ (d[3] = Whole(d[1]) \/ d[1] \in shared)
  /\ \A f \in DOMAIN disk :
       Writers(f) = {} /\ f \notin spoiled => disk[f] = <<Old>> \/ \E c \in Jobs : disk[f] = Whole(c)
  /\ spoiled \subseteq DOMAIN disk /\ shared \subseteq Jobs

\* A result that says that a transfer has succeeded comes from one that has delivered all.
Transferred(c) ==
  \/ Type(c) \notin {"FETCH_FILE", "PUSH_FILE"}
  \/ Type(c) = "FETCH_FILE" /\ job[c].chunks = 0
  \/ Done(c) = PathsOf(c, job[c].files)
ResultRows ==
  \A r \in results : /\ r.command \in Jobs /\ r.outcome \in Outcomes
                     /\ command[r.command].pc \in After
                     /\ r.outcome = "SUCCESS" => Transferred(r.command)
FileInv == DiskInv /\ ResultRows /\ \A c \in Jobs : Progress(c)

LEMMA EmptyPrefix ==
  ASSUME NEW c
  PROVE  [i \in 1..0 |-> c] = <<>>
  OBVIOUS

\* The next chunk of a file that contains the ones before it.
LEMMA NextChunk ==
  ASSUME NEW c, NEW k \in Nat \ {0}
  PROVE  WriteAt([i \in 1..(k - 1) |-> c], k, c) = [i \in 1..k |-> c]
  <1> DEFINE s == [i \in 1..(k - 1) |-> c]
  <1>1. s \in Seq({c}) /\ Len(s) = k - 1
    OBVIOUS
  <1>2. WriteAt(s, k, c) = [i \in 1..k |-> IF i = k THEN c ELSE IF i <= k - 1 THEN s[i] ELSE Hole]
    BY <1>1 DEF WriteAt
  <1>3. \A i \in 1..k : (IF i = k THEN c ELSE IF i <= k - 1 THEN s[i] ELSE Hole) = c
    OBVIOUS
  <1>. QED BY <1>2, <1>3

LEMMA WritersMoved ==
  ASSUME job' = job, NEW c \in Jobs, Moved(c), NEW f
  PROVE  Writers(f)' = (Writers(f) \ {c}) \cup (IF f \in command'[c].path THEN {c} ELSE {})
  BY DEF Writers, Moved, Jobs

\* Nobody writes the binary of an agent but an update, and that at once.
LEMMA BinaryAlone ==
  ASSUME Base, NEW c \in Jobs
  PROVE  Writers(Binary(c)) = {}
  <1>1. ASSUME NEW d \in Jobs
        PROVE  Binary(c) \notin command[d].path
    <2>1. CASE command[d].pc # "write"
      BY <2>1 DEF Base, Control
    <2>2. CASE command[d].pc = "write"
      <3>1. /\ Type(d) \in {"PUSH_FILE", "FETCH_FILE"}
            /\ job[d].type = "PUSH_FILE" => job[d].destination # "agent"
            /\ command[d].path \subseteq Targets(job[d])
        BY <2>2 DEF Base, Shape, Control, IsJob, Type
      <3>2. CASE Type(d) = "PUSH_FILE"
        <4>1. Targets(job[d]) = {<<job[d].host, job[d].destination, name>> : name \in job[d].files}
          BY <3>2 DEF Targets, Type
        <4>. QED BY <3>1, <3>2, <4>1 DEF Binary, Type
      <3>3. CASE Type(d) = "FETCH_FILE"
        <4>1. Targets(job[d]) = {<<"server", job[d].destination>>}
          BY <3>3 DEF Targets, Type
        <4>2. \A a, b, x, y, z : <<a, b>> # <<x, y, z>>
          OBVIOUS
        <4>. QED BY <3>1, <4>1, <4>2 DEF Binary
      <3>. QED BY <3>1, <3>2, <3>3
    <2>. QED BY <2>1, <2>2
  <1>. QED BY <1>1 DEF Writers

\* A step that neither opens nor closes a file.
LEMMA FilesKept ==
  ASSUME Base, DiskInv, job' = job, UNCHANGED <<disk, delivered, spoiled, shared>>,
         \A d \in Jobs : command'[d].path = command[d].path,
         \A d \in Jobs : command[d].path # {} => command'[d].chunk = command[d].chunk
  PROVE  DiskInv'
  <1>1. \A f : Writers(f)' = Writers(f)
    BY DEF Writers, Jobs
  <1>2. Jobs' = Jobs /\ \A c : Whole(c)' = Whole(c)
    BY DEF Jobs, Whole
  <1>3. ASSUME NEW d \in Jobs
        PROVE  Writing(d)'
    BY <1>1 DEF DiskInv, Writing, Prefix
  <1>. QED BY <1>1, <1>2, <1>3 DEF DiskInv

LEMMA TargetWriting ==
  ASSUME Base, DiskInv, job' = job, NEW c \in Jobs, OpenTarget(c)
  PROVE  DiskInv'
  <1> DEFINE opens(f) ==
               /\ command'[c].pc = "write" /\ command'[c].path = {f} /\ command'[c].chunk = 1
               /\ disk' = [disk EXCEPT ![f] = <<>>]
               /\ shared' = IF Writers(f) = {} THEN shared ELSE shared \cup Writers(f) \cup {c}
               /\ spoiled' = IF Writers(f) = {} THEN spoiled \ {f} ELSE spoiled \cup {f}
  <1>0. /\ Moved(c) /\ command[c].path = {} /\ delivered' = delivered
        /\ \A d \in Jobs \ {c} : command'[d] = command[d]
    BY TargetEffect DEF Base, Control, Moved
  <1>1. CASE UNCHANGED <<disk, shared, spoiled>> /\ Same(c, {"path", "chunk", "wait"})
    BY <1>0, <1>1, FilesKept DEF Same
  <1>2. CASE \E f : opens(f)
    <2>1. PICK f : opens(f)
      BY <1>2
    <2>2. Writers(f)' = Writers(f) \cup {c} /\ c \notin Writers(f) /\ Writers(f) \subseteq Jobs
      BY <1>0, <2>1, WritersMoved DEF Writers
    <2>3. \A g : g # f => Writers(g)' = Writers(g)
      BY <1>0, <2>1, WritersMoved DEF Writers
    <2>4. f \in DOMAIN disk
      <3>1. Control(c)'
        <4>1. handler' = handler
          BY CommandFrame DEF CommandAct, FileAct, OpenTarget
        <4>. QED BY <4>1, FileControl DEF FileAct
      <3>2. f \in Targets(job[c])
        BY <2>1, <3>1 DEF Control
      <3>. QED BY <3>2 DEF Base, Shape
    <2>5. Jobs' = Jobs /\ \A d : Whole(d)' = Whole(d)
      BY DEF Jobs, Whole
    <2>6. Writing(c)'
      <3>1. disk'[f] = <<>> /\ f \in command'[c].path
        BY <2>1, <2>4
      <3>2. Prefix(c)' = <<>>
        BY <2>1, EmptyPrefix DEF Prefix
      <3>3. job[c].chunks \in Nat
        BY DEF Base, Shape, IsJob
      <3>. QED BY <2>1, <2>2, <3>1, <3>2, <3>3 DEF Writing
    <2>7. ASSUME NEW d \in Jobs \ {c}
          PROVE  Writing(d)'
      <3>1. ASSUME NEW g \in command'[d].path
            PROVE  /\ command'[d].chunk \in Nat \ {0} /\ command'[d].chunk <= job'[d].chunks + 1
                   /\ d \notin shared' => g \notin spoiled'
                   /\ g \notin spoiled' => Writers(g)' = {d} /\ disk'[g] = Prefix(d)'
        <4>1. g \in command[d].path /\ d \in Writers(g)
          BY <1>0, <3>1 DEF Writers
        <4>2. /\ command[d].chunk \in Nat \ {0} /\ command[d].chunk <= job[d].chunks + 1
              /\ d \notin shared => g \notin spoiled
              /\ g \notin spoiled => Writers(g) = {d} /\ disk[g] = Prefix(d)
          BY <4>1 DEF DiskInv, Writing
        <4>3. Prefix(d)' = Prefix(d)
          BY <1>0 DEF Prefix
        <4>4. CASE g = f
          BY <1>0, <2>1, <4>1, <4>2, <4>4
        <4>5. CASE g # f
          <5>1. disk'[g] = disk[g]
            BY <2>1, <4>5
          <5>2. (g \in spoiled' <=> g \in spoiled) /\ shared \subseteq shared'
            BY <2>1, <4>5
          <5>. QED BY <1>0, <2>3, <4>2, <4>3, <4>5, <5>1, <5>2
        <4>. QED BY <4>4, <4>5
      <3>. QED BY <3>1 DEF Writing
    <2>8. \A d \in delivered' : d[1] \in Jobs' /\ (d[3] = Whole(d[1])' \/ d[1] \in shared')
      BY <1>0, <2>1, <2>5 DEF DiskInv
    <2>9. ASSUME NEW g \in DOMAIN disk', Writers(g)' = {}, g \notin spoiled'
          PROVE  disk'[g] = <<Old>> \/ \E d \in Jobs' : disk'[g] = Whole(d)'
      <3>1. g # f /\ g \in DOMAIN disk /\ disk'[g] = disk[g] /\ g \notin spoiled
        BY <2>1, <2>2, <2>9
      <3>. QED BY <2>3, <2>5, <2>9, <3>1 DEF DiskInv
    <2>10. spoiled' \subseteq DOMAIN disk' /\ shared' \subseteq Jobs'
      BY <2>1, <2>2, <2>4, <2>5 DEF DiskInv
    <2>. QED BY <2>5, <2>6, <2>7, <2>8, <2>9, <2>10 DEF DiskInv
  <1>3. \/ UNCHANGED <<disk, shared, spoiled>> /\ Same(c, {"path", "chunk", "wait"})
        \/ \E f : opens(f)
    BY TargetEffect DEF Base
  <1> HIDE DEF opens
  <1>. QED BY <1>1, <1>2, <1>3

LEMMA ChunkWriting ==
  ASSUME Base, DiskInv, job' = job, NEW c \in Jobs, WriteChunk(c)
  PROVE  DiskInv'
  <1> DEFINE writes(f) ==
               /\ ~ AllSent(c) /\ command'[c].path = {f} /\ command'[c].chunk = command[c].chunk + 1
               /\ disk' = [disk EXCEPT ![f] = WriteAt(@, command[c].chunk, c)] /\ UNCHANGED delivered
             closes(f) ==
               /\ AllSent(c) /\ command'[c].path = {}
               /\ delivered' = delivered \cup {<<c, f, disk[f]>>} /\ UNCHANGED disk
  <1>0. PICK f : command[c].path = {f} /\ f \in DOMAIN disk
    <2>1. command[c].pc = "write"
      BY ChunkEffect DEF Base
    <2>. QED BY <2>1 DEF Base, Shape, Control
  <1>1. writes(f) \/ closes(f)
    BY <1>0, ChunkEffect DEF Base, Same
  <1>2. /\ Moved(c) /\ UNCHANGED <<shared, spoiled>> /\ f \in command[c].path /\ c \in Writers(f)
        /\ \A d \in Jobs \ {c} : command'[d] = command[d]
    BY <1>0, ChunkEffect DEF Base, Moved, Writers
  <1>3. /\ command[c].chunk \in Nat \ {0} /\ command[c].chunk <= job[c].chunks + 1 /\ job[c].chunks \in Nat
        /\ c \notin shared => f \notin spoiled
        /\ f \notin spoiled => Writers(f) = {c} /\ disk[f] = Prefix(c)
    BY <1>0 DEF Base, Shape, IsJob, DiskInv, Writing
  <1>4. Jobs' = Jobs /\ \A d : Whole(d)' = Whole(d)
    BY DEF Jobs, Whole
  <1>5. ASSUME NEW d \in Jobs \ {c}, \A g : g # f => disk'[g] = disk[g] /\ Writers(g)' = Writers(g)
        PROVE  Writing(d)'
    <2>1. ASSUME NEW g \in command[d].path
          PROVE  /\ command[d].chunk \in Nat \ {0} /\ command[d].chunk <= job[d].chunks + 1
                 /\ d \notin shared => g \notin spoiled
                 /\ g \notin spoiled => Writers(g) = {d} /\ disk[g] = Prefix(d)
      BY DEF DiskInv, Writing
    <2>2. f \in command[d].path => f \in spoiled
      BY <1>2, <2>1
    <2>3. Prefix(d)' = Prefix(d)
      BY <1>2 DEF Prefix
    <2>. QED BY <1>2, <1>5, <2>1, <2>2, <2>3 DEF Writing
  <1>6. CASE writes(f)
    <2>1. \A g : Writers(g)' = Writers(g)
      BY <1>0, <1>2, <1>6, WritersMoved DEF Writers
    <2>2. \A g : g # f => disk'[g] = disk[g]
      BY <1>6
    <2>3. Writing(c)'
      <3>1. command[c].chunk <= job[c].chunks
        BY <1>3, <1>6 DEF AllSent
      <3>2. f \notin spoiled => disk'[f] = Prefix(c)'
        <4>1. disk'[f] = WriteAt(disk[f], command[c].chunk, c)
          BY <1>0, <1>6
        <4>2. Prefix(c)' = [i \in 1..command[c].chunk |-> c]
          BY <1>3, <1>6 DEF Prefix
        <4>3. WriteAt([i \in 1..(command[c].chunk - 1) |-> c], command[c].chunk, c)
                = [i \in 1..command[c].chunk |-> c]
          BY <1>3, NextChunk
        <4>. QED BY <1>3, <4>1, <4>2, <4>3 DEF Prefix
      <3>. QED BY <1>2, <1>3, <1>6, <2>1, <3>1, <3>2 DEF Writing
    <2>4. \A d \in Jobs : Writing(d)'
      BY <1>5, <2>1, <2>2, <2>3
    <2>5. ASSUME NEW g \in DOMAIN disk', Writers(g)' = {}, g \notin spoiled'
          PROVE  disk'[g] = <<Old>> \/ \E d \in Jobs' : disk'[g] = Whole(d)'
      <3>1. g \in DOMAIN disk /\ g # f
        BY <1>2, <1>6, <2>1, <2>5
      <3>. QED BY <1>2, <1>4, <2>1, <2>2, <2>5, <3>1 DEF DiskInv
    <2>6. DOMAIN disk' = DOMAIN disk
      BY <1>6
    <2>. QED BY <1>2, <1>4, <1>6, <2>4, <2>5, <2>6 DEF DiskInv
  <1>7. CASE closes(f)
    <2>1. Writers(f)' = Writers(f) \ {c} /\ \A g : g # f => Writers(g)' = Writers(g)
      BY <1>0, <1>2, <1>7, WritersMoved DEF Writers
    <2>2. f \notin spoiled => disk[f] = Whole(c)
      <3>1. command[c].chunk = job[c].chunks + 1
        BY <1>3, <1>7 DEF AllSent
      <3>. QED BY <1>3, <3>1 DEF Prefix, Whole
    <2>3. Writing(c)'
      BY <1>7 DEF Writing
    <2>4. \A d \in Jobs : Writing(d)'
      BY <1>5, <1>7, <2>1, <2>3
    <2>5. \A d \in delivered' : d[1] \in Jobs' /\ (d[3] = Whole(d[1])' \/ d[1] \in shared')
      BY <1>2, <1>3, <1>4, <1>7, <2>2 DEF DiskInv
    <2>6. ASSUME NEW g \in DOMAIN disk', Writers(g)' = {}, g \notin spoiled'
          PROVE  disk'[g] = <<Old>> \/ \E d \in Jobs' : disk'[g] = Whole(d)'
      <3>1. CASE g = f
        BY <1>2, <1>4, <1>7, <2>2, <2>6, <3>1
      <3>2. CASE g # f
        BY <1>2, <1>4, <1>7, <2>1, <2>6, <3>2 DEF DiskInv
      <3>. QED BY <3>1, <3>2
    <2>. QED BY <1>2, <1>4, <1>7, <2>4, <2>5, <2>6 DEF DiskInv
  <1> HIDE DEF writes, closes
  <1>. QED BY <1>1, <1>6, <1>7

\* Files that stop being written before they are whole are spoiled, and nothing else changes.
LEMMA StoppedWriting ==
  ASSUME Base, DiskInv, job' = job, NEW stopped \in SUBSET Jobs, UNCHANGED <<disk, delivered, shared>>,
         spoiled' = spoiled \cup UNION {command[c].path : c \in stopped},
         \A d \in stopped : command'[d].path = {},
         \A d \in Jobs \ stopped : command'[d] = command[d]
  PROVE  DiskInv'
  <1>1. Jobs' = Jobs /\ \A d : Whole(d)' = Whole(d)
    BY DEF Jobs, Whole
  <1>2. \A g : Writers(g)' = Writers(g) \ stopped
    BY DEF Writers, Jobs
  <1>3. ASSUME NEW g, g \notin spoiled'
        PROVE  g \notin spoiled /\ Writers(g)' = Writers(g)
    BY <1>2, <1>3 DEF Writers
  <1>4. ASSUME NEW d \in Jobs
        PROVE  Writing(d)'
    <2>1. CASE d \in stopped
      BY <2>1 DEF Writing
    <2>2. CASE d \notin stopped
      <3>1. command'[d] = command[d] /\ Prefix(d)' = Prefix(d)
        BY <2>2 DEF Prefix
      <3>2. ASSUME NEW g \in command[d].path
            PROVE  /\ command[d].chunk \in Nat \ {0} /\ command[d].chunk <= job[d].chunks + 1
                   /\ d \notin shared => g \notin spoiled
                   /\ g \notin spoiled => Writers(g) = {d} /\ disk[g] = Prefix(d)
        BY DEF DiskInv, Writing
      <3>3. ASSUME NEW g \in command[d].path, g \notin spoiled
            PROVE  g \notin spoiled'
        BY <2>2, <3>2, <3>3 DEF Writers
      <3>. QED BY <1>3, <3>1, <3>2, <3>3 DEF Writing
    <2>. QED BY <2>1, <2>2
  <1>5. spoiled' \subseteq DOMAIN disk'
    <2>1. \A c \in Jobs : command[c].path \subseteq DOMAIN disk
      BY DEF Base, Shape, Control
    <2>. QED BY <2>1 DEF DiskInv
  <1>. QED BY <1>1, <1>3, <1>4, <1>5 DEF DiskInv

LEMMA ApplyWriting ==
  ASSUME Base, DiskInv, job' = job, NEW c \in Jobs, ApplyUpdate(c)
  PROVE  DiskInv'
  <1>0. /\ Moved(c) /\ UNCHANGED <<shared, spoiled>> /\ Same(c, {"path", "chunk"})
        /\ \A d \in Jobs \ {c} : command'[d] = command[d]
    BY ApplyEffect DEF Base, Moved, Same, Data
  <1>1. CASE UNCHANGED <<disk, delivered>>
    BY <1>0, <1>1, FilesKept DEF Same
  <1>2. CASE /\ disk' = [disk EXCEPT ![Binary(c)] = Whole(c)]
             /\ delivered' = delivered \cup {<<c, Binary(c), Whole(c)>>}
    <2>1. \A f : Writers(f)' = Writers(f)
      BY <1>0 DEF Writers, Jobs, Same
    <2>2. Jobs' = Jobs /\ \A d : Whole(d)' = Whole(d)
      BY DEF Jobs, Whole
    <2>3. ASSUME NEW d \in Jobs
          PROVE  Writing(d)'
      <3>1. \A g \in command[d].path : disk'[g] = disk[g]
        BY <1>2, BinaryAlone DEF Writers
      <3>2. command'[d].path = command[d].path /\ command'[d].chunk = command[d].chunk
        BY <1>0 DEF Same
      <3>. QED BY <1>0, <2>1, <3>1, <3>2 DEF DiskInv, Writing, Prefix
    <2>4. ASSUME NEW g \in DOMAIN disk', Writers(g)' = {}, g \notin spoiled'
          PROVE  disk'[g] = <<Old>> \/ \E d \in Jobs' : disk'[g] = Whole(d)'
      BY <1>0, <1>2, <2>1, <2>2, <2>4 DEF DiskInv
    <2>5. DOMAIN disk' = DOMAIN disk
      BY <1>2
    <2>. QED BY <1>0, <1>2, <2>2, <2>3, <2>4, <2>5 DEF DiskInv
  <1>. QED BY <1>1, <1>2, ApplyEffect DEF Base

\* What does not write files leaves them alone: a goroutine that is not at a file has none.
LEMMA NoFileOpen ==
  ASSUME Base, NEW c \in Jobs, CommandAct(c), ~ FileAct(c)
  PROVE  command' = command \/ (Moved(c) /\ command[c].pc # "write" /\ command'[c].pc # "write")
  <1>0. /\ command[c].outcome \in Outcomes /\ Control(c)
        /\ Type(c) \in {"EXEC_COMMAND", "EXEC_PYTHON_SCRIPT", "PUSH_FILE", "FETCH_FILE", "AGENT_UPDATE"}
    BY DEF Base, Shape, Control, IsJob, Type
  <1>1. CASE LogAct(c)
    <2>0. Shape
      BY DEF Base
    <2>1. CASE BreakStream(c)
      BY <2>0, <2>1, BreakStreamEffect DEF Same
    <2>2. ASSUME NEW s \in Readers, FillPipe(c, s)
          PROVE  Moved(c) /\ command[c].pc # "write" /\ command'[c].pc # "write"
      BY <2>0, <2>2, FillPipeEffect DEF Same
    <2>3. ASSUME NEW s \in Readers, NEW stored, ReadLine(c, s, stored)
          PROVE  Moved(c) /\ command[c].pc # "write" /\ command'[c].pc # "write"
      BY <2>0, <2>3, ReadLineEffect DEF Same
    <2>4. ASSUME NEW stored, CloseLogs(c, stored)
          PROVE  Moved(c) /\ command[c].pc # "write" /\ command'[c].pc # "write"
      BY <2>0, <2>4, CloseEffect
    <2>. QED BY <1>1, <2>1, <2>2, <2>3, <2>4 DEF LogAct
  <1>2. CASE StreamAct(c)
    BY <1>2, SendEffect DEF StreamAct, Assign, Acknowledge, Base
  <1>3. CASE Start(c)
    BY <1>0, <1>3, StartEffect DEF Base, FirstPC
  <1>4. CASE ReadPackageFile(c)
    BY <1>0, <1>4, PackageEffect DEF Base, AfterPackage, Control
  <1>5. CASE StepFails(c) \/ OpenLogs(c)
    BY <1>5, StepFailsEffect, OpenLogsEffect DEF Base
  <1>6. CASE Exit(c) \/ Timeout(c) \/ ReadersEnd(c)
    BY <1>0, <1>6, EndEffect DEF Base
  <1>7. CASE FinishCall(c) \/ CallFails(c) \/ SaveResult(c) \/ MarkCompleted(c)
    BY <1>7, FinishEffect, FailsEffect, ResultEffect, MarkEffect DEF Base
  <1>. QED BY <1>1, <1>2, <1>3, <1>4, <1>5, <1>6, <1>7 DEF CommandAct, ControlAct

LEMMA DiskStep ==
  ASSUME Base, Base', DiskInv, JobsOnHosts, [FleetNext]_vars
  PROVE  DiskInv'
  <1>0. job' = job /\ Jobs' = Jobs
    BY JobsStep DEF Jobs
  <1>1. ASSUME NEW c \in Jobs, FileAct(c)
        PROVE  DiskInv'
    <2>1. CASE WriteFails(c)
      <3>1. /\ Moved(c) /\ command'[c].path = {}
            /\ spoiled' = spoiled \cup command[c].path /\ UNCHANGED <<disk, delivered, shared>>
        BY <2>1, WriteFailsEffect DEF Base
      <3> DEFINE stopped == {c}
      <3>2. spoiled' = spoiled \cup UNION {command[d].path : d \in stopped}
        BY <3>1
      <3>3. stopped \in SUBSET Jobs /\ \A d \in stopped : command'[d].path = {}
        BY <3>1
      <3>4. \A d \in Jobs \ stopped : command'[d] = command[d]
        BY <3>1 DEF Moved
      <3> HIDE DEF stopped
      <3>. QED BY <1>0, <3>1, <3>2, <3>3, <3>4, StoppedWriting
    <2>. QED BY <1>0, <1>1, <2>1, TargetWriting, ChunkWriting, ApplyWriting DEF FileAct
  <1>2. ASSUME NEW c \in Jobs, CommandAct(c), ~ FileAct(c)
        PROVE  DiskInv'
    <2>1. UNCHANGED <<disk, delivered, spoiled, shared>>
      BY <1>2, CommandFrame
    <2>2. CASE command' = command
      BY <1>0, <2>1, <2>2, FilesKept
    <2>3. CASE Moved(c) /\ command[c].pc # "write" /\ command'[c].pc # "write"
      <3>1. Control(c) /\ Control(c)' /\ \A d \in Jobs \ {c} : command'[d] = command[d]
        BY <1>0, <2>3 DEF Base, Moved
      <3>2. command[c].path = {} /\ command'[c].path = {}
        BY <2>3, <3>1 DEF Control
      <3>. QED BY <1>0, <2>1, <3>1, <3>2, FilesKept
    <2>. QED BY <1>2, <2>2, <2>3, NoFileOpen
  <1>3. ASSUME NEW h, AgentEnds(h)
        PROVE  DiskInv'
    <2> DEFINE stopped == {d \in Jobs : Ended(h, d)}
    <2>1. spoiled' = spoiled \cup UNION {command[c].path : c \in stopped}
      BY <1>3, AgentEndsEffect DEF Base
    <2>2. \A d \in stopped : command'[d].path = {}
      BY <1>3, AgentEndsEffect DEF Base
    <2>3. \A d \in Jobs \ stopped : command'[d] = command[d]
      BY <1>3, AgentEndsEffect DEF Base
    <2> HIDE DEF stopped
    <2>4. stopped \in SUBSET Jobs
      BY DEF stopped
    <2>. QED BY <1>0, <1>3, <2>1, <2>2, <2>3, <2>4, EndFrame, StoppedWriting
  <1>4. CASE UNCHANGED <<command, disk, delivered, spoiled, shared>>
    BY <1>0, <1>4, FilesKept
  <1>5. \/ \E c \in Jobs : CommandAct(c)
        \/ \E h : AgentEnds(h)
        \/ UNCHANGED <<command, disk, delivered, spoiled, shared>>
    BY Steps DEF RemoveAgent, CleanUp, RowAct, runtimeVars, fileVars
  <1>. QED BY <1>1, <1>2, <1>3, <1>4, <1>5

-----------------------------------------------------------------------------
(* How far a transfer has come. *)

LEMMA ProgressFrame ==
  ASSUME job' = job, NEW d \in Jobs, Same(d, {"pc", "wait", "path", "outcome"}), Done(d)' = Done(d), Progress(d)
  PROVE  Progress(d)'
  BY DEF Progress, Same, PathsOf, PathOf, Type, Host

LEMMA Paths ==
  ASSUME job' = job, NEW c
  PROVE  /\ \A names : PathsOf(c, names)' = PathsOf(c, names)
         /\ \A n : PathOf(c, n)' = PathOf(c, n)
         /\ PathsOf(c, {}) = {}
  BY DEF PathsOf, PathOf, Type, Host

LEMMA FileProgress ==
  ASSUME Base, job' = job, NEW c \in Jobs, Progress(c), FileAct(c)
  PROVE  Progress(c)' /\ \A d \in Jobs \ {c} : Done(d)' = Done(d)
  <1> DEFINE files == job[c].files
  <1>0. /\ command[c].wait \subseteq files /\ Type(c)' = Type(c) /\ job'[c] = job[c]
        /\ \A n : PathOf(c, n)' = PathOf(c, n)
        /\ \A names : PathsOf(c, names)' = PathsOf(c, names)
    BY Paths DEF Base, Control, Type
  <1>1. CASE OpenTarget(c)
    <2>1. delivered' = delivered /\ command[c].pc = "target" /\ Done(c)' = Done(c)
      BY <1>1, TargetEffect DEF Base, Done
    <2>2. ASSUME command'[c].pc = "submit",
                 command'[c].outcome = "SUCCESS" => Type(c) = "FETCH_FILE" /\ job[c].chunks = 0
          PROVE  Progress(c)'
      BY <1>0, <2>2 DEF Progress
    <2>3. ASSUME NEW name \in command[c].wait, command'[c].pc = "write", command'[c].path = {PathOf(c, name)},
                 command'[c].wait = command[c].wait \ {name}
          PROVE  Progress(c)'
      <3>2. name \in files \ command'[c].wait /\ (files \ command'[c].wait) \ {name} = files \ command[c].wait
        BY <1>0, <2>3
      <3>3. Type(c) \in {"FETCH_FILE", "PUSH_FILE"} => Done(c)' = PathsOf(c, (files \ command'[c].wait) \ {name})
        BY <2>1, <3>2 DEF Progress
      <3>. QED BY <1>0, <2>3, <3>2, <3>3 DEF Progress
    <2>4. \/ command'[c].pc = "submit" /\ (command'[c].outcome = "SUCCESS" => Type(c) = "FETCH_FILE" /\ job[c].chunks = 0)
          \/ \E name \in command[c].wait : /\ command'[c].pc = "write" /\ command'[c].path = {PathOf(c, name)}
                                           /\ command'[c].wait = command[c].wait \ {name}
      BY <1>1, TargetEffect DEF Base
    <2>5. \A d : Done(d)' = Done(d)
      BY <2>1 DEF Done
    <2>. QED BY <2>2, <2>3, <2>4, <2>5
  <1>2. CASE WriteChunk(c)
    <2>1. command[c].pc = "write" /\ command'[c].wait = command[c].wait
      BY <1>2, ChunkEffect DEF Base, Same
    <2>2. CASE UNCHANGED delivered /\ command'[c].pc = "write" /\ Same(c, {"path", "outcome"})
      <3>1. \A d : Done(d)' = Done(d)
        BY <2>2 DEF Done
      <3>. QED BY <2>1, <2>2, <3>1, ProgressFrame DEF Same
    <2>3. CASE \E f \in command[c].path :
                 /\ delivered' = delivered \cup {<<c, f, disk[f]>>} /\ command'[c].path = {}
                 /\ \/ command[c].wait = {} /\ command'[c].pc = "submit"
                    \/ command'[c].pc = "target"
      <3>1. PICK f \in command[c].path :
                 /\ delivered' = delivered \cup {<<c, f, disk[f]>>} /\ command'[c].path = {}
                 /\ \/ command[c].wait = {} /\ command'[c].pc = "submit"
                    \/ command'[c].pc = "target"
        BY <2>3
      <3>2. Done(c)' = Done(c) \cup {f}
        <4> DEFINE mine == {e \in delivered : e[1] = c}  new == <<c, f, disk[f]>>
        <4>1. {e \in delivered' : e[1] = c} = mine \cup {new} /\ new[2] = f
          BY <3>1
        <4>2. Done(c)' = {d[2] : d \in mine \cup {new}} /\ Done(c) = {d[2] : d \in mine}
          BY <4>1 DEF Done
        <4> HIDE DEF mine, new
        <4>. QED BY <4>1, <4>2
      <3>3. \A d \in Jobs \ {c} : Done(d)' = Done(d)
        <4>1. \A d \in Jobs \ {c} : {e \in delivered' : e[1] = d} = {e \in delivered : e[1] = d}
          BY <3>1
        <4>. QED BY <4>1 DEF Done
      <3>4. Type(c) \in {"FETCH_FILE", "PUSH_FILE"} => Done(c)' = PathsOf(c, files \ command[c].wait)
        <4>1. ASSUME Type(c) \in {"FETCH_FILE", "PUSH_FILE"}
              PROVE  Done(c)' = PathsOf(c, files \ command[c].wait)
          <5>1. PICK n \in files \ command[c].wait :
                  /\ command[c].path = {PathOf(c, n)}
                  /\ Done(c) = PathsOf(c, (files \ command[c].wait) \ {n})
            BY <2>1, <4>1 DEF Progress
          <5>2. f = PathOf(c, n)
            BY <3>1, <5>1
          <5>. QED BY <3>2, <5>1, <5>2 DEF PathsOf
        <4>. QED BY <4>1
      <3>5. command'[c].pc = "submit" => files \ command[c].wait = files
        BY <3>1
      <3>. QED BY <1>0, <2>1, <3>1, <3>3, <3>4, <3>5 DEF Progress
    <2>4. \/ UNCHANGED delivered /\ command'[c].pc = "write" /\ Same(c, {"path", "outcome"})
          \/ \E f \in command[c].path :
                 /\ delivered' = delivered \cup {<<c, f, disk[f]>>} /\ command'[c].path = {}
                 /\ \/ command[c].wait = {} /\ command'[c].pc = "submit"
                    \/ command'[c].pc = "target"
      BY <1>2, ChunkEffect DEF Base
    <2>. QED BY <2>2, <2>3, <2>4
  <1>3. CASE WriteFails(c)
    <2>1. delivered' = delivered /\ command'[c].pc = "submit" /\ command'[c].outcome = "FAILED"
      BY <1>3, WriteFailsEffect DEF Base
    <2>. QED BY <2>1 DEF Progress, Done
  <1>4. CASE ApplyUpdate(c)
    <2>1. command[c].pc = "apply" /\ (UNCHANGED delivered \/ delivered' = delivered \cup {<<c, Binary(c), Whole(c)>>})
      BY <1>4, ApplyEffect DEF Base
    <2>2. Type(c) = "AGENT_UPDATE"
      BY <2>1 DEF Base, Control
    <2>3. \A d \in Jobs \ {c} : {e \in delivered' : e[1] = d} = {e \in delivered : e[1] = d}
      BY <2>1
    <2>. QED BY <1>0, <2>2, <2>3 DEF Progress, Done
  <1>. QED BY <1>1, <1>2, <1>3, <1>4 DEF FileAct

LEMMA OtherProgress ==
  ASSUME Base, Base', job' = job, NEW c \in Jobs, Progress(c), CommandAct(c), ~ FileAct(c)
  PROVE  Progress(c)'
  <1> DEFINE files == job[c].files
  <1>0. /\ delivered' = delivered /\ Done(c)' = Done(c) /\ Type(c)' = Type(c) /\ job'[c] = job[c] /\ c \in Jobs'
        /\ \A names : PathsOf(c, names)' = PathsOf(c, names)
        /\ command[c].outcome \in Outcomes
    BY CommandFrame, Paths DEF Done, Type, Jobs, Base, Control
  <1>1. CASE LogAct(c)
    <2>1. command[c].pc \in {"run", "close"}
      BY <1>1, BreakStreamEffect, FillPipeEffect, ReadLineEffect, CloseEffect DEF LogAct, Base
    <2>. QED BY <1>0, <2>1 DEF Base, Control, Progress
  <1>2. CASE Send(c)
    <2>1. command[c].pc = "idle" /\ command'[c].pc = "start"
      BY <1>2, SendEffect DEF Base
    <2>. QED BY <1>0, <2>1 DEF Progress
  <1>3. CASE Assign(c) \/ Acknowledge(c)
    BY <1>0, <1>3, ProgressFrame DEF Assign, Acknowledge, Same
  <1>4. CASE Start(c) \/ ReadPackageFile(c)
    <2>1. command[c].pc \in {"start", "package"} /\ command[c].outcome = "FAILED"
      BY <1>4, StartEffect, PackageEffect DEF Base, Control
    <2>2. \/ command'[c].pc = "submit" /\ command'[c].outcome = "FAILED"
          \/ command'[c].pc = "package"
          \/ command'[c].pc = "target" /\ command'[c].wait = files
          \/ Type(c) \notin {"FETCH_FILE", "PUSH_FILE"}
      <3>1. Type(c) \in {"FETCH_FILE", "PUSH_FILE"} =>
              AfterPackage[Type(c)] = "target" \/ command[c].pc # "package"
        BY <2>1 DEF Base, Control, AfterPackage
      <3>2. CASE Start(c)
        <4>1. /\ Same(c, {"outcome"})
              /\ \/ command'[c].pc = FirstPC[Type(c)] /\ command'[c].wait = files
                 \/ command'[c].pc = "submit"
          BY <3>2, StartEffect DEF Base, Same, Data
        <4>. QED BY <2>1, <4>1 DEF FirstPC, Same
      <3>3. CASE ReadPackageFile(c)
        <4>1. /\ command[c].pc = "package"
              /\ \/ command'[c].pc = "submit" /\ command'[c].outcome = "FAILED"
                 \/ command'[c].pc = AfterPackage[Type(c)] /\ command'[c].wait = files
                 \/ command'[c].pc = "package"
          BY <3>3, PackageEffect DEF Base
        <4>. QED BY <3>1, <4>1
      <3>. QED BY <1>4, <3>2, <3>3
    <2>3. Type(c) \in {"FETCH_FILE", "PUSH_FILE"} => Done(c) = {}
      BY <2>1 DEF Progress
    <2>4. PathsOf(c, files \ files) = {}
      BY Paths
    <2>. QED BY <1>0, <2>2, <2>3, <2>4 DEF Progress
  <1>5. CASE StepFails(c)
    <2>1. command'[c].pc = "submit" /\ command'[c].outcome = "FAILED"
      BY <1>5, StepFailsEffect DEF Base
    <2>. QED BY <2>1 DEF Progress
  <1>6. CASE OpenLogs(c) \/ Exit(c) \/ Timeout(c) \/ ReadersEnd(c)
    <2>1. command[c].pc \in {"open", "run"}
      BY <1>0, <1>6, OpenLogsEffect, EndEffect DEF Base
    <2>. QED BY <1>0, <2>1 DEF Base, Control, Progress
  <1>7. CASE FinishCall(c) \/ CallFails(c) \/ SaveResult(c) \/ MarkCompleted(c)
    <2>1. command'[c].pc \in After
      BY <1>7, FinishEffect, FailsEffect, ResultEffect, MarkEffect DEF Base, After
    <2>. QED BY <2>1 DEF Progress, After
  <1>. QED BY <1>1, <1>2, <1>3, <1>4, <1>5, <1>6, <1>7 DEF CommandAct, ControlAct, StreamAct

LEMMA AfterStays ==
  ASSUME Base, NEW c \in Jobs, CommandAct(c), command[c].pc \in After
  PROVE  command'[c].pc \in After /\ ~ FileAct(c) /\ ~ SaveResult(c) /\ ~ LogAct(c) /\ ~ Send(c)
  <1>0. command[c].outcome \in Outcomes
    BY DEF Base, Control
  <1>1. ~ FileAct(c) /\ ~ SaveResult(c)
    BY TargetEffect, ChunkEffect, WriteFailsEffect, ApplyEffect, ResultEffect DEF FileAct, Base, After
  <1>2. ~ LogAct(c)
    BY BreakStreamEffect, FillPipeEffect, ReadLineEffect, CloseEffect DEF LogAct, Base, After
  <1>6. ~ Send(c)
    BY SendEffect DEF Base, After
  <1>3. CASE StreamAct(c)
    BY <1>1, <1>2, <1>3, <1>6 DEF StreamAct, Assign, Acknowledge, After
  <1>4. ~ (Start(c) \/ ReadPackageFile(c) \/ StepFails(c) \/ OpenLogs(c) \/ Exit(c) \/ Timeout(c) \/ ReadersEnd(c))
    BY <1>0, StartEffect, PackageEffect, StepFailsEffect, OpenLogsEffect, EndEffect DEF Base, After
  <1>5. CASE FinishCall(c) \/ CallFails(c) \/ MarkCompleted(c)
    BY <1>1, <1>2, <1>5, <1>6, FinishEffect, FailsEffect, MarkEffect DEF Base, After
  <1>. QED BY <1>1, <1>2, <1>3, <1>4, <1>5, <1>6 DEF CommandAct, ControlAct

LEMMA TransferredFrame ==
  ASSUME job' = job, NEW d, Done(d)' = Done(d), Transferred(d)
  PROVE  Transferred(d)'
  BY Paths DEF Transferred, Type

LEMMA RowsStep ==
  ASSUME Base, FileInv, JobsOnHosts, [FleetNext]_vars
  PROVE  ResultRows'
  <1>0. job' = job /\ Jobs' = Jobs
    BY JobsStep DEF Jobs
  <1>1. ASSUME NEW c \in Jobs, CommandAct(c)
        PROVE  ResultRows'
    <2>1. ASSUME NEW r \in results
          PROVE  /\ r.command \in Jobs /\ r.outcome \in Outcomes
                 /\ command'[r.command].pc \in After
                 /\ r.outcome = "SUCCESS" => Transferred(r.command)'
      <3>0. /\ r.command \in Jobs /\ r.outcome \in Outcomes /\ command[r.command].pc \in After
            /\ r.outcome = "SUCCESS" => Transferred(r.command)
        BY DEF FileInv, ResultRows
      <3>1. CASE r.command # c
        <4>1. command'[r.command] = command[r.command]
          <5>1. command[c].outcome \in Outcomes
            BY DEF Base, Control
          <5>. QED BY <1>1, <3>0, <3>1, <5>1, CommandMoves DEF Base, Moved
        <4>2. Done(r.command)' = Done(r.command)
          <5>1. CASE FileAct(c)
            BY <1>0, <3>0, <3>1, <5>1, FileProgress DEF FileInv
          <5>2. CASE ~ FileAct(c)
            BY <1>1, <5>2, CommandFrame DEF Done
          <5>. QED BY <5>1, <5>2
        <4>. QED BY <1>0, <3>0, <4>1, <4>2, TransferredFrame
      <3>2. CASE r.command = c
        <4>1. command'[c].pc \in After /\ ~ FileAct(c)
          BY <1>1, <3>0, <3>2, AfterStays
        <4>2. Done(c)' = Done(c)
          BY <1>1, <4>1, CommandFrame DEF Done
        <4>. QED BY <1>0, <3>0, <3>2, <4>1, <4>2, TransferredFrame
      <3>. QED BY <3>1, <3>2
    <2>2. CASE results' = results
      BY <1>0, <2>1, <2>2 DEF ResultRows
    <2>3. CASE SaveResult(c) /\ results' # results
      <3> DEFINE row == [command |-> c, agent |-> command[c].id, outcome |-> command[c].outcome]
      <3>1. results' = results \cup {row} /\ command[c].pc = "submit" /\ command'[c].pc = "mark"
        BY <2>3, ResultEffect DEF Base
      <3>2. row.command = c /\ row.outcome = command[c].outcome /\ command[c].outcome \in Outcomes
        BY DEF Base, Control
      <3>3. command[c].outcome = "SUCCESS" => Transferred(c)
        BY <3>1 DEF FileInv, Progress, Transferred
      <3>4. Done(c)' = Done(c)
        BY <2>3 DEF SaveResult, fileVars, Done
      <3>5. command[c].outcome = "SUCCESS" => Transferred(c)'
        BY <1>0, <3>3, <3>4, TransferredFrame
      <3> HIDE DEF row
      <3>. QED BY <1>0, <2>1, <3>1, <3>2, <3>5 DEF ResultRows, After
    <2>. QED BY <1>1, <2>2, <2>3, CommandFrame
  <1>2. ASSUME results' \subseteq results, delivered' = delivered,
               \A d \in Jobs : command[d].pc \in After => command'[d].pc \in After
        PROVE  ResultRows'
    <2>1. \A d : Done(d)' = Done(d)
      BY <1>2 DEF Done
    <2>. QED BY <1>0, <1>2, <2>1, TransferredFrame DEF FileInv, ResultRows
  <1>3. ASSUME NEW h, AgentEnds(h)
        PROVE  ResultRows'
    <2>1. \A d \in Jobs : command[d].pc \in After => command'[d].pc \in After
      BY <1>3, AgentEndsEffect DEF Base, After
    <2>. QED BY <1>2, <1>3, <2>1, EndFrame
  <1>4. CASE results' \subseteq results /\ UNCHANGED <<command, delivered>>
    BY <1>2, <1>4
  <1>5. \/ \E c \in Jobs : CommandAct(c)
        \/ \E h : AgentEnds(h)
        \/ results' \subseteq results /\ UNCHANGED <<command, delivered>>
    BY Steps DEF RemoveAgent, CleanUp, RowAct, runtimeVars, fileVars
  <1>. QED BY <1>1, <1>3, <1>4, <1>5

LEMMA FileStep ==
  ASSUME Base, Base', FileInv, JobsOnHosts, [FleetNext]_vars
  PROVE  FileInv'
  <1>0. job' = job /\ Jobs' = Jobs
    BY JobsStep DEF Jobs
  <1>1. DiskInv' /\ ResultRows'
    BY DiskStep, RowsStep DEF FileInv
  <1>2. ASSUME NEW d \in Jobs
        PROVE  Progress(d)'
    <2>0. Progress(d)
      BY DEF FileInv
    <2>1. ASSUME NEW c \in Jobs, CommandAct(c)
          PROVE  Progress(d)'
      <3>1. CASE d = c
        BY <1>0, <2>0, <2>1, <3>1, FileProgress, OtherProgress
      <3>2. CASE d # c
        <4>1. command[c].outcome \in Outcomes
          BY DEF Base, Control
        <4>2. command'[d] = command[d]
          BY <2>1, <3>2, <4>1, CommandMoves DEF Base, Moved
        <4>3. Done(d)' = Done(d)
          <5>1. CASE FileAct(c)
            BY <1>0, <3>2, <5>1, FileProgress DEF FileInv
          <5>2. CASE ~ FileAct(c)
            BY <2>1, <5>2, CommandFrame DEF Done
          <5>. QED BY <5>1, <5>2
        <4>. QED BY <1>0, <2>0, <4>2, <4>3, ProgressFrame DEF Same
      <3>. QED BY <3>1, <3>2
    <2>2. ASSUME NEW h, AgentEnds(h)
          PROVE  Progress(d)'
      <3>1. CASE Ended(h, d)
        <4>1. command'[d].pc \in {"over", "lost"}
          BY <2>2, <3>1, AgentEndsEffect DEF Base
        <4>. QED BY <4>1 DEF Progress
      <3>2. CASE ~ Ended(h, d)
        <4>1. command'[d] = command[d] /\ delivered' = delivered
          BY <2>2, <3>2, AgentEndsEffect, EndFrame DEF Base
        <4>. QED BY <1>0, <2>0, <4>1, ProgressFrame DEF Same, Done
      <3>. QED BY <3>1, <3>2
    <2>3. CASE UNCHANGED <<command, delivered>>
      BY <1>0, <2>0, <2>3, ProgressFrame DEF Same, Done
    <2>4. \/ \E c \in Jobs : CommandAct(c)
          \/ \E h : AgentEnds(h)
          \/ UNCHANGED <<command, delivered>>
      BY Steps DEF RemoveAgent, CleanUp, RowAct, runtimeVars, fileVars
    <2>. QED BY <2>1, <2>2, <2>3, <2>4
  <1>. QED BY <1>0, <1>1, <1>2 DEF FileInv

LEMMA FileInit ==
  ASSUME FleetInit
  PROVE  FileInv
  <1>1. PICK plan \in Plans : RuntimeInit(plan.jobs, plan.files)
    BY DEF FleetInit
  <1>2. /\ job = plan.jobs /\ disk = [f \in plan.files |-> <<Old>>] /\ results = {} /\ delivered = {}
        /\ spoiled = {} /\ shared = {}
        /\ \A c \in Jobs : command[c] = NewCommand(NoId, "idle")
    BY <1>1 DEF RuntimeInit, Jobs
  <1>3. \A c \in Jobs : command[c].pc = "idle" /\ command[c].path = {}
    BY <1>2 DEF NewCommand
  <1>4. DiskInv
    BY <1>2, <1>3 DEF DiskInv, Writing
  <1>5. \A c \in Jobs : Progress(c)
    BY <1>2, <1>3 DEF Progress, Done
  <1>. QED BY <1>2, <1>4, <1>5 DEF FileInv, ResultRows

LEMMA FileInvariant == FleetSpec => []FileInv
  <1>1. FleetInit => FileInv
    BY FileInit
  <1>2. JobsOnHosts /\ Base /\ Base' /\ FileInv /\ [FleetNext]_vars => FileInv'
    BY FileStep
  <1>. QED BY <1>1, <1>2, BaseInvariant, PTL DEF FleetSpec

\* UploadTaskFile, extractPushArchive, AGENT_UPDATE: what a transfer that succeeds has written,
\* and what is left in a file that nobody writes any more.
THEOREM FilesAreWhole == FleetSpec => []FilesWhole
  <1>1. ASSUME FileInv
        PROVE  FilesWhole
    <2>1. ASSUME NEW r \in results, r.outcome = "SUCCESS", Type(r.command) \in {"FETCH_FILE", "PUSH_FILE"}
          PROVE  \/ Type(r.command) = "FETCH_FILE" /\ job[r.command].chunks = 0
                 \/ {d[2] : d \in {e \in delivered : e[1] = r.command}}
                      = {PathOf(r.command, n) : n \in job[r.command].files}
      BY <1>1, <2>1 DEF FileInv, ResultRows, Transferred, Done, PathsOf
    <2>. QED BY <1>1, <2>1 DEF FileInv, DiskInv, FilesWhole
  <1>. QED BY <1>1, FileInvariant, PTL

-----------------------------------------------------------------------------
(* Whose rows they are. *)

LEMMA FilesStay ==
  ASSUME PInv, [PresenceNext]_presenceVars, NEW h \in Hosts
  PROVE  /\ registered[h] \subseteq registered'[h]
         /\ idFile[h] \in Ids => idFile'[h] = idFile[h]
  <1>. USE IdAssumption DEF PInv, PresenceTypeOK
  <1>1. ASSUME NEW g \in Hosts, OfHost(g)
        PROVE  /\ registered[h] \subseteq registered'[h]
               /\ idFile[h] \in Ids => idFile'[h] = idFile[h]
    <2>1. CASE StartAgent(g) \/ Die(g) \/ CreateIdFile(g) \/ CreateIdFileFails(g) \/ WriteIdFile(g)
      BY <2>1 DEF FileIsId, StartAgent, Die, CreateIdFile, CreateIdFileFails, WriteIdFile
    <2>2. CASE ReadId(g) \/ SendHeartbeat(g) \/ HeartbeatFails(g)
      BY <2>2 DEF ReadId, SendHeartbeat, HeartbeatFails
    <2>3. CASE RegisterAgent(g, TRUE) \/ RegisterAgent(g, FALSE) \/ RegisterFails(g)
      BY <2>3 DEF RegisterAgent, RegisterFails
    <2>. QED BY <1>1, <2>1, <2>2, <2>3 DEF OfHost
  <1>2. ASSUME OfServer
        PROVE  UNCHANGED <<registered, idFile>>
    BY <1>2 DEF OfServer, Tick, SetOfflineStatusForInactiveAgents, ToggleWrite, ToggleRead, DeleteAgent
  <1>. QED BY <1>1, <1>2 DEF PresenceNext, presenceVars

LEMMA KnownStep ==
  ASSUME PInv, Known, [PresenceNext]_presenceVars
  PROVE  Known'
  <1>. USE IdAssumption DEF PInv, PresenceTypeOK
  <1>1. ASSUME NEW i \in Ids, Exists(i)', Exists(i) \/ \E h \in Hosts : i \in registered'[h]
        PROVE  \E h \in Hosts : i \in registered'[h]
    BY <1>1, FilesStay DEF Known
  <1>2. SUFFICES ASSUME NEW i \in Ids, Exists(i)'
                 PROVE  Exists(i) \/ \E h \in Hosts : i \in registered'[h]
    BY <1>1 DEF Known
  <1>3. ASSUME NEW g \in Hosts, OfHost(g)
        PROVE  Exists(i) \/ \E h \in Hosts : i \in registered'[h]
    <2>1. CASE StartAgent(g) \/ Die(g) \/ CreateIdFile(g) \/ CreateIdFileFails(g) \/ WriteIdFile(g)
      BY <1>2, <2>1 DEF Exists, StartAgent, Die, CreateIdFile, CreateIdFileFails, WriteIdFile
    <2>2. CASE ReadId(g) \/ SendHeartbeat(g) \/ HeartbeatFails(g)
      BY <1>2, <2>2 DEF Exists, ReadId, SendHeartbeat, HeartbeatFails, UpdateAgentStatus
    <2>3. CASE RegisterAgent(g, TRUE) \/ RegisterAgent(g, FALSE) \/ RegisterFails(g)
      <3>1. \/ agent' = agent
            \/ agent' = CreateAgent(process[g].id) /\ process[g].id \in registered'[g]
        BY <2>3 DEF RegisterAgent, RegisterFails
      <3>. QED BY <1>2, <3>1 DEF Exists, CreateAgent
    <2>. QED BY <1>3, <2>1, <2>2, <2>3 DEF OfHost
  <1>4. CASE OfServer
    <2>1. CASE Tick \/ SetOfflineStatusForInactiveAgents
      BY <1>2, <2>1 DEF Exists, Tick, SetOfflineStatusForInactiveAgents, Inactive
    <2>2. CASE ToggleWrite
      BY <1>2, <2>2 DEF Exists, ToggleWrite, UpdateAgentStatus
    <2>3. ASSUME NEW j \in Ids, ToggleRead(j) \/ DeleteAgent(j)
          PROVE  Exists(i)
      BY <1>2, <2>3 DEF Exists, ToggleRead, DeleteAgent, NoRow
    <2>. QED BY <1>4, <2>1, <2>2, <2>3 DEF OfServer
  <1>5. CASE UNCHANGED presenceVars
    BY <1>2, <1>5 DEF Exists, presenceVars
  <1>. QED BY <1>3, <1>4, <1>5 DEF PresenceNext

LEMMA ApartStep ==
  ASSUME PInv, Apart, [PresenceNext]_presenceVars
  PROVE  Apart'
  <1>. USE IdAssumption DEF PInv, PresenceTypeOK
  <1>1. ASSUME \A h \in Hosts : Owned(h)' \subseteq Owned(h)
        PROVE  Apart'
    BY <1>1 DEF Apart
  <1>2. ASSUME NEW g \in Hosts, OfHost(g)
        PROVE  Apart'
    <2>1. CASE StartAgent(g) \/ Die(g) \/ CreateIdFileFails(g)
      BY <1>1, <2>1 DEF Owned, StartAgent, Die, CreateIdFileFails, Go
    <2>2. CASE CreateIdFile(g) \/ WriteIdFile(g)
      BY <1>1, <2>2 DEF Owned, CreateIdFile, WriteIdFile, Go
    <2>3. CASE RegisterAgent(g, TRUE) \/ RegisterAgent(g, FALSE) \/ RegisterFails(g)
      BY <1>1, <2>3 DEF Owned, RegisterAgent, RegisterFails, Go
    <2>4. CASE SendHeartbeat(g) \/ HeartbeatFails(g)
      BY <1>1, <2>4 DEF Owned, SendHeartbeat, HeartbeatFails
    <2>5. CASE ReadId(g)
      <3>1. CASE idFile[g] # NoFile
        BY <1>1, <2>5, <3>1 DEF Owned, ReadId
      <3>2. CASE idFile[g] = NoFile
        <4> DEFINE new == CHOOSE i \in Ids \ Taken : TRUE
        <4>1. new \in Ids \ Taken
          BY <2>5, <3>2 DEF ReadId
        <4>2. process' = [process EXCEPT ![g] = [pc |-> "create", id |-> new]] /\ idFile' = idFile
          BY <2>5, <3>2 DEF ReadId
        <4> HIDE DEF new
        <4>3. ASSUME NEW h \in Hosts
              PROVE  new \notin Owned(h)
          <5>1. idFile[h] \in Taken /\ process[h].id \in Taken
            BY DEF Taken
          <5>. QED BY <4>1, <5>1 DEF Owned
        <4>4. Owned(g)' = {new}
          BY <3>2, <4>1, <4>2 DEF Owned
        <4>5. \A h \in Hosts \ {g} : Owned(h)' = Owned(h)
          BY <4>2 DEF Owned
        <4>. QED BY <4>3, <4>4, <4>5 DEF Apart
      <3>. QED BY <3>1, <3>2
    <2>. QED BY <1>2, <2>1, <2>2, <2>3, <2>4, <2>5 DEF OfHost
  <1>3. CASE OfServer
    <2>1. UNCHANGED <<idFile, process>>
      BY <1>3 DEF OfServer, Tick, SetOfflineStatusForInactiveAgents, ToggleWrite, ToggleRead, DeleteAgent
    <2>. QED BY <1>1, <2>1 DEF Owned
  <1>4. CASE UNCHANGED presenceVars
    BY <1>1, <1>4 DEF Owned, presenceVars
  <1>. QED BY <1>2, <1>3, <1>4 DEF PresenceNext

-----------------------------------------------------------------------------
(* Lines of the log. *)

LogInv ==
  /\ Identity /\ LogRows /\ ResultAgents /\ \A c \in Jobs : Kept(c)
  /\ lossy \subseteq Jobs /\ orphans \subseteq Tasks /\ cleaning \subseteq Tasks

LEMMA IdKept ==
  ASSUME Base, NEW c \in Jobs, CommandAct(c)
  PROVE  \/ Send(c)
         \/ command' = command
         \/ command[c].pc # "idle" /\ command'[c].pc # "idle" /\ Same(c, {"id"}) /\ Moved(c)
  <1>0. /\ command[c].outcome \in Outcomes /\ Control(c) /\ Shape
        /\ Type(c) \in {"EXEC_COMMAND", "EXEC_PYTHON_SCRIPT", "PUSH_FILE", "FETCH_FILE", "AGENT_UPDATE"}
    BY DEF Base, Shape, Control, IsJob, Type
  <1>1. CASE FileAct(c)
    BY <1>0, <1>1, TargetEffect, ChunkEffect, WriteFailsEffect, ApplyEffect DEF FileAct, Same, Data
  <1>2. CASE LogAct(c)
    <2>1. \A s : FillPipe(c, s) => Moved(c) /\ command[c].pc = "run" /\ Same(c, {"pc", "id"})
      BY <1>0, FillPipeEffect DEF Same, Data
    <2>2. BreakStream(c) => Moved(c) /\ command[c].pc = "run" /\ Same(c, {"pc", "id"})
      BY <1>0, BreakStreamEffect DEF Same, Data
    <2>3. \A s, stored : ReadLine(c, s, stored) => Moved(c) /\ command[c].pc = "run" /\ Same(c, {"pc", "id"})
      BY <1>0, ReadLineEffect DEF Same
    <2>4. \A stored : CloseLogs(c, stored) =>
            Moved(c) /\ command[c].pc = "close" /\ command'[c].pc = "submit" /\ Same(c, {"id"})
      BY <1>0, CloseEffect DEF Same, Data
    <2>5. (Moved(c) /\ command[c].pc = "run" /\ Same(c, {"pc", "id"}))
          \/ (Moved(c) /\ command[c].pc = "close" /\ command'[c].pc = "submit" /\ Same(c, {"id"}))
      BY <1>2, <2>1, <2>2, <2>3, <2>4 DEF LogAct
    <2>. QED BY <2>5 DEF Same
  <1>3. CASE StreamAct(c)
    BY <1>3 DEF StreamAct, Assign, Acknowledge
  <1>4. CASE Start(c) \/ ReadPackageFile(c)
    <2>1. /\ Moved(c) /\ Same(c, {"id"}) /\ command[c].pc \in {"start", "package"}
          /\ command'[c].pc \in {"submit", "package", FirstPC[Type(c)], AfterPackage[Type(c)]}
          /\ command[c].pc = "start" => command'[c].pc \in {"submit", FirstPC[Type(c)]}
      BY <1>0, <1>4, StartEffect, PackageEffect DEF Same, Data
    <2>2. FirstPC[Type(c)] # "idle"
      BY <1>0 DEF FirstPC
    <2>3. command[c].pc = "package" => AfterPackage[Type(c)] # "idle"
      BY <1>0 DEF AfterPackage, Control
    <2>. QED BY <2>1, <2>2, <2>3
  <1>5. CASE StepFails(c) \/ OpenLogs(c)
    BY <1>0, <1>5, StepFailsEffect, OpenLogsEffect DEF Same, Data
  <1>6. CASE Exit(c) \/ Timeout(c) \/ ReadersEnd(c)
    BY <1>0, <1>6, EndEffect DEF Same, Data
  <1>7. CASE FinishCall(c) \/ CallFails(c) \/ SaveResult(c) \/ MarkCompleted(c)
    BY <1>0, <1>7, FinishEffect, FailsEffect, ResultEffect, MarkEffect DEF Same, Data
  <1>. QED BY <1>1, <1>2, <1>3, <1>4, <1>5, <1>6, <1>7 DEF CommandAct, ControlAct

\* A goroutine that has been started stays started.
LEMMA BegunStays ==
  ASSUME Base, JobsOnHosts, [FleetNext]_vars, NEW d \in Jobs, command[d].pc # "idle"
  PROVE  command'[d].pc # "idle" /\ Same(d, {"id"})
  <1>1. ASSUME NEW c \in Jobs, CommandAct(c)
        PROVE  command'[d].pc # "idle" /\ Same(d, {"id"})
    <2>1. ~ (Send(c) /\ c = d)
      BY SendEffect DEF Base
    <2>2. Send(c) => Moved(c)
      BY SendEffect DEF Base
    <2>. QED BY <1>1, <2>1, <2>2, IdKept DEF Moved, Same
  <1>2. ASSUME NEW h, AgentEnds(h)
        PROVE  command'[d].pc # "idle" /\ Same(d, {"id"})
    BY <1>2, AgentEndsEffect DEF Base, Same
  <1>3. CASE command' = command
    BY <1>3 DEF Same
  <1>4. \/ \E c \in Jobs : CommandAct(c)
        \/ \E h : AgentEnds(h)
        \/ command' = command
    BY Steps DEF RemoveAgent, CleanUp, RowAct, runtimeVars
  <1>. QED BY <1>1, <1>2, <1>3, <1>4

LEMMA IdentityStep ==
  ASSUME PInv, Base, JobsOnHosts, Identity, [FleetNext]_vars
  PROVE  Identity'
  <1>0. job' = job /\ Jobs' = Jobs /\ \A c : Host(c)' = Host(c)
    BY JobsStep DEF Jobs, Host
  <1>1. [PresenceNext]_presenceVars
    BY FleetStep
  <1>2. Known' /\ Apart'
    BY <1>1, KnownStep, ApartStep DEF Identity
  <1>3. ASSUME NEW d \in Jobs, command'[d].pc # "idle"
        PROVE  command'[d].id \in Ids /\ command'[d].id = idFile'[Host(d)]
    <2>0. Host(d) \in Hosts
      BY DEF JobsOnHosts
    <2>1. CASE command[d].pc # "idle"
      <3>1. command'[d].id = command[d].id
        BY <2>1, BegunStays DEF Same
      <3>2. command[d].id \in Ids /\ command[d].id = idFile[Host(d)]
        BY <2>1 DEF Identity
      <3>. QED BY <1>1, <2>0, <3>1, <3>2, FilesStay
    <2>2. CASE command[d].pc = "idle"
      <3>1. Send(d)
        <4>1. ASSUME NEW c \in Jobs, CommandAct(c)
              PROVE  Send(d)
          <5>1. Send(c) => Moved(c)
            BY SendEffect DEF Base
          <5>. QED BY <1>3, <2>2, <4>1, <5>1, IdKept DEF Moved
        <4>2. ASSUME NEW h, AgentEnds(h)
              PROVE  Send(d)
          BY <1>3, <2>2, <4>2, AgentEndsEffect DEF Base, Ended, OnAgent
        <4>3. CASE command' = command
          BY <1>3, <2>2, <4>3
        <4>4. \/ \E c \in Jobs : CommandAct(c)
              \/ \E h : AgentEnds(h)
              \/ command' = command
          BY Steps DEF RemoveAgent, CleanUp, RowAct, runtimeVars
        <4>. QED BY <4>1, <4>2, <4>3, <4>4
      <3>2. /\ command'[d].id = process[Host(d)].id /\ process[Host(d)].id # NoId /\ Running(Host(d))
        BY <3>1, SendEffect DEF Base
      <3>3. process[Host(d)].id \in Ids /\ process[Host(d)].id = idFile[Host(d)]
        BY <2>0, <3>2 DEF PInv, PresenceTypeOK, FileIsId, Running
      <3>4. idFile' = idFile
        BY <3>1 DEF Send, presenceVars
      <3>. QED BY <3>2, <3>3, <3>4
    <2>. QED BY <2>1, <2>2
  <1>. QED BY <1>0, <1>2, <1>3 DEF Identity

\* Only one host has the id of an agent that is there.
LEMMA OwnId ==
  ASSUME PInv, Identity, JobsOnHosts, NEW c \in Jobs, command[c].pc # "idle", Exists(command[c].id)
  PROVE  command[c].id \in registered[Host(c)]
  <1>1. /\ command[c].id \in Ids /\ command[c].id = idFile[Host(c)] /\ Host(c) \in Hosts
    BY DEF Identity, JobsOnHosts
  <1>2. PICK h \in Hosts : command[c].id \in registered[h]
    BY <1>1 DEF Identity, Known
  <1>3. command[c].id = idFile[h]
    BY <1>2 DEF PInv, FileIsId
  <1>4. h = Host(c)
    BY <1>1, <1>3 DEF Identity, Apart, Owned
  <1>. QED BY <1>2, <1>4

\* What a step does to the log.
Adds(c, lines) ==
  /\ logs' = logs \cup {[command |-> c, agent |-> command[c].id, line |-> l] : l \in lines}
  /\ \A l \in lines : l[1] \in Readers
  /\ command[c].pc # "idle" /\ Exists(command[c].id)

LEMMA StoreEffect ==
  ASSUME NEW c, NEW lines, Store(c, lines), command[c].pc # "idle", \A l \in lines : l[1] \in Readers
  PROVE  \/ Adds(c, lines) /\ lossy' = lossy
         \/ logs' = logs /\ lossy' = lossy /\ lines = {}
         \/ logs' = logs /\ lossy' = lossy \cup {c}
  BY DEF Store, Adds

LEMMA LogEffect ==
  ASSUME Base, NEW c \in Jobs, LogAct(c)
  PROVE  /\ logs' = logs \/ \E lines : Adds(c, lines)
         /\ lossy' = lossy \/ lossy' = lossy \cup {c}
  <1>1. CASE BreakStream(c) \/ \E s \in Readers : FillPipe(c, s)
    BY <1>1, BreakStreamEffect, FillPipeEffect DEF Base, Drop
  <1>2. ASSUME NEW s \in Readers, NEW stored, ReadLine(c, s, stored)
        PROVE  /\ logs' = logs \/ \E lines : Adds(c, lines)
               /\ lossy' = lossy \/ lossy' = lossy \cup {c}
    <2> DEFINE batch == Buffered(c, LineOf(c, s))
    <2>1. \A l \in batch : l[1] \in Readers
      BY DEF Base, Control, Buffered, LineOf
    <2>2. command[c].pc # "idle" /\ (Store(c, batch) \/ Drop(c) \/ UNCHANGED <<logs, lossy>>)
      BY <1>2, ReadLineEffect DEF Base
    <2> HIDE DEF batch
    <2>. QED BY <2>1, <2>2, StoreEffect DEF Drop
  <1>3. ASSUME NEW stored, CloseLogs(c, stored)
        PROVE  /\ logs' = logs \/ \E lines : Adds(c, lines)
               /\ lossy' = lossy \/ lossy' = lossy \cup {c}
    <2>1. \A l \in command[c].buffer : l[1] \in Readers
      BY DEF Base, Control
    <2>2. command[c].pc # "idle" /\ (Store(c, command[c].buffer) \/ Drop(c))
      BY <1>3, CloseEffect DEF Base
    <2>. QED BY <2>1, <2>2, StoreEffect DEF Drop
  <1>. QED BY <1>1, <1>2, <1>3 DEF LogAct

LEMMA NextLine ==
  ASSUME Base, job' = job, NEW c \in Jobs, NEW s \in Readers, command[c].left[s] > 0,
         command'[c].left = [command[c].left EXCEPT ![s] = @ - 1]
  PROVE  Lines(c)' \subseteq Lines(c) \cup {LineOf(c, s)}
  <1>0. command[c].left \in [Readers -> Nat] /\ job[c].lines \in [Readers -> Nat]
    BY DEF Base, Shape, Control, IsJob
  <1>1. \A n, l \in Nat : l > 0 => \A k \in 1..(n - (l - 1)) : k \in 1..(n - l) \/ k = n - l + 1
    OBVIOUS
  <1>2. ASSUME NEW r \in Readers, NEW k \in 1..(job[c].lines[r] - command'[c].left[r])
        PROVE  k \in 1..(job[c].lines[r] - command[c].left[r]) \/ <<r, k>> = LineOf(c, s)
    <2>1. CASE r = s
      <3>1. command'[c].left[s] = command[c].left[s] - 1
        BY <1>0
      <3>. QED BY <1>0, <1>1, <1>2, <2>1, <3>1 DEF LineOf
    <2>2. CASE r # s
      BY <1>0, <1>2, <2>2
    <2>. QED BY <2>1, <2>2
  <1>3. ASSUME NEW p \in Lines(c)'
        PROVE  p \in Lines(c) \cup {LineOf(c, s)}
    <2>1. PICK r \in Readers : \E k \in 1..(job[c].lines[r] - command'[c].left[r]) : p = <<r, k>>
      BY <1>3 DEF Lines
    <2>2. PICK k \in 1..(job[c].lines[r] - command'[c].left[r]) : p = <<r, k>>
      BY <2>1
    <2>. QED BY <1>2, <2>2 DEF Lines
  <1>. QED BY <1>3

LEMMA LinesSame ==
  ASSUME job' = job, NEW c, command'[c].left = command[c].left
  PROVE  Lines(c)' = Lines(c)
  BY DEF Lines

\* Lines that have been stored are there.
LEMMA StoredLines ==
  ASSUME NEW c, NEW lines, Adds(c, lines)
  PROVE  Stored(c)' = Stored(c) \cup lines /\ \A d : Stored(d) \subseteq Stored(d)'
  <1> DEFINE rows == {[command |-> c, agent |-> command[c].id, line |-> l] : l \in lines}
  <1>1. \A r \in rows : r.command = c /\ r.line \in lines
    OBVIOUS
  <1>2. ASSUME NEW l \in lines
        PROVE  \E r \in rows : r.command = c /\ r.line = l
    <2>1. [command |-> c, agent |-> command[c].id, line |-> l] \in rows
      OBVIOUS
    <2>. QED BY <2>1
  <1>3. logs' = logs \cup rows
    BY DEF Adds
  <1> HIDE DEF rows
  <1>. QED BY <1>1, <1>2, <1>3 DEF Stored

\* Only what writes the log, and the start of a command, moves a line.
LEMMA LinesKept ==
  ASSUME Base, NEW c \in Jobs, CommandAct(c), ~ Send(c), ~ LogAct(c)
  PROVE  Same(c, {"left", "buffer"})
  <1>0. command[c].outcome \in Outcomes /\ Shape
    BY DEF Base, Control
  <1>1. CASE FileAct(c)
    BY <1>0, <1>1, TargetEffect, ChunkEffect, WriteFailsEffect, ApplyEffect DEF FileAct, Same, Data
  <1>2. CASE StreamAct(c)
    BY <1>2 DEF StreamAct, Assign, Acknowledge, Same
  <1>3. CASE Start(c) \/ ReadPackageFile(c) \/ StepFails(c) \/ OpenLogs(c)
    BY <1>0, <1>3, StartEffect, PackageEffect, StepFailsEffect, OpenLogsEffect DEF Same, Data
  <1>4. CASE Exit(c) \/ Timeout(c) \/ ReadersEnd(c)
    BY <1>0, <1>4, EndEffect DEF Same, Data
  <1>5. CASE FinishCall(c) \/ CallFails(c) \/ SaveResult(c) \/ MarkCompleted(c)
    BY <1>0, <1>5, FinishEffect, FailsEffect, ResultEffect, MarkEffect DEF Same, Data
  <1>. QED BY <1>1, <1>2, <1>3, <1>4, <1>5 DEF CommandAct, ControlAct

LEMMA KeptFrame ==
  ASSUME job' = job, NEW c \in Jobs, Kept(c), lossy \subseteq lossy', orphans \subseteq orphans',
         command[c].pc # "idle", command'[c].left = command[c].left,
         Stored(c) \cup command[c].buffer \subseteq Stored(c)' \cup command'[c].buffer
  PROVE  Kept(c)'
  <1>1. Lines(c)' = Lines(c) /\ Task(c)' = Task(c)
    BY LinesSame DEF Task
  <1>. QED BY <1>1 DEF Kept

LEMMA KeptByLog ==
  ASSUME Base, job' = job, NEW c \in Jobs, Kept(c), orphans' = orphans, LogAct(c)
  PROVE  Kept(c)'
  <1>0. lossy \subseteq lossy' /\ Shape /\ Task(c)' = Task(c)
    BY LogEffect DEF Base, Task
  <1>1. ASSUME Drop(c)
        PROVE  Kept(c)'
    BY <1>1 DEF Drop, Kept
  <1>2. CASE BreakStream(c) \/ \E s \in Readers : FillPipe(c, s)
    <2>1. CASE ~ Drop(c)
      <3>1. BreakStream(c) /\ command[c].buffer = {} /\ UNCHANGED <<logs, lossy>>
        BY <1>0, <1>2, <2>1, BreakStreamEffect, FillPipeEffect
      <3>2. command[c].pc # "idle" /\ command'[c].left = command[c].left
        BY <1>0, <3>1, BreakStreamEffect DEF Same, Data
      <3>3. Stored(c)' = Stored(c)
        BY <3>1 DEF Stored
      <3>. QED BY <1>0, <3>1, <3>2, <3>3, KeptFrame
    <2>. QED BY <1>1, <2>1
  <1>3. ASSUME NEW s \in Readers, NEW stored, ReadLine(c, s, stored)
        PROVE  Kept(c)'
    <2> DEFINE line == LineOf(c, s)  batch == Buffered(c, line)
    <2>1. /\ command[c].pc = "run" /\ command[c].left[s] > 0
          /\ command'[c].left = [command[c].left EXCEPT ![s] = @ - 1]
          /\ \/ Drop(c)
             \/ command'[c].buffer = batch /\ UNCHANGED <<logs, lossy>>
             \/ command'[c].buffer = {} /\ (Store(c, batch) \/ Drop(c))
      BY <1>0, <1>3, ReadLineEffect
    <2>2. Lines(c)' \subseteq Lines(c) \cup {line}
      BY <2>1, NextLine
    <2>3. batch = command[c].buffer \cup {line}
      BY DEF Buffered
    <2>4. \A l \in batch : l[1] \in Readers
      BY DEF Base, Control, Buffered, LineOf
    <2>5. Lines(c)' \subseteq Lines(c) \cup batch /\ batch # {} /\ command[c].buffer \subseteq batch
      BY <2>2, <2>3
    <2> HIDE DEF line, batch
    <2>6. CASE command'[c].buffer = batch /\ UNCHANGED <<logs, lossy>>
      <3>1. Stored(c)' = Stored(c)
        BY <2>6 DEF Stored
      <3>. QED BY <1>0, <2>1, <2>5, <2>6, <3>1 DEF Kept
    <2>7. CASE Store(c, batch)
      <3>1. Adds(c, batch) \/ c \in lossy'
        BY <2>1, <2>4, <2>5, <2>7, StoreEffect
      <3>2. ASSUME Adds(c, batch)
            PROVE  Stored(c)' = Stored(c) \cup batch
        BY <3>2, StoredLines
      <3>. QED BY <1>0, <2>1, <2>5, <3>1, <3>2 DEF Kept
    <2>. QED BY <1>1, <2>1, <2>6, <2>7
  <1>4. ASSUME NEW stored, CloseLogs(c, stored)
        PROVE  Kept(c)'
    <2> DEFINE batch == command[c].buffer
    <2>1. /\ command[c].pc = "close" /\ command'[c].buffer = {} /\ command'[c].left = command[c].left
          /\ Store(c, batch) \/ Drop(c)
      BY <1>0, <1>4, CloseEffect DEF Same, Data
    <2>2. \A l \in batch : l[1] \in Readers
      BY DEF Base, Control
    <2>3. CASE Store(c, batch)
      <3>1. \/ Adds(c, batch)
            \/ logs' = logs /\ batch = {}
            \/ c \in lossy'
        BY <2>1, <2>2, <2>3, StoreEffect
      <3>2. ASSUME Adds(c, batch) \/ (logs' = logs /\ batch = {})
            PROVE  Stored(c)' = Stored(c) \cup batch
        BY <3>2, StoredLines DEF Stored
      <3>3. CASE c \in lossy'
        BY <3>3 DEF Kept
      <3>4. CASE Stored(c)' = Stored(c) \cup batch
        BY <1>0, <2>1, <3>4, KeptFrame
      <3>. QED BY <3>1, <3>2, <3>3, <3>4
    <2>. QED BY <1>1, <2>1, <2>3
  <1>. QED BY <1>2, <1>3, <1>4 DEF LogAct

\* Rows that are deleted with an agent belong to tasks that are left without one.
LEMMA KeptByRemoval ==
  ASSUME Base, LogRows, job' = job, NEW c \in Jobs, NEW i \in Ids, RemoveAgent(i), Kept(c)
  PROVE  Kept(c)'
  <1>1. UNCHANGED <<command, lossy>> /\ orphans \subseteq orphans' /\ Task(c) \in Tasks
    BY DEF RemoveAgent, Base, Shape, IsJob, Task
  <1>2. CASE Stored(c) \subseteq Stored(c)'
    <2>1. command[c].pc = "idle" => Kept(c)'
      BY <1>1 DEF Kept
    <2>. QED BY <1>1, <1>2, <2>1, KeptFrame
  <1>3. CASE ~ (Stored(c) \subseteq Stored(c)')
    <2>1. PICK l \in logs : l.command = c /\ l \notin logs'
      BY <1>3 DEF Stored
    <2>2. l.agent = i
      BY <2>1 DEF RemoveAgent
    <2>3. i \in registered[Host(c)]
      BY <2>1, <2>2 DEF LogRows
    <2>4. Task(c) \in orphans'
      BY <1>1, <2>3 DEF RemoveAgent
    <2>. QED BY <2>4 DEF Kept, Task
  <1>. QED BY <1>2, <1>3

LEMMA KeptStep ==
  ASSUME Base, JobsOnHosts, LogRows, [FleetNext]_vars, NEW d \in Jobs, Kept(d)
  PROVE  Kept(d)'
  <1>0. job' = job /\ Jobs' = Jobs /\ Shape
    BY JobsStep DEF Jobs, Base
  <1>1. ASSUME command[d].pc # "idle", command'[d].left = command[d].left, lossy \subseteq lossy',
               orphans \subseteq orphans', command'[d].buffer = command[d].buffer,
               Stored(d) \subseteq Stored(d)'
        PROVE  Kept(d)'
    BY <1>0, <1>1, KeptFrame
  <1>2. ASSUME command[d].pc = "idle", command'[d] = command[d]
        PROVE  Kept(d)'
    BY <1>2 DEF Kept
  <1>3. ASSUME NEW c \in Jobs, CommandAct(c)
        PROVE  Kept(d)'
    <2>0. command[c].outcome \in Outcomes
      BY DEF Base, Control
    <2>1. orphans' = orphans /\ (LogAct(c) \/ UNCHANGED <<logs, lossy>>)
      BY <1>3, CommandFrame
    <2>2. /\ Stored(d) \subseteq Stored(d)' /\ lossy \subseteq lossy'
      <3>1. CASE LogAct(c)
        <4>1. logs' = logs \/ \E lines : Adds(c, lines)
          BY <3>1, LogEffect
        <4>2. logs' = logs => Stored(d) \subseteq Stored(d)'
          BY DEF Stored
        <4>3. ASSUME NEW lines, Adds(c, lines)
              PROVE  Stored(d) \subseteq Stored(d)'
          BY <4>3, StoredLines
        <4>4. lossy \subseteq lossy'
          BY <3>1, LogEffect
        <4>. QED BY <4>1, <4>2, <4>3, <4>4
      <3>2. CASE UNCHANGED <<logs, lossy>>
        BY <3>2 DEF Stored
      <3>. QED BY <2>1, <3>1, <3>2
    <2>3. CASE d # c
      <3>1. command'[d] = command[d]
        BY <1>0, <1>3, <2>0, <2>3, CommandMoves DEF Moved
      <3>. QED BY <1>1, <1>2, <2>1, <2>2, <3>1
    <2>4. CASE d = c /\ LogAct(c)
      BY <1>0, <2>1, <2>4, KeptByLog
    <2>5. CASE d = c /\ Send(c)
      <3>1. command'[d].left = job[d].lines
        BY <1>0, <2>5, SendEffect
      <3>2. job[d].lines \in [Readers -> Nat]
        BY DEF Base, Shape, IsJob
      <3>3. \A r \in Readers : 1..(job[d].lines[r] - job[d].lines[r]) = {}
        BY <3>2
      <3>4. Lines(d)' = {}
        BY <1>0, <3>1, <3>3 DEF Lines
      <3>. QED BY <3>4 DEF Kept
    <2>6. CASE d = c /\ ~ LogAct(c) /\ ~ Send(c)
      <3>1. command'[d].left = command[d].left /\ command'[d].buffer = command[d].buffer
        BY <1>3, <2>6, LinesKept DEF Same
      <3>2. command[d].pc = "idle" => command'[d] = command[d]
        BY <1>3, <2>6, IdKept
      <3>. QED BY <1>1, <1>2, <2>1, <2>2, <3>1, <3>2
    <2>. QED BY <2>3, <2>4, <2>5, <2>6
  <1>4. ASSUME NEW h, AgentEnds(h)
        PROVE  Kept(d)'
    <2>1. lossy \subseteq lossy' /\ orphans' = orphans /\ Stored(d)' = Stored(d)
      BY <1>4, EndFrame DEF Stored
    <2>2. CASE ~ Ended(h, d)
      <3>1. command'[d] = command[d]
        BY <1>0, <1>4, <2>2, AgentEndsEffect
      <3>. QED BY <1>1, <1>2, <2>1, <3>1
    <2>3. CASE Ended(h, d)
      <3>1. /\ command'[d].left = command[d].left /\ command[d].pc # "idle"
            /\ command[d].buffer # {} => d \in lossy'
            /\ command'[d].buffer = {}
        BY <1>0, <1>4, <2>3, AgentEndsEffect DEF Same, Ended, OnAgent
      <3>2. CASE command[d].buffer # {}
        BY <3>1, <3>2 DEF Kept
      <3>. QED BY <1>1, <2>1, <3>1, <3>2
    <2>. QED BY <2>2, <2>3
  <1>5. ASSUME NEW i \in Ids, RemoveAgent(i)
        PROVE  Kept(d)'
    BY <1>0, <1>5, KeptByRemoval
  <1>6. CASE UNCHANGED <<command, logs, lossy, orphans>>
    <2>1. Stored(d)' = Stored(d)
      BY <1>6 DEF Stored
    <2>. QED BY <1>1, <1>2, <1>6, <2>1
  <1>7. \/ \E c \in Jobs : CommandAct(c)
        \/ \E h : AgentEnds(h)
        \/ \E i \in Ids : RemoveAgent(i)
        \/ UNCHANGED <<command, logs, lossy, orphans>>
    BY Steps DEF CleanUp, RowAct, runtimeVars
  <1>. QED BY <1>3, <1>4, <1>5, <1>6, <1>7

\* What a host has registered it keeps, and a command that has begun goes on.
LEMMA RowStays ==
  ASSUME PInv, Base, JobsOnHosts, [FleetNext]_vars, NEW c \in Jobs, NEW i
  PROVE  /\ i \in registered[Host(c)] => i \in (registered[Host(c)])'
         /\ command[c].pc # "idle" => command'[c].pc # "idle"
  <1>1. [PresenceNext]_presenceVars /\ job' = job
    BY FleetStep, JobsStep
  <1>2. Host(c) \in Hosts /\ Host(c)' = Host(c)
    BY <1>1 DEF JobsOnHosts, Host
  <1>3. registered[Host(c)] \subseteq registered'[Host(c)]
    BY <1>1, <1>2, FilesStay
  <1>. QED BY <1>2, <1>3, BegunStays

LEMMA LogRowsStep ==
  ASSUME PInv, Base, JobsOnHosts, Identity, LogRows, [FleetNext]_vars
  PROVE  LogRows'
  <1>0. Jobs' = Jobs
    BY JobsStep DEF Jobs
  <1>1. ASSUME NEW l, l \in logs \/ (/\ l.command \in Jobs /\ l.line[1] \in Readers
                                     /\ command[l.command].pc # "idle"
                                     /\ l.agent \in registered[Host(l.command)])
        PROVE  /\ l.command \in Jobs' /\ l.line[1] \in Readers
               /\ command'[l.command].pc # "idle"
               /\ l.agent \in (registered[Host(l.command)])'
    <2>1. /\ l.command \in Jobs /\ l.line[1] \in Readers
          /\ command[l.command].pc # "idle"
          /\ l.agent \in registered[Host(l.command)]
      BY <1>1 DEF LogRows
    <2>. QED BY <1>0, <2>1, RowStays
  <1>2. CASE logs' \subseteq logs
    BY <1>1, <1>2 DEF LogRows
  <1>3. ASSUME NEW c \in Jobs, NEW lines, Adds(c, lines)
        PROVE  LogRows'
    <2> DEFINE rows == {[command |-> c, agent |-> command[c].id, line |-> l] : l \in lines}
    <2>1. command[c].pc # "idle" /\ command[c].id \in registered[Host(c)]
      BY <1>3, OwnId DEF Adds
    <2>2. \A r \in rows : r.command = c /\ r.agent = command[c].id /\ r.line[1] \in Readers
      BY <1>3 DEF Adds
    <2>3. logs' = logs \cup rows
      BY <1>3 DEF Adds
    <2> HIDE DEF rows
    <2>4. \A r \in rows : /\ r.command \in Jobs /\ r.line[1] \in Readers
                          /\ command[r.command].pc # "idle"
                          /\ r.agent \in registered[Host(r.command)]
      BY <2>1, <2>2
    <2>. QED BY <1>1, <2>3, <2>4 DEF LogRows
  <1>4. logs' \subseteq logs \/ \E c \in Jobs : \E lines : Adds(c, lines)
    <2>1. ASSUME NEW c \in Jobs, CommandAct(c)
          PROVE  logs' \subseteq logs \/ \E lines : Adds(c, lines)
      BY <2>1, CommandFrame, LogEffect
    <2>2. ASSUME NEW h, AgentEnds(h)
          PROVE  logs' \subseteq logs
      BY <2>2, EndFrame
    <2>3. ASSUME NEW i, RemoveAgent(i)
          PROVE  logs' \subseteq logs
      BY <2>3 DEF RemoveAgent
    <2>4. \/ \E c \in Jobs : CommandAct(c)
          \/ \E h : AgentEnds(h)
          \/ \E i \in Ids : RemoveAgent(i)
          \/ logs' = logs
      BY Steps DEF CleanUp, RowAct, runtimeVars
    <2>. QED BY <2>1, <2>2, <2>3, <2>4
  <1>. QED BY <1>2, <1>3, <1>4

LEMMA ResultAgentsStep ==
  ASSUME PInv, Base, JobsOnHosts, Identity, FileInv, ResultAgents, [FleetNext]_vars
  PROVE  ResultAgents'
  <1>1. ASSUME NEW c \in Jobs, NEW i, i \in registered[Host(c)]
        PROVE  i \in (registered[Host(c)])'
    BY <1>1, RowStays
  <1>2. CASE results' \subseteq results
    BY <1>1, <1>2 DEF ResultAgents, FileInv, ResultRows
  <1>3. ASSUME NEW c \in Jobs, SaveResult(c), ~ (results' \subseteq results)
        PROVE  ResultAgents'
    <2> DEFINE row == [command |-> c, agent |-> command[c].id, outcome |-> command[c].outcome]
    <2>1. results' = results \cup {row} /\ command[c].pc = "submit" /\ Exists(command[c].id)
      BY <1>3, ResultEffect DEF Base
    <2>2. command[c].id \in registered[Host(c)]
      BY <2>1, OwnId
    <2>3. row.command = c /\ row.agent = command[c].id
      OBVIOUS
    <2> HIDE DEF row
    <2>4. \A r \in results' : r.command \in Jobs /\ r.agent \in registered[Host(r.command)]
      BY <2>1, <2>2, <2>3 DEF ResultAgents, FileInv, ResultRows
    <2>. QED BY <1>1, <2>4 DEF ResultAgents
  <1>4. results' \subseteq results \/ \E c \in Jobs : SaveResult(c)
    <2>1. ASSUME NEW c \in Jobs, CommandAct(c)
          PROVE  results' \subseteq results \/ SaveResult(c)
      BY <2>1, CommandFrame
    <2>2. ASSUME NEW h, AgentEnds(h)
          PROVE  results' \subseteq results
      BY <2>2, EndFrame
    <2>3. ASSUME NEW i, RemoveAgent(i)
          PROVE  results' \subseteq results
      BY <2>3 DEF RemoveAgent
    <2>4. \/ \E c \in Jobs : CommandAct(c)
          \/ \E h : AgentEnds(h)
          \/ \E i \in Ids : RemoveAgent(i)
          \/ results' = results
      BY Steps DEF CleanUp, RowAct, runtimeVars
    <2>. QED BY <2>1, <2>2, <2>3, <2>4
  <1>. QED BY <1>2, <1>3, <1>4

LEMMA SetsStep ==
  ASSUME Base, JobsOnHosts, [FleetNext]_vars,
         lossy \subseteq Jobs, orphans \subseteq Tasks, cleaning \subseteq Tasks
  PROVE  lossy' \subseteq Jobs' /\ orphans' \subseteq Tasks /\ cleaning' \subseteq Tasks
  <1>0. Jobs' = Jobs
    BY JobsStep DEF Jobs
  <1>1. ASSUME NEW c \in Jobs, CommandAct(c)
        PROVE  lossy' \subseteq Jobs /\ orphans' \subseteq Tasks /\ cleaning' \subseteq Tasks
    <2>1. Task(c) \in Tasks
      BY DEF Base, Shape, IsJob, Task
    <2>2. lossy' = lossy \/ lossy' = lossy \cup {c}
      BY <1>1, CommandFrame, LogEffect
    <2>. QED BY <1>1, <2>1, <2>2, CommandFrame
  <1>2. ASSUME NEW h, AgentEnds(h)
        PROVE  lossy' \subseteq Jobs /\ orphans' \subseteq Tasks /\ cleaning' \subseteq Tasks
    BY <1>2, EndFrame, AgentEndsEffect DEF Base
  <1>3. ASSUME NEW i, RemoveAgent(i)
        PROVE  lossy' \subseteq Jobs /\ orphans' \subseteq Tasks /\ cleaning' \subseteq Tasks
    BY <1>3 DEF RemoveAgent, fileVars
  <1>4. ASSUME NEW t, CleanUp(t)
        PROVE  lossy' \subseteq Jobs /\ orphans' \subseteq Tasks /\ cleaning' \subseteq Tasks
    BY <1>4 DEF CleanUp
  <1>5. CASE lossy' = lossy /\ orphans' = orphans /\ cleaning' = cleaning
    BY <1>0, <1>5
  <1>6. \/ \E c \in Jobs : CommandAct(c)
        \/ \E h : AgentEnds(h)
        \/ \E i \in Ids : RemoveAgent(i)
        \/ \E t : CleanUp(t)
        \/ lossy' = lossy /\ orphans' = orphans /\ cleaning' = cleaning
    BY Steps DEF RowAct, runtimeVars, fileVars
  <1>. QED BY <1>0, <1>1, <1>2, <1>3, <1>4, <1>5, <1>6

LEMMA LogInit ==
  ASSUME FleetInit
  PROVE  LogInv
  <1>. USE IdAssumption, PlanAssumption
  <1>1. PICK plan \in Plans : PresenceInit(plan.up, FirstId) /\ RuntimeInit(plan.jobs, plan.files)
    BY DEF FleetInit
  <1>2. plan.up \subseteq Hosts
    OBVIOUS
  <1>3. \A h \in Hosts : /\ idFile[h] = IF h \in plan.up THEN FirstId[h] ELSE NoFile
                         /\ process[h].id = IF h \in plan.up THEN FirstId[h] ELSE NoId
                         /\ registered[h] = IF h \in plan.up THEN {FirstId[h]} ELSE {}
    BY <1>1 DEF PresenceInit
  <1>4. ASSUME NEW h \in Hosts
        PROVE  Owned(h) = IF h \in plan.up THEN {FirstId[h]} ELSE {}
    <2>1. FirstId[h] \in Ids /\ NoId \notin Ids /\ NoFile \notin Ids
      OBVIOUS
    <2>2. CASE h \in plan.up
      <3>1. idFile[h] = FirstId[h] /\ process[h].id = FirstId[h]
        BY <1>3, <2>2
      <3>. QED BY <2>1, <2>2, <3>1 DEF Owned
    <2>3. CASE h \notin plan.up
      <3>1. idFile[h] = NoFile /\ process[h].id = NoId
        BY <1>3, <2>3
      <3>. QED BY <2>1, <2>3, <3>1 DEF Owned
    <2>. QED BY <2>2, <2>3
  <1>5. Apart
    BY <1>4 DEF Apart
  <1>6. Known
    <2>1. ASSUME NEW i \in Ids, Exists(i)
          PROVE  \E h \in plan.up : FirstId[h] = i
      BY <1>1, <2>1 DEF PresenceInit, Exists, NoRow
    <2>. QED BY <1>2, <1>3, <2>1 DEF Known
  <1>7. \A c \in Jobs : command[c].pc = "idle"
    BY <1>1 DEF RuntimeInit, NewCommand, Jobs
  <1>8. /\ logs = {} /\ results = {} /\ lossy = {} /\ orphans = {} /\ cleaning = {}
    BY <1>1 DEF RuntimeInit
  <1>. QED BY <1>5, <1>6, <1>7, <1>8 DEF LogInv, Identity, LogRows, ResultAgents, Kept

LEMMA LogInvariant == FleetSpec => []LogInv
  <1>1. FleetInit => LogInv
    BY LogInit
  <1>2. PInv /\ JobsOnHosts /\ Base /\ FileInv /\ LogInv /\ [FleetNext]_vars => LogInv'
    <2> SUFFICES ASSUME PInv, JobsOnHosts, Base, FileInv, LogInv, [FleetNext]_vars
                 PROVE  LogInv'
      OBVIOUS
    <2>1. Identity' /\ LogRows' /\ ResultAgents'
      BY IdentityStep, LogRowsStep, ResultAgentsStep DEF LogInv
    <2>2. Jobs' = Jobs
      BY JobsStep DEF Jobs
    <2>3. \A d \in Jobs' : Kept(d)'
      BY <2>2, KeptStep DEF LogInv
    <2>4. lossy' \subseteq Jobs' /\ orphans' \subseteq Tasks /\ cleaning' \subseteq Tasks
      BY SetsStep DEF LogInv
    <2>. QED BY <2>1, <2>3, <2>4 DEF LogInv
  <1>. QED BY <1>1, <1>2, BaseInvariant, FileInvariant, PTL DEF FleetSpec

=============================================================================
