---------------------------- MODULE AgentRuntime ----------------------------
(***************************************************************************)
(* What a command does from the moment it is sent until its result is      *)
(* stored: the goroutine that handles it on the agent (agent/internal/     *)
(* agent.go, agent_file_handler.go, agent_python_handler.go) and the calls *)
(* it makes: StreamLogs, GetTaskPackage, UploadTaskFile, SubmitTaskResult  *)
(* (server/internal/server.go).  A call that is answered at once is one    *)
(* step with what its handler does; what other goroutines may come between *)
(* is a step of its own.                                                   *)
(***************************************************************************)
EXTENDS Presence, LiveView

CONSTANTS
  Commands,    \* commands that may be sent
  BufferLimit, \* log lines a stream collects before it stores them
  Old, Hole    \* what a file contains that no command wrote

ASSUME BufferAssumption == BufferLimit \in Nat \ {0}

VARIABLES
  job,         \* what each command is to do
  command,     \* its goroutine on the agent, and its calls
  handler,     \* the part of the agent's stream on the server
  logs,        \* the rows of "logs": command, agent, stream and number of the line
  results,     \* the rows of "task_results"
  orphans,     \* tasks whose agent was deleted
  package,     \* the uploaded files of each task that are still there
  cleaning,    \* tasks whose files are about to be removed
  disk,        \* the content of files, see Whole
  delivered,   \* history: commands with a file as it was when it was complete
  spoiled,     \* history: files a transfer has left unfinished
  shared,      \* history: commands that wrote a file at the same time as another
  lossy        \* history: commands with a log line that came to nothing

fileVars == <<package, cleaning, disk, delivered, spoiled, shared>>
runtimeVars == <<job, command, handler, logs, results, orphans, lossy, fileVars>>

-----------------------------------------------------------------------------
(* Jobs and goroutines. *)

Readers == {"out", "err"}
Outcomes == {"SUCCESS", "FAILED", "TIMED_OUT"}
FinalStatus == [SUCCESS |-> "completed", FAILED |-> "failed", TIMED_OUT |-> "timed_out"]

Jobs == DOMAIN job
Host(c) == job[c].host
Task(c) == job[c].task
Type(c) == job[c].type
At(c, pc) == c \in Jobs /\ command[c].pc = pc

NewCommand(id, pc) ==
  [pc |-> pc, begun |-> FALSE, id |-> id, left |-> [s \in Readers |-> 0], reading |-> {}, buffer |-> {},
   connected |-> FALSE, ended |-> FALSE, wait |-> {}, path |-> {}, chunk |-> 0,
   outcome |-> "FAILED"]

OnAgent == {"start", "package", "target", "write", "apply", "open", "run", "close", "submit",
            "exit"}
OnServer == {"mark", "publish"}

RuntimeTypeOK ==
  /\ \A c \in Jobs :
       /\ command[c].pc \in OnAgent \cup OnServer \cup {"idle", "over", "lost"}
       /\ command[c].reading \subseteq Readers /\ command[c].path \subseteq DOMAIN disk
       /\ Cardinality(command[c].buffer) < BufferLimit
       /\ command[c].outcome \in Outcomes
       /\ handler[c] \in {"idle", "assign", "ack", "over"}
  /\ \A l \in logs : l.command \in Jobs /\ l.line[1] \in Readers
  /\ \A r \in results : r.command \in Jobs /\ r.outcome \in Outcomes
  /\ orphans \cup cleaning \subseteq Tasks
  /\ spoiled \subseteq DOMAIN disk /\ shared \cup lossy \subseteq Jobs

\* FETCH_FILE has a source on the agent and no package.
Uploads(what) == IF what.type = "FETCH_FILE" THEN {} ELSE what.files

\* Every file a job may write is there from before, so what a push goes to is a directory.
RuntimeInit(jobs, files) ==
  /\ job = jobs
  /\ command = [c \in DOMAIN jobs |-> NewCommand(NoId, "idle")]
  /\ handler = [c \in DOMAIN jobs |-> "idle"]
  /\ package = [t \in Tasks |-> UNION {Uploads(jobs[c]) : c \in {d \in DOMAIN jobs : jobs[d].task = t}}]
  /\ disk = [f \in files |-> <<Old>>]
  /\ logs = {} /\ results = {} /\ orphans = {} /\ cleaning = {} /\ delivered = {}
  /\ spoiled = {} /\ shared = {} /\ lossy = {}

Update(c, new) == command' = [command EXCEPT ![c] = new]
Goto(c, pc) == command' = [command EXCEPT ![c].pc = pc]
Submit(c, outcome) == command' = [command EXCEPT ![c].pc = "submit", ![c].outcome = outcome]

-----------------------------------------------------------------------------
(* The agent's stream on the server: one goroutine for all commands of an   *)
(* agent.  It sends, writes assigned, broadcasts; later it takes the        *)
(* acknowledgement, writes running, broadcasts.                             *)

StreamOf(c) == <<c, "stream">>
ResultOf(c) == <<c, "result">>

HandlerFree(h) == \A c \in Jobs : Host(c) = h => handler[c] # "assign" /\ Idle(StreamOf(c))

Send(c) ==
  /\ At(c, "idle") /\ Running(Host(c)) /\ process[Host(c)].id # NoId /\ HandlerFree(Host(c))
  /\ Task(c) \notin orphans /\ status[Task(c)] = "pending"
  /\ handler' = [handler EXCEPT ![c] = "assign"]
  /\ Update(c, [NewCommand(process[Host(c)].id, "start") EXCEPT !.left = job[c].lines])
  /\ UNCHANGED <<presenceVars, liveVars, job, logs, results, orphans, lossy, fileVars>>

WriteIfCurrent(c, current, new) ==
  IF status[Task(c)] = current THEN ToPublish(StreamOf(c), Task(c), new)
  ELSE UNCHANGED <<status, publish>>

Assign(c) ==
  /\ c \in Jobs /\ handler[c] = "assign"
  /\ WriteIfCurrent(c, "pending", "assigned")
  /\ handler' = [handler EXCEPT ![c] = "ack"]
  /\ UNCHANGED <<presenceVars, broadcast, browser, overtaken, job, command, logs, results, orphans,
                 lossy, fileVars>>

\* The first thing a goroutine does is to send the acknowledgement PROCESSING.
Acknowledge(c) ==
  /\ c \in Jobs /\ handler[c] = "ack" /\ HandlerFree(Host(c)) /\ command[c].begun
  /\ WriteIfCurrent(c, "assigned", "running")
  /\ handler' = [handler EXCEPT ![c] = "over"]
  /\ UNCHANGED <<presenceVars, broadcast, browser, overtaken, job, command, logs, results, orphans,
                 lossy, fileVars>>

-----------------------------------------------------------------------------
(* handleTask.  valid: the type is known, paths and checksum are given, the *)
(* source file opens.                                                       *)

FirstPC == [EXEC_COMMAND |-> "open", EXEC_PYTHON_SCRIPT |-> "package", PUSH_FILE |-> "package",
            AGENT_UPDATE |-> "package", FETCH_FILE |-> "target"]

Start(c) ==
  /\ At(c, "start")
  /\ IF job[c].valid
     THEN Update(c, [command[c] EXCEPT !.pc = FirstPC[Type(c)], !.wait = job[c].files, !.begun = TRUE])
     ELSE Update(c, [command[c] EXCEPT !.pc = "submit", !.begun = TRUE])
  /\ UNCHANGED <<presenceVars, liveVars, job, handler, logs, results, orphans, lossy, fileVars>>

\* GetTaskPackage reads the files one after the other; the archive arrives when all are read.
AfterPackage == [EXEC_PYTHON_SCRIPT |-> "open", PUSH_FILE |-> "target", AGENT_UPDATE |-> "apply"]

ReadPackageFile(c) ==
  /\ At(c, "package")
  /\ \/ /\ command[c].wait = {} /\ Submit(c, "FAILED")    \* no files at all
     \/ \E f \in command[c].wait :
          IF f \notin package[Task(c)] THEN Submit(c, "FAILED")
          ELSE IF command[c].wait = {f}
          THEN Update(c, [command[c] EXCEPT !.pc = AfterPackage[Type(c)], !.wait = job[c].files])
          ELSE Update(c, [command[c] EXCEPT !.wait = @ \ {f}])
  /\ UNCHANGED <<presenceVars, liveVars, job, handler, logs, results, orphans, lossy, fileVars>>

\* The download breaks, the archive or a directory is unusable, a stream does not open.
StepFails(c) ==
  /\ c \in Jobs /\ command[c].pc \in {"package", "target", "apply", "open"}
  /\ Submit(c, "FAILED")
  /\ UNCHANGED <<presenceVars, liveVars, job, handler, logs, results, orphans, lossy, fileVars>>

-----------------------------------------------------------------------------
(* Files.  PUSH_FILE writes the files of the archive on the agent,          *)
(* FETCH_FILE sends chunks that UploadTaskFile writes on the server: the    *)
(* file is truncated and then written at the writer's own place.  The       *)
(* content of a file is the sequence of the commands that wrote its chunks. *)

Whole(c) == [i \in 1..job[c].chunks |-> c]

WriteAt(content, k, c) ==
  [i \in 1..(IF k > Len(content) THEN k ELSE Len(content)) |->
     IF i = k THEN c ELSE IF i <= Len(content) THEN content[i] ELSE Hole]

Writers(f) == {c \in Jobs : f \in command[c].path}

PathOf(c, name) == IF Type(c) = "FETCH_FILE" THEN <<"server", job[c].destination>>
                   ELSE <<Host(c), job[c].destination, name>>

\* UploadTaskFile accepts a file only for a task of the agent.  An empty source has no
\* chunk: nothing is opened, and the answer is that the file has been uploaded.
OpenTarget(c) ==
  /\ At(c, "target")
  /\ IF Type(c) = "FETCH_FILE" /\ job[c].chunks = 0
     THEN Submit(c, "SUCCESS") /\ UNCHANGED <<disk, shared, spoiled>>
     ELSE IF Type(c) = "FETCH_FILE" /\ Task(c) \in orphans
     THEN Submit(c, "FAILED") /\ UNCHANGED <<disk, shared, spoiled>>
     ELSE \E name \in command[c].wait :
       LET f == PathOf(c, name) IN
       /\ disk' = [disk EXCEPT ![f] = <<>>]
       /\ shared' = IF Writers(f) = {} THEN shared ELSE shared \cup Writers(f) \cup {c}
       /\ spoiled' = IF Writers(f) = {} THEN spoiled \ {f} ELSE spoiled \cup {f}
       /\ Update(c, [command[c] EXCEPT !.pc = "write", !.path = {f}, !.chunk = 1, !.wait = @ \ {name}])
  /\ UNCHANGED <<presenceVars, liveVars, job, handler, logs, results, orphans, lossy, package,
                 cleaning, delivered>>

AllSent_DropLast(c) == command[c].chunk >= job[c].chunks
AllSent(c) == command[c].chunk > job[c].chunks

WriteChunk(c) ==
  /\ At(c, "write")
  /\ \E f \in command[c].path :
       IF ~ AllSent(c)
       THEN /\ disk' = [disk EXCEPT ![f] = WriteAt(@, command[c].chunk, c)]
            /\ Update(c, [command[c] EXCEPT !.chunk = @ + 1])
            /\ UNCHANGED delivered
       ELSE /\ delivered' = delivered \cup {<<c, f, disk[f]>>}
            /\ LET closed == [command[c] EXCEPT !.path = {}] IN
               IF closed.wait = {}
               THEN Update(c, [closed EXCEPT !.pc = "submit", !.outcome = "SUCCESS"])
               ELSE Update(c, [closed EXCEPT !.pc = "target"])
            /\ UNCHANGED disk
  /\ UNCHANGED <<presenceVars, liveVars, job, handler, logs, results, orphans, lossy, package,
                 cleaning, spoiled, shared>>

\* The source cannot be read, the stream breaks, the disk is full: what is written stays.
WriteFails(c) ==
  /\ At(c, "write")
  /\ Update(c, [command[c] EXCEPT !.pc = "submit", !.outcome = "FAILED", !.path = {}])
  /\ spoiled' = spoiled \cup command[c].path
  /\ UNCHANGED <<presenceVars, liveVars, job, handler, logs, results, orphans, lossy, package,
                 cleaning, disk, delivered, shared>>

\* update.Apply replaces the binary at once, if its checksum is the one of the task.
ApplyUpdate(c) ==
  /\ At(c, "apply")
  /\ IF job[c].checksum
     THEN LET f == <<Host(c), "agent", "agent">> IN
          disk' = [disk EXCEPT ![f] = Whole(c)] /\ delivered' = delivered \cup {<<c, f, Whole(c)>>}
          /\ Submit(c, "SUCCESS")
     ELSE Submit(c, "FAILED") /\ UNCHANGED <<disk, delivered>>
  /\ UNCHANGED <<presenceVars, liveVars, job, handler, logs, results, orphans, lossy, package,
                 cleaning, spoiled, shared>>

-----------------------------------------------------------------------------
(* Commands and scripts.  left: lines the process has yet to write; two     *)
(* goroutines read its output and send it on one log stream.                *)

\* The server stores a batch of lines in one transaction; without the row of the agent, or
\* when it fails, the batch is dropped.
Store(c, lines) ==
  IF Exists(command[c].id)
  THEN /\ logs' = logs \cup {[command |-> c, agent |-> command[c].id, line |-> l] : l \in lines}
       /\ UNCHANGED lossy
  ELSE lossy' = (IF lines = {} THEN lossy ELSE lossy \cup {c}) /\ UNCHANGED logs

Drop(c) == lossy' = lossy \cup {c} /\ UNCHANGED logs

OpenLogs(c) ==
  /\ At(c, "open")
  /\ IF job[c].starts
     THEN Update(c, [command[c] EXCEPT !.pc = "run", !.connected = TRUE, !.reading = Readers])
     ELSE Update(c, [command[c] EXCEPT !.pc = "close", !.connected = TRUE, !.outcome = "FAILED"])
  /\ UNCHANGED <<presenceVars, liveVars, job, handler, logs, results, orphans, lossy, fileVars>>

Written(c, s) == [command[c] EXCEPT !.left[s] = @ - 1]

\* The row the server makes of a line waits with those before it.
Buffered(c, line) == command[c].buffer \cup {line}

HasRoom_OneMore(buffer) == Cardinality(buffer) <= BufferLimit
HasRoom(buffer) == Cardinality(buffer) < BufferLimit

\* A reader stops for good at a line of more than 1 MB, or when it cannot send.
ReadLine(c, s, stored) ==
  LET line == <<s, job[c].lines[s] - command[c].left[s] + 1>>
      buffer == Buffered(c, line)
  IN  /\ At(c, "run") /\ s \in command[c].reading /\ command[c].left[s] > 0 /\ ~ command[c].ended
      /\ IF ~ command[c].connected \/ line \in job[c].long
         THEN Update(c, [Written(c, s) EXCEPT !.reading = @ \ {s}]) /\ Drop(c)
         ELSE IF HasRoom(buffer)
         THEN Update(c, [Written(c, s) EXCEPT !.buffer = buffer]) /\ UNCHANGED <<logs, lossy>>
         ELSE /\ Update(c, [Written(c, s) EXCEPT !.buffer = {}])
              /\ IF stored THEN Store(c, buffer) ELSE Drop(c)
      /\ UNCHANGED <<presenceVars, liveVars, job, handler, results, orphans, fileVars>>

\* A line nobody reads any more, if there is room in the pipe.
FillPipe(c, s) ==
  /\ At(c, "run") /\ s \notin command[c].reading /\ command[c].left[s] > 0 /\ ~ command[c].ended
  /\ Update(c, Written(c, s))
  /\ Drop(c)
  /\ UNCHANGED <<presenceVars, liveVars, job, handler, results, orphans, fileVars>>

\* The server drops what it has in its buffer.
BreakStream(c) ==
  /\ At(c, "run") /\ command[c].connected
  /\ Update(c, [command[c] EXCEPT !.connected = FALSE, !.buffer = {}])
  /\ IF command[c].buffer = {} THEN UNCHANGED <<logs, lossy>> ELSE Drop(c)
  /\ UNCHANGED <<presenceVars, liveVars, job, handler, results, orphans, fileVars>>

\* Two goroutines that send on one stream at the same time: whatever comes of it.
SendersCollide(c) ==
  /\ At(c, "run") /\ ~ command[c].ended
  /\ command[c].reading = Readers /\ \A s \in Readers : command[c].left[s] > 0
  /\ BreakStream(c)

Exit(c) ==
  /\ At(c, "run") /\ ~ command[c].ended /\ \A s \in Readers : command[c].left[s] = 0
  /\ Update(c, [command[c] EXCEPT !.ended = TRUE, !.outcome = job[c].exit])
  /\ UNCHANGED <<presenceVars, liveVars, job, handler, logs, results, orphans, lossy, fileVars>>

HasDeadline_OnlyIfSet(c) == job[c].timeout > 0

\* 30 minutes if the task does not say.
HasDeadline(c) == TRUE

Timeout(c) ==
  /\ At(c, "run") /\ ~ command[c].ended /\ HasDeadline(c)
  /\ Update(c, [command[c] EXCEPT !.ended = TRUE, !.outcome = "TIMED_OUT"])
  /\ UNCHANGED <<presenceVars, liveVars, job, handler, logs, results, orphans, lossy, fileVars>>

\* wg.Wait: a reader that is not yet stopped waits until the last process that has the pipe
\* is gone, also one the command has left behind.
Held(c) == job[c].leaves /\ command[c].reading # {}

\* A command that has failed counts as timed out if its deadline passes meanwhile.
ReadersEnd(c) ==
  /\ At(c, "run") /\ command[c].ended /\ ~ Held(c)
  /\ \E outcome \in {command[c].outcome} \cup IF command[c].outcome = "FAILED" THEN {"TIMED_OUT"} ELSE {} :
       Update(c, [command[c] EXCEPT !.pc = "close", !.outcome = outcome])
  /\ UNCHANGED <<presenceVars, liveVars, job, handler, logs, results, orphans, lossy, fileVars>>

FinalFlush_None(c) == UNCHANGED <<logs, lossy>>

FinalFlush(c) == Store(c, command[c].buffer)

\* CloseAndRecv: the server stores the rest and answers before the result is sent.
CloseLogs(c, stored) ==
  /\ At(c, "close")
  /\ IF stored THEN FinalFlush(c) ELSE Drop(c)
  /\ Update(c, [command[c] EXCEPT !.pc = "submit", !.connected = FALSE, !.buffer = {}])
  /\ UNCHANGED <<presenceVars, liveVars, job, handler, results, orphans, fileVars>>

-----------------------------------------------------------------------------
(* SubmitTaskResult.  The agent does not repeat a call that failed, and     *)
(* after an update that it has applied it ends whatever became of the call. *)

AfterCall(c, pc) ==
  IF Type(c) = "AGENT_UPDATE" /\ command[c].outcome = "SUCCESS" /\ Running(Host(c)) THEN "exit"
  ELSE pc

SaveResult(c) ==
  /\ At(c, "submit")
  /\ IF Exists(command[c].id)
     THEN /\ results' = results \cup {[command |-> c, agent |-> command[c].id,
                                       outcome |-> command[c].outcome]}
          /\ Goto(c, "mark")
     ELSE Goto(c, AfterCall(c, "lost")) /\ UNCHANGED results
  /\ UNCHANGED <<presenceVars, liveVars, job, handler, logs, orphans, lossy, fileVars>>

StatusAfter(c) == IF job[c].recurring THEN "pending" ELSE FinalStatus[command[c].outcome]

MarkCompleted_NoBroadcast(c) ==
  /\ At(c, "mark")
  /\ status' = [status EXCEPT ![Task(c)] = StatusAfter(c)] /\ UNCHANGED publish
  /\ Goto(c, "publish")
  /\ UNCHANGED <<presenceVars, broadcast, browser, overtaken, job, handler, logs, results, orphans,
                 lossy, fileVars>>

MarkCompleted(c) ==
  /\ At(c, "mark")
  /\ ToPublish(ResultOf(c), Task(c), StatusAfter(c))
  /\ Goto(c, "publish")
  /\ UNCHANGED <<presenceVars, broadcast, browser, overtaken, job, handler, logs, results, orphans,
                 lossy, fileVars>>

\* The files of the task are removed in a goroutine.
FinishCall(c) ==
  /\ At(c, "publish") /\ Idle(ResultOf(c))
  /\ cleaning' = IF Uploads(job[c]) = {} THEN cleaning ELSE cleaning \cup {Task(c)}
  /\ Goto(c, AfterCall(c, "over"))
  /\ UNCHANGED <<presenceVars, liveVars, job, handler, logs, results, orphans, lossy, package, disk,
                 delivered, spoiled, shared>>

\* The call does not reach the server or fails there.
CallFails(c) ==
  /\ At(c, "submit") \/ At(c, "mark")
  /\ Goto(c, AfterCall(c, "lost"))
  /\ UNCHANGED <<presenceVars, liveVars, job, handler, logs, results, orphans, lossy, fileVars>>

\* The caller is gone.
CancelCall(c) ==
  /\ At(c, "mark") /\ ~ Running(Host(c))
  /\ CallFails(c)

CleanUp(t) ==
  /\ t \in cleaning
  /\ package' = [package EXCEPT ![t] = {}]
  /\ cleaning' = cleaning \ {t}
  /\ UNCHANGED <<presenceVars, liveVars, job, command, handler, logs, results, orphans, lossy, disk,
                 delivered, spoiled, shared>>

-----------------------------------------------------------------------------
(* The end of an agent process, and of its row.                             *)

EndCommands(h) ==
  LET ended == {c \in Jobs : Host(c) = h /\ command[c].pc \in OnAgent} IN
  /\ command' = [c \in Jobs |->
       IF c \in ended THEN [command[c] EXCEPT !.pc = IF @ = "exit" THEN "over" ELSE "lost",
                                              !.path = {}, !.buffer = {}, !.connected = FALSE]
       ELSE command[c]]
  /\ spoiled' = spoiled \cup UNION {command[c].path : c \in ended}
  /\ lossy' = lossy \cup {c \in ended : command[c].pc = "run" \/ command[c].buffer # {}}

AgentEnds(h) ==
  /\ Die(h) /\ EndCommands(h)
  /\ UNCHANGED <<liveVars, job, handler, logs, results, orphans, package, cleaning, disk, delivered,
                 shared>>

\* os.Exit: whatever else the agent is doing ends as well.
ExitAfterUpdate(c) == At(c, "exit") /\ AgentEnds(Host(c))

\* Results and logs go with the agent, its tasks stay without it.
RemoveAgent(i) ==
  /\ DeleteAgent(i)
  /\ logs' = {l \in logs : l.agent # i}
  /\ results' = {r \in results : r.agent # i}
  /\ orphans' = orphans \cup {t \in Tasks : \E c \in Jobs : Task(c) = t /\ i \in registered[Host(c)]}
  /\ UNCHANGED <<liveVars, job, command, handler, lossy, fileVars>>
=============================================================================
