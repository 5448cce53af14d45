----------------------------- MODULE LiveProofs -----------------------------
(***************************************************************************)
(* Theorems about what users see of Fleet, for every plan, set of commands *)
(* and browsers: the pages of tasks, the badges, and the types of it all.  *)
(***************************************************************************)
EXTENDS RuntimeProofs

-----------------------------------------------------------------------------
(* The inductive invariant, in parts. *)

\* A final status has a result behind it.
Finished == {"completed", "failed", "timed_out"}
HasResult(t) == t \in orphans \/ \E r \in results : Task(r.command) = t
Behind ==
  /\ \A c \in Jobs : command[c].pc = "mark" => HasResult(Task(c))
  /\ \A t \in Tasks : status[t] \in Finished => HasResult(t)

PageOK ==
  /\ DOMAIN page = DOMAIN NoPage /\ page.pc \in {"none", "row", "result", "shown"}
  /\ page.task \subseteq Tasks /\ page.status \in Statuses /\ page.unread \subseteq {"result", "logs"}
  /\ page.pc \in {"row", "result"} => \E t \in Tasks : page.task = {t}
  /\ page.pc = "row" /\ page.status \in Finished => \A t \in page.task : HasResult(t)
  /\ page.pc \in {"result", "shown"} /\ page.status \in Finished =>
       page.task \subseteq orphans \/ page.results # {} \/ "result" \in page.unread
  /\ \A r \in page.results : /\ r.command \in Jobs /\ Task(r.command) \in page.task
                             /\ command[r.command].pc \in After

\* What is broadcast for a command is about its task; the goroutine of a result broadcasts
\* what the row still says.
Publishing(c) ==
  /\ \A p \in {StreamOf(c), ResultOf(c)} :
       publish[p].pc = "cast" => \A e \in publish[p].event : e.task = Task(c)
  /\ publish[ResultOf(c)].pc # "idle" =>
       /\ command[c].pc = "publish"
       /\ Once(Task(c)) => /\ status[Task(c)] \in Finished
                           /\ publish[ResultOf(c)].pc = "cast" =>
                                \A e \in publish[ResultOf(c)].event : e.status = status[Task(c)]

\* When all goroutines of a task have broadcast, the last event on its way to a browser, or
\* its badge if there is none, is what the row says.
Silent(t) == \A c \in Jobs : Task(c) = t => Idle(StreamOf(c)) /\ Idle(ResultOf(c))
About(channel, t) == {e \in Events : channel = <<e>> /\ e.task = t}
Says(channel, t) == \A e \in About(channel, t) : e.status = status[t]
Settled(b, t) ==
  /\ Says(broadcast, t)
  /\ browser[b].pc # "closed" /\ t \in MayView[b] \ browser[b].missed /\ About(broadcast, t) = {} =>
       IF About(browser[b].inbox, t) = {} THEN browser[b].badge[t] = status[t]
       ELSE Says(browser[b].inbox, t)
Badges ==
  \A b \in DOMAIN browser, t \in Tasks : Once(t) /\ Silent(t) /\ t \notin overtaken => Settled(b, t)

-----------------------------------------------------------------------------
(* Publishers, the broker and browsers: types. *)

AtMostOne(s) == s = <<>> \/ \E e \in Events : s = <<e>>
OneBrowser(b) ==
  LET w == browser[b] IN
  /\ DOMAIN w = {"pc", "inbox", "missed", "badge"} /\ w.pc \in {"closed", "loaded", "live"}
  /\ AtMostOne(w.inbox) /\ (w.pc # "live" => w.inbox = <<>>)
  /\ w.missed \subseteq Tasks /\ w.badge \in [MayView[b] -> Statuses \cup {"none"}]

LiveBase ==
  /\ status \in [Tasks -> Statuses]
  /\ DOMAIN publish = Publishers
  /\ \A p \in Publishers : publish[p] \in [pc : {"idle", "get", "cast"}, event : SUBSET Events]
  /\ AtMostOne(broadcast) /\ overtaken \subseteq Tasks
  /\ DOMAIN browser \subseteq Browsers /\ \A b \in DOMAIN browser : OneBrowser(b)

LEMMA Singles ==
  /\ \A e \in Events : <<e>> \in Seq(Events) /\ Len(<<e>>) = 1 /\ Head(<<e>>) = e /\ Tail(<<e>>) = <<>>
                       /\ <<e>> # <<>> /\ DOMAIN <<e>> = {1} /\ <<e>>[1] = e
  /\ <<>> \in Seq(Events) /\ Len(<<>>) = 0 /\ DOMAIN <<>> = {}
  /\ \A e \in Events : Append(<<>>, e) = <<e>>
  OBVIOUS

LEMMA EventTypes ==
  \A t \in Tasks, s \in Statuses :
    [task |-> t, status |-> s] \in Events /\ [task |-> t, status |-> s].task = t
    /\ [task |-> t, status |-> s].status = s
  BY DEF Events

LEMMA LiveTyped ==
  ASSUME LiveBase
  PROVE  LiveTypeOK
  <1>1. ASSUME NEW s, AtMostOne(s)
        PROVE  s \in Seq(Events) /\ Len(s) <= 1
    <2>1. CASE s = <<>>
      BY <2>1, Singles
    <2>2. ASSUME NEW e \in Events, s = <<e>>
          PROVE  s \in Seq(Events) /\ Len(s) <= 1
      BY <2>2, Singles
    <2>. QED BY <1>1, <2>1, <2>2 DEF AtMostOne
  <1>. QED BY <1>1 DEF LiveBase, LiveTypeOK, OneBrowser

LEMMA LiveInitBase ==
  ASSUME FleetInit
  PROVE  LiveBase
  <1>1. PICK plan \in Plans : LiveInit(plan.opened)
    BY DEF FleetInit
  <1>2. ASSUME NEW b \in DOMAIN browser
        PROVE  OneBrowser(b)
    <2>1. browser[b] = [pc |-> "closed", inbox |-> <<>>, missed |-> {}, badge |-> [t \in MayView[b] |-> "none"]]
      BY <1>1 DEF LiveInit
    <2>. QED BY <2>1 DEF OneBrowser, AtMostOne
  <1>3. DOMAIN browser \subseteq Browsers
    BY <1>1, PlanAssumption DEF LiveInit
  <1>. QED BY <1>1, <1>2, <1>3 DEF LiveInit, LiveBase, AtMostOne, Statuses

LEMMA PublishersApart ==
  ASSUME Base, NEW c \in Jobs
  PROVE  /\ StreamOf(c) \in Publishers /\ ResultOf(c) \in Publishers /\ StreamOf(c) # ResultOf(c)
         /\ Task(c) \in Tasks
         /\ \A d : d # c => /\ StreamOf(d) \notin {StreamOf(c), ResultOf(c)}
                            /\ ResultOf(d) \notin {StreamOf(c), ResultOf(c)}
  BY ViewAssumption DEF Base, Shape, IsJob, StreamOf, ResultOf, Task

\* What a command does to the status of its task.
LEMMA StatusEffect ==
  ASSUME Base, NEW c \in Jobs, CommandAct(c)
  PROVE  \/ UNCHANGED <<status, publish>>
         \/ /\ Assign(c) /\ status[Task(c)] = "pending" /\ ToPublish(StreamOf(c), Task(c), "assigned")
         \/ /\ Acknowledge(c) /\ status[Task(c)] = "assigned" /\ ToPublish(StreamOf(c), Task(c), "running")
         \/ /\ MarkCompleted(c) /\ ToPublish(ResultOf(c), Task(c), StatusAfter(c))
            /\ StatusAfter(c) \in {"pending", "completed", "failed", "timed_out"}
  <1>1. CASE Assign(c)
    BY <1>1 DEF Assign, WriteIfCurrent
  <1>2. CASE Acknowledge(c)
    BY <1>2 DEF Acknowledge, WriteIfCurrent
  <1>3. CASE MarkCompleted(c)
    <2>1. command[c].outcome \in Outcomes
      BY DEF Base, Control
    <2>2. StatusAfter(c) \in {"pending", "completed", "failed", "timed_out"}
      BY <2>1 DEF StatusAfter, FinalStatus, Outcomes
    <2>. QED BY <1>3, <2>2 DEF MarkCompleted
  <1>. QED BY <1>1, <1>2, <1>3, CommandFrame

LEMMA ToPublishTypes ==
  ASSUME LiveBase, NEW p, NEW t \in Tasks, NEW s \in Statuses, ToPublish(p, t, s),
         UNCHANGED <<broadcast, browser, overtaken>>
  PROVE  LiveBase'
  <1>1. status' \in [Tasks -> Statuses]
    BY DEF ToPublish, LiveBase
  <1>2. /\ DOMAIN publish' = Publishers
        /\ \A q \in Publishers : publish'[q] \in [pc : {"idle", "get", "cast"}, event : SUBSET Events]
    BY DEF ToPublish, LiveBase
  <1>. QED BY <1>1, <1>2 DEF LiveBase, OneBrowser

\* What a step of a publisher, the broker or a browser does, with the types it keeps.
LEMMA PublisherTypes ==
  ASSUME LiveBase, Base, NEW c \in Jobs, NEW p \in {StreamOf(c), ResultOf(c)},
         GetForPublish(p, Task(c)) \/ GetFails(p, Task(c)) \/ Broadcast(p)
  PROVE  LiveBase'
  <1>0. p \in Publishers /\ Task(c) \in Tasks
    BY PublishersApart
  <1>1. CASE GetForPublish(p, Task(c))
    <2>1. [task |-> Task(c), status |-> status[Task(c)]] \in Events
      BY <1>0 DEF LiveBase, Events
    <2>2. /\ DOMAIN publish' = Publishers
          /\ \A q \in Publishers : publish'[q] \in [pc : {"idle", "get", "cast"}, event : SUBSET Events]
      BY <1>0, <1>1, <2>1 DEF GetForPublish, LiveBase
    <2>. QED BY <1>1, <2>2 DEF GetForPublish, LiveBase, OneBrowser
  <1>2. CASE GetFails(p, Task(c))
    <2>1. /\ DOMAIN publish' = Publishers /\ overtaken' \subseteq Tasks
          /\ \A q \in Publishers : publish'[q] \in [pc : {"idle", "get", "cast"}, event : SUBSET Events]
      BY <1>0, <1>2 DEF GetFails, LiveBase
    <2>. QED BY <1>2, <2>1 DEF GetFails, LiveBase, OneBrowser
  <1>3. CASE Broadcast(p)
    <2>1. PICK e \in publish[p].event :
            /\ broadcast' = Append(broadcast, e)
            /\ overtaken' = IF p[2] = "stream" /\ e.status # status[e.task]
                            THEN overtaken \cup {e.task} ELSE overtaken \ {e.task}
      BY <1>3 DEF Broadcast
    <2>2. e \in Events /\ e.task \in Tasks
      BY <1>0, <2>1 DEF LiveBase, Events
    <2>3. broadcast = <<>>
      BY <1>3, Singles DEF Broadcast, LiveBase, AtMostOne
    <2>4. AtMostOne(broadcast') /\ overtaken' \subseteq Tasks
      BY <2>1, <2>2, <2>3, Singles DEF AtMostOne, LiveBase
    <2>5. /\ DOMAIN publish' = Publishers
          /\ \A q \in Publishers : publish'[q] \in [pc : {"idle", "get", "cast"}, event : SUBSET Events]
      BY <1>0, <1>3 DEF Broadcast, LiveBase
    <2>. QED BY <1>3, <2>4, <2>5 DEF Broadcast, LiveBase, OneBrowser
  <1>. QED BY <1>1, <1>2, <1>3

LEMMA OfferTypes ==
  ASSUME LiveBase, NEW b \in DOMAIN browser, NEW e \in Events
  PROVE  LET w == Offer(b, e) IN
         /\ DOMAIN w = {"pc", "inbox", "missed", "badge"} /\ w.pc = browser[b].pc /\ w.badge = browser[b].badge
         /\ IF w.pc = "live" /\ browser[b].inbox = <<>>
            THEN w.inbox = <<e>> /\ w.missed = browser[b].missed \ {e.task}
            ELSE w.inbox = browser[b].inbox /\ w.missed = browser[b].missed \cup {e.task}
  BY DEF Offer, LiveBase, OneBrowser

LEMMA PassOnTypes ==
  ASSUME LiveBase, PassOn
  PROVE  LiveBase' /\ broadcast' = <<>>
         /\ \E e \in Events : broadcast = <<e>> /\ browser' = [b \in DOMAIN browser |-> Offer(b, e)]
  <1>1. PICK e \in Events : broadcast = <<e>>
    BY DEF PassOn, LiveBase, AtMostOne
  <1>2. broadcast' = <<>> /\ browser' = [b \in DOMAIN browser |-> Offer(b, e)]
    BY <1>1, Singles DEF PassOn
  <1>3. ASSUME NEW b \in DOMAIN browser
        PROVE  OneBrowser(b)'
    <2>1. browser'[b] = Offer(b, e)
      BY <1>2
    <2>2. e.task \in Tasks /\ AtMostOne(<<e>>)
      BY DEF Events, AtMostOne
    <2>3. OneBrowser(b)
      BY DEF LiveBase
    <2>. QED BY <2>1, <2>2, <2>3, OfferTypes DEF OneBrowser
  <1>. QED BY <1>1, <1>2, <1>3 DEF PassOn, LiveBase, AtMostOne

\* The new state of the one browser that changes.
Becomes(b, w) == browser' = [browser EXCEPT ![b] = w]
LEMMA BrowserTypes ==
  ASSUME LiveBase, NEW b \in DOMAIN browser, LoadPage(b) \/ Subscribe(b) \/ Disconnect(b) \/ Deliver(b)
  PROVE  LiveBase' /\ UNCHANGED <<status, publish, broadcast, overtaken>>
         /\ DOMAIN browser' = DOMAIN browser /\ \A d \in DOMAIN browser : d # b => browser'[d] = browser[d]
  <1>0. OneBrowser(b) /\ b \in Browsers /\ MayView[b] \subseteq Tasks
    BY ViewAssumption DEF LiveBase
  <1>1. OneBrowser(b)'
    <2>1. CASE LoadPage(b)
      <3>1. browser'[b] = [pc |-> "loaded", inbox |-> <<>>, missed |-> {},
                           badge |-> [t \in MayView[b] |-> status[t]]]
        BY <2>1 DEF LoadPage
      <3>2. [t \in MayView[b] |-> status[t]] \in [MayView[b] -> Statuses \cup {"none"}]
        BY <1>0 DEF LiveBase
      <3>. QED BY <3>1, <3>2 DEF OneBrowser, AtMostOne
    <2>2. CASE Subscribe(b)
      <3>1. browser'[b] = Subscribed(b)
        BY <2>2 DEF Subscribe
      <3>. QED BY <1>0, <3>1 DEF OneBrowser, AtMostOne, Subscribed
    <2>3. CASE Disconnect(b)
      <3> DEFINE ts == {browser[b].inbox[i].task : i \in DOMAIN browser[b].inbox}
      <3>0. browser' = [browser EXCEPT ![b].pc = "loaded", ![b].inbox = <<>>, ![b].missed = @ \cup ts]
        BY <2>3 DEF Disconnect
      <3>2. ts \subseteq Tasks
        BY <1>0, Singles DEF OneBrowser, AtMostOne, Events
      <3> HIDE DEF ts
      <3>1. browser'[b] = [browser[b] EXCEPT !.pc = "loaded", !.inbox = <<>>, !.missed = @ \cup ts]
        BY <3>0
      <3>. QED BY <1>0, <3>1, <3>2 DEF OneBrowser, AtMostOne
    <2>4. CASE Deliver(b)
      <3>1. browser'[b] = [browser[b] EXCEPT !.inbox = <<>>, !.badge = Badge(b, Head(browser[b].inbox))]
        BY <2>4 DEF Deliver
      <3>2. PICK e \in Events : browser[b].inbox = <<e>>
        BY <1>0, <2>4 DEF Deliver, OneBrowser, AtMostOne
      <3>3. Badge(b, e) \in [MayView[b] -> Statuses \cup {"none"}]
        BY <1>0 DEF Badge, OneBrowser, Events
      <3>4. Head(browser[b].inbox) = e
        BY <3>2, Singles
      <3>. QED BY <1>0, <3>1, <3>3, <3>4 DEF OneBrowser, AtMostOne
    <2>. QED BY <2>1, <2>2, <2>3, <2>4
  <1>2. /\ UNCHANGED <<status, publish, broadcast, overtaken>> /\ DOMAIN browser' = DOMAIN browser
        /\ \A d \in DOMAIN browser : d # b => browser'[d] = browser[d]
    BY DEF LoadPage, Subscribe, Disconnect, Deliver
  <1>. QED BY <1>1, <1>2 DEF LiveBase, OneBrowser

LEMMA LiveStep ==
  ASSUME LiveBase, Base, JobsOnHosts, [FleetNext]_vars
  PROVE  LiveBase'
  <1>1. ASSUME NEW c \in Jobs, CommandAct(c)
        PROVE  LiveBase'
    <2>1. UNCHANGED <<broadcast, browser, overtaken>>
      BY <1>1, CommandFrame
    <2>2. CASE UNCHANGED <<status, publish>>
      BY <2>1, <2>2 DEF LiveBase, OneBrowser
    <2>3. CASE \E p, s : s \in Statuses /\ ToPublish(p, Task(c), s)
      BY <2>1, <2>3, PublishersApart, ToPublishTypes
    <2>. QED BY <1>1, <2>2, <2>3, StatusEffect DEF Statuses
  <1>2. CASE UNCHANGED liveVars
    BY <1>2 DEF LiveBase, OneBrowser, liveVars
  <1>3. CASE LiveAct
    BY <1>3, PublisherTypes, PassOnTypes, BrowserTypes DEF LiveAct
  <1>4. \/ \E c \in Jobs : CommandAct(c)
        \/ UNCHANGED liveVars
        \/ LiveAct
    BY Steps, EndFrame DEF RemoveAgent, CleanUp, RowAct
  <1>. QED BY <1>1, <1>2, <1>3, <1>4

LEMMA LiveInvariant == FleetSpec => []LiveBase
  <1>1. FleetInit => LiveBase
    BY LiveInitBase
  <1>2. JobsOnHosts /\ Base /\ LiveBase /\ [FleetNext]_vars => LiveBase'
    BY LiveStep
  <1>. QED BY <1>1, <1>2, BaseInvariant, PTL DEF FleetSpec

-----------------------------------------------------------------------------
(* Pages. *)

LEMMA AfterKept ==
  ASSUME Base, JobsOnHosts, [FleetNext]_vars, NEW c \in Jobs, command[c].pc \in After
  PROVE  command'[c].pc \in After /\ Lines(c)' = Lines(c)
  <1>0. job' = job /\ Shape
    BY JobsStep DEF Base
  <1>1. ASSUME command'[c].pc \in After, Same(c, {"left"})
        PROVE  command'[c].pc \in After /\ Lines(c)' = Lines(c)
    BY <1>0, <1>1, LinesSame DEF Same
  <1>2. ASSUME NEW d \in Jobs, CommandAct(d)
        PROVE  command'[c].pc \in After /\ Lines(c)' = Lines(c)
    <2>1. CASE c = d
      BY <1>1, <1>2, <2>1, AfterStays, LinesKept DEF Same
    <2>2. CASE c # d
      <3>1. command[d].outcome \in Outcomes
        BY DEF Base, Control
      <3>2. command'[c] = command[c]
        BY <1>0, <1>2, <2>2, <3>1, CommandMoves DEF Moved
      <3>. QED BY <1>1, <3>2 DEF Same
    <2>. QED BY <2>1, <2>2
  <1>3. ASSUME NEW h, AgentEnds(h)
        PROVE  command'[c].pc \in After /\ Lines(c)' = Lines(c)
    <2>1. command'[c].pc \in After /\ Same(c, {"left"})
      BY <1>0, <1>3, AgentEndsEffect DEF Same, After
    <2>. QED BY <1>1, <2>1
  <1>4. CASE command' = command
    BY <1>1, <1>4 DEF Same
  <1>5. \/ \E d \in Jobs : CommandAct(d)
        \/ \E h : AgentEnds(h)
        \/ command' = command
    BY Steps DEF RemoveAgent, CleanUp, RowAct, runtimeVars
  <1>. QED BY <1>2, <1>3, <1>4, <1>5

\* A result stays until the agent is deleted; its task is then left without one.
LEMMA ResultStays ==
  ASSUME Base, FileInv, ResultAgents, JobsOnHosts, [FleetNext]_vars
  PROVE  /\ orphans \subseteq orphans'
         /\ \A t \in Tasks : HasResult(t) => HasResult(t)'
  <1>0. job' = job /\ \A c : Task(c)' = Task(c)
    BY JobsStep DEF Task
  <1>1. ASSUME orphans \subseteq orphans', results \subseteq results'
        PROVE  \A t \in Tasks : HasResult(t) => HasResult(t)'
    BY <1>0, <1>1 DEF HasResult
  <1>2. ASSUME NEW i \in Ids, RemoveAgent(i)
        PROVE  /\ orphans \subseteq orphans'
               /\ \A t \in Tasks : HasResult(t) => HasResult(t)'
    <2>1. orphans \subseteq orphans'
      BY <1>2 DEF RemoveAgent
    <2>2. ASSUME NEW t \in Tasks, NEW r \in results, Task(r.command) = t, r \notin results'
          PROVE  t \in orphans'
      <3>1. r.agent = i /\ r.command \in Jobs /\ i \in registered[Host(r.command)]
        BY <1>2, <2>2 DEF RemoveAgent, ResultAgents, FileInv, ResultRows
      <3>. QED BY <1>2, <2>2, <3>1 DEF RemoveAgent
    <2>. QED BY <1>0, <2>1, <2>2 DEF HasResult
  <1>3. \/ orphans \subseteq orphans' /\ results \subseteq results'
        \/ \E i \in Ids : RemoveAgent(i)
    <2>1. ASSUME NEW c \in Jobs, CommandAct(c)
          PROVE  orphans \subseteq orphans' /\ results \subseteq results'
      BY <2>1, CommandFrame, ResultEffect DEF Base
    <2>. QED BY <2>1, Steps, EndFrame DEF CleanUp, RowAct, runtimeVars
  <1>. QED BY <1>1, <1>2, <1>3

LEMMA BehindStep ==
  ASSUME Base, FileInv, ResultAgents, LiveBase, Behind, JobsOnHosts, [FleetNext]_vars
  PROVE  Behind'
  <1>0. job' = job /\ Jobs' = Jobs /\ \A c : Task(c)' = Task(c)
    BY JobsStep DEF Jobs, Task
  <1>1. \A c \in Jobs : Task(c) \in Tasks
    BY PublishersApart
  <1>2. ASSUME NEW c \in Jobs, command'[c].pc = "mark"
        PROVE  HasResult(Task(c))'
    <2>1. CASE command[c].pc = "mark"
      BY <1>0, <1>1, <2>1, ResultStays DEF Behind, HasResult
    <2>2. CASE command[c].pc # "mark"
      <3>1. SaveResult(c)
        <4>0. Shape /\ command[c].outcome \in Outcomes
          BY DEF Base, Control
        <4>1. ASSUME NEW d \in Jobs, CommandAct(d)
              PROVE  SaveResult(c)
          <5>1. d = c
            <6>1. command[d].outcome \in Outcomes
              BY DEF Base, Control
            <6>. QED BY <1>2, <2>2, <4>0, <4>1, <6>1, CommandMoves DEF Moved
          <5>2. CASE FileAct(c)
            BY <1>2, <4>0, <5>2, TargetEffect, ChunkEffect, WriteFailsEffect, ApplyEffect DEF FileAct
          <5>3. CASE LogAct(c)
            <6>1. ASSUME NEW s \in Readers, NEW stored, ReadLine(c, s, stored)
                  PROVE  FALSE
              <7>1. command[c].pc = "run" /\ Same(c, {"pc", "id", "path", "chunk", "wait", "outcome"})
                BY <4>0, <6>1, ReadLineEffect
              <7>. QED BY <1>2, <7>1 DEF Same
            <6>2. ASSUME NEW s \in Readers, FillPipe(c, s)
                  PROVE  FALSE
              <7>1. command[c].pc = "run" /\ Same(c, (Data \ {"left"}) \cup {"pc"})
                BY <4>0, <6>2, FillPipeEffect
              <7>. QED BY <1>2, <7>1 DEF Same
            <6>3. CASE BreakStream(c)
              <7>1. command[c].pc = "run" /\ Same(c, (Data \ {"buffer"}) \cup {"pc"})
                BY <4>0, <6>3, BreakStreamEffect
              <7>. QED BY <1>2, <7>1 DEF Same
            <6>4. ASSUME NEW stored, CloseLogs(c, stored)
                  PROVE  FALSE
              BY <1>2, <4>0, <6>4, CloseEffect
            <6>. QED BY <5>3, <6>1, <6>2, <6>3, <6>4 DEF LogAct
          <5>4. CASE StreamAct(c)
            BY <1>2, <2>2, <4>0, <5>4, SendEffect DEF StreamAct, Assign, Acknowledge
          <5>5. CASE Start(c) \/ ReadPackageFile(c)
            <6>1. Type(c) \in {"EXEC_COMMAND", "EXEC_PYTHON_SCRIPT", "PUSH_FILE", "FETCH_FILE",
                               "AGENT_UPDATE"}
              BY DEF Base, Shape, IsJob, Type
            <6>2. command[c].pc = "package" => Type(c) \in {"EXEC_PYTHON_SCRIPT", "PUSH_FILE", "AGENT_UPDATE"}
              BY DEF Base, Control
            <6>. QED BY <1>2, <4>0, <5>5, <6>1, <6>2, StartEffect, PackageEffect DEF FirstPC, AfterPackage
          <5>6. CASE StepFails(c) \/ OpenLogs(c) \/ Exit(c) \/ Timeout(c) \/ ReadersEnd(c)
            BY <1>2, <4>0, <5>6, StepFailsEffect, OpenLogsEffect, EndEffect
          <5>7. CASE FinishCall(c) \/ CallFails(c) \/ MarkCompleted(c)
            BY <1>2, <4>0, <5>7, FinishEffect, FailsEffect, MarkEffect
          <5>. QED BY <4>1, <5>1, <5>2, <5>3, <5>4, <5>5, <5>6, <5>7 DEF CommandAct, ControlAct
        <4>2. ASSUME NEW h, AgentEnds(h)
              PROVE  FALSE
          BY <1>2, <2>2, <4>0, <4>2, AgentEndsEffect
        <4>3. \/ \E d \in Jobs : CommandAct(d)
              \/ \E h : AgentEnds(h)
              \/ command' = command
          BY Steps DEF RemoveAgent, CleanUp, RowAct, runtimeVars
        <4>. QED BY <1>2, <2>2, <4>1, <4>2, <4>3
      <3> DEFINE row == [command |-> c, agent |-> command[c].id, outcome |-> command[c].outcome]
      <3>2. results' = results \cup {row}
        BY <1>2, <3>1, ResultEffect DEF Base
      <3>3. row.command = c
        OBVIOUS
      <3> HIDE DEF row
      <3>. QED BY <1>0, <3>2, <3>3 DEF HasResult
    <2>. QED BY <2>1, <2>2
  <1>3. ASSUME NEW t \in Tasks, status'[t] \in Finished
        PROVE  HasResult(t)'
    <2>1. CASE status[t] \in Finished
      BY <2>1, ResultStays DEF Behind
    <2>2. CASE status[t] \notin Finished
      <3>1. PICK c \in Jobs : CommandAct(c) /\ status' # status
        <4>1. LiveAct => status' = status
          BY DEF LiveAct, GetForPublish, GetFails, Broadcast, PassOn, Deliver, LoadPage, Subscribe, Disconnect
        <4>. QED BY <1>3, <2>2, <4>1, Steps, EndFrame DEF RemoveAgent, CleanUp, RowAct, liveVars
      <3>2. MarkCompleted(c) /\ ToPublish(ResultOf(c), Task(c), StatusAfter(c))
        <4>1. ASSUME NEW p, NEW s, s \in {"assigned", "running"}, ToPublish(p, Task(c), s)
              PROVE  status'[t] \notin Finished
          BY <2>2, <4>1 DEF ToPublish, LiveBase, Finished
        <4>. QED BY <1>3, <3>1, <4>1, StatusEffect
      <3>3. t = Task(c) /\ command[c].pc = "mark"
        BY <1>3, <2>2, <3>2, MarkEffect DEF ToPublish, LiveBase, Base
      <3>. QED BY <3>3, ResultStays DEF Behind
    <2>. QED BY <2>1, <2>2
  <1>. QED BY <1>0, <1>2, <1>3 DEF Behind

LEMMA PageRows ==
  ASSUME Base, FileInv, ResultAgents, PageOK, JobsOnHosts, [FleetNext]_vars
  PROVE  \A r \in page.results : /\ r.command \in Jobs' /\ Task(r.command)' \in page.task
                                 /\ command'[r.command].pc \in After
                                 /\ Lines(r.command)' = Lines(r.command)
  <1>0. Jobs' = Jobs /\ \A c : Task(c)' = Task(c)
    BY JobsStep DEF Jobs, Task
  <1>. QED BY <1>0, AfterKept DEF PageOK

LEMMA PageStep ==
  ASSUME Base, FileInv, ResultAgents, LiveBase, Behind, PageOK, JobsOnHosts, [FleetNext]_vars
  PROVE  PageOK'
  <1>0. job' = job /\ Jobs' = Jobs /\ \A c : Task(c)' = Task(c)
    BY JobsStep DEF Jobs, Task
  <1>1. ASSUME page' = page
        PROVE  PageOK'
    BY <1>1, PageRows, ResultStays DEF PageOK
  <1>2. ASSUME PageAct, UNCHANGED <<presenceVars, liveVars, runtimeVars>>
        PROVE  PageOK'
    <2>0. /\ UNCHANGED <<results, orphans, status>> /\ command' = command
          /\ \A t : HasResult(t)' = HasResult(t)
      BY <1>2 DEF runtimeVars, liveVars, HasResult, Task
    <2>1. ASSUME NEW t \in Tasks, ViewRow(t)
          PROVE  PageOK'
      <3>1. page' = [NoPage EXCEPT !.pc = "row", !.task = {t}, !.status = status[t]]
        BY <2>1 DEF ViewRow
      <3>2. /\ DOMAIN page' = DOMAIN NoPage /\ page'.pc = "row" /\ page'.task = {t}
            /\ page'.status = status[t] /\ page'.results = {} /\ page'.unread = {}
        BY <3>1 DEF NoPage
      <3>3. status[t] \in Statuses /\ (status[t] \in Finished => HasResult(t))
        BY DEF LiveBase, Behind
      <3>. QED BY <2>0, <3>2, <3>3 DEF PageOK
    <2>2. CASE ViewResult(TRUE)
      <3> DEFINE rs == {r \in results : OfPage(r.command)}
      <3>1. page' = [page EXCEPT !.pc = "result", !.results = rs] /\ page.pc = "row"
        BY <2>2 DEF ViewResult
      <3>2. /\ DOMAIN page' = DOMAIN NoPage /\ page'.pc = "result" /\ page'.task = page.task
            /\ page'.status = page.status /\ page'.results = rs /\ page'.unread = page.unread
        BY <3>1 DEF PageOK, NoPage
      <3>3. PICK t \in Tasks : page.task = {t}
        BY <3>1 DEF PageOK
      <3>4. page.status \in Finished => page.task \subseteq orphans \/ rs # {}
        <4>1. page.status \in Finished => HasResult(t)
          BY <3>1, <3>3 DEF PageOK
        <4>2. ASSUME NEW r \in results, Task(r.command) = t
              PROVE  r \in rs
          BY <3>3, <4>2 DEF OfPage, FileInv, ResultRows
        <4>. QED BY <3>3, <4>1, <4>2 DEF HasResult
      <3>5. \A r \in rs : /\ r.command \in Jobs /\ Task(r.command) \in page.task
                          /\ command[r.command].pc \in After
        BY DEF OfPage, FileInv, ResultRows
      <3> HIDE DEF rs
      <3>6. page.task \subseteq Tasks /\ page.status \in Statuses /\ page.unread \subseteq {"result", "logs"}
        BY DEF PageOK
      <3>. QED BY <1>0, <2>0, <3>2, <3>3, <3>4, <3>5, <3>6 DEF PageOK
    <2>3. CASE ViewResult(FALSE)
      <3>1. page' = [page EXCEPT !.pc = "result", !.unread = @ \cup {"result"}] /\ page.pc = "row"
        BY <2>3 DEF ViewResult
      <3>2. /\ DOMAIN page' = DOMAIN NoPage /\ page'.pc = "result" /\ page'.task = page.task
            /\ page'.status = page.status /\ page'.results = page.results
            /\ page'.unread = page.unread \cup {"result"}
        BY <3>1 DEF PageOK, NoPage
      <3>. QED BY <1>0, <2>0, <3>1, <3>2 DEF PageOK
    <2>4. CASE ViewLogs(TRUE)
      <3> DEFINE ls == {l \in logs : OfPage(l.command)}
      <3>1. page' = [page EXCEPT !.pc = "shown", !.logs = ls] /\ page.pc = "result"
        BY <2>4 DEF ViewLogs
      <3> HIDE DEF ls
      <3>2. /\ DOMAIN page' = DOMAIN NoPage /\ page'.pc = "shown" /\ page'.task = page.task
            /\ page'.status = page.status /\ page'.results = page.results /\ page'.unread = page.unread
        BY <3>1 DEF PageOK, NoPage
      <3>. QED BY <1>0, <2>0, <3>1, <3>2 DEF PageOK
    <2>5. CASE ViewLogs(FALSE)
      <3>1. page' = [page EXCEPT !.pc = "shown", !.unread = @ \cup {"logs"}] /\ page.pc = "result"
        BY <2>5 DEF ViewLogs
      <3>2. /\ DOMAIN page' = DOMAIN NoPage /\ page'.pc = "shown" /\ page'.task = page.task
            /\ page'.status = page.status /\ page'.results = page.results
            /\ page'.unread = page.unread \cup {"logs"}
        BY <3>1 DEF PageOK, NoPage
      <3>. QED BY <1>0, <2>0, <3>1, <3>2 DEF PageOK
    <2>. QED BY <1>2, <2>1, <2>2, <2>3, <2>4, <2>5 DEF PageAct
  <1>. QED BY <1>1, <1>2, Steps DEF RowAct

\* When the logs are read the commands of the page have stored what they had to store.
LEMMA ShownStep ==
  ASSUME Base, FileInv, LogInv, LiveBase, PageOK, PageComplete, JobsOnHosts, [FleetNext]_vars
  PROVE  PageComplete'
  <1>0. job' = job /\ Jobs' = Jobs /\ \A c : Task(c)' = Task(c)
    BY JobsStep DEF Jobs, Task
  <1>1. orphans \subseteq orphans' /\ lossy \subseteq lossy'
    <2>1. ASSUME NEW c \in Jobs, CommandAct(c)
          PROVE  lossy \subseteq lossy'
      BY <2>1, CommandFrame, LogEffect
    <2>2. lossy \subseteq lossy'
      BY <2>1, Steps, EndFrame DEF RemoveAgent, CleanUp, RowAct, runtimeVars
    <2>. QED BY <2>2, ResultStays DEF LogInv
  <1>2. CASE page' = page
    <2>1. \A r \in page.results : Lines(r.command)' = Lines(r.command)
      BY PageRows DEF LogInv
    <2>. QED BY <1>1, <1>2, <2>1 DEF PageComplete
  <1>3. CASE \E t \in Tasks : ViewRow(t)
    BY <1>3 DEF ViewRow, NoPage, PageComplete
  <1>4. ASSUME NEW read \in BOOLEAN, ViewResult(read)
        PROVE  PageComplete'
    <2>1. page'.pc = "result"
      BY <1>4 DEF ViewResult, PageOK, NoPage
    <2>. QED BY <2>1 DEF PageComplete
  <1>5. CASE ViewLogs(TRUE)
    <2> DEFINE ls == {l \in logs : OfPage(l.command)}
    <2>1. page' = [page EXCEPT !.pc = "shown", !.logs = ls] /\ page.pc = "result"
      BY <1>5 DEF ViewLogs
    <2>2. /\ page'.pc = "shown" /\ page'.task = page.task /\ page'.logs = ls
          /\ page'.status = page.status /\ page'.results = page.results /\ page'.unread = page.unread
      BY <2>1 DEF PageOK, NoPage
    <2>3. PICK t \in Tasks : page.task = {t}
      BY <2>1 DEF PageOK
    <2>4. page.status \in Finished =>
            page.task \subseteq orphans \/ page.results # {} \/ "result" \in page.unread
      BY <2>1 DEF PageOK
    <2>5. ASSUME NEW r \in page.results
          PROVE  \/ page.task \subseteq orphans
                 \/ r.command \in lossy
                 \/ Lines(r.command)' \subseteq {l.line : l \in {k \in ls : k.command = r.command}}
      <3> DEFINE c == r.command
      <3>1. c \in Jobs /\ Task(c) \in page.task /\ command[c].pc \in After
        BY DEF PageOK
      <3>2. {k \in ls : k.command = c} = {k \in logs : k.command = c}
        BY <3>1 DEF OfPage
      <3>3. command[c].buffer = {} /\ command[c].pc # "idle"
        BY <3>1 DEF Base, Control, After
      <3>4. c \in lossy \/ Task(c) \in orphans \/ Lines(c) \subseteq Stored(c)
        BY <3>1, <3>3 DEF LogInv, Kept
      <3>5. Lines(c)' = Lines(c)
        BY <3>1, AfterKept
      <3>6. Lines(c)' \subseteq Stored(c) =>
              Lines(c)' \subseteq {l.line : l \in {k \in ls : k.command = c}}
        BY <3>2 DEF Stored
      <3>. QED BY <2>3, <3>1, <3>4, <3>5, <3>6
    <2>6. orphans' = orphans /\ lossy' = lossy
      BY <1>5 DEF ViewLogs, runtimeVars
    <2> HIDE DEF ls
    <2>. QED BY <2>2, <2>4, <2>5, <2>6 DEF PageComplete, Finished
  <1>6. CASE ViewLogs(FALSE)
    <2>1. page' = [page EXCEPT !.pc = "shown", !.unread = @ \cup {"logs"}] /\ page.pc = "result"
      BY <1>6 DEF ViewLogs
    <2>2. /\ page'.task = page.task /\ page'.status = page.status /\ page'.results = page.results
          /\ page'.unread = page.unread \cup {"logs"}
      BY <2>1 DEF PageOK, NoPage
    <2>3. page.status \in Finished =>
            page.task \subseteq orphans \/ page.results # {} \/ "result" \in page.unread
      BY <2>1 DEF PageOK
    <2>4. orphans' = orphans
      BY <1>6 DEF ViewLogs, runtimeVars
    <2>. QED BY <2>2, <2>3, <2>4 DEF PageComplete, Finished
  <1>. QED BY <1>2, <1>3, <1>4, <1>5, <1>6, Steps DEF PageAct, RowAct

LEMMA PageInit ==
  ASSUME FleetInit
  PROVE  Behind /\ PageOK /\ PageComplete
  <1>1. PICK plan \in Plans : LiveInit(plan.opened) /\ RuntimeInit(plan.jobs, plan.files) /\ page = NoPage
    BY DEF FleetInit
  <1>2. \A c \in Jobs : command[c].pc = "idle"
    BY <1>1 DEF RuntimeInit, NewCommand, Jobs
  <1>3. \A t \in Tasks : status[t] = "pending"
    BY <1>1 DEF LiveInit
  <1>. QED BY <1>1, <1>2, <1>3 DEF Behind, PageOK, PageComplete, NoPage, Statuses, Finished

LEMMA PageInvariant == FleetSpec => [](Behind /\ PageOK /\ PageComplete)
  <1>1. FleetInit => Behind /\ PageOK /\ PageComplete
    BY PageInit
  <1>2. Base /\ JobsOnHosts /\ FileInv /\ LogInv /\ LiveBase /\ (Behind /\ PageOK /\ PageComplete)
        /\ [FleetNext]_vars => (Behind /\ PageOK /\ PageComplete)'
    BY BehindStep, PageStep, ShownStep DEF LogInv
  <1>. QED BY <1>1, <1>2, BaseInvariant, FileInvariant, LogInvariant, LiveInvariant, PTL DEF FleetSpec

\* viewTask, SubmitTaskResult and StreamLogs: a page of a finished task shows its result and
\* all its lines, whatever comes between the three queries it is made of and between the
\* batches of the log, but for the deletion of the agent, a line that came to nothing, and a
\* result or logs that the page's own query, whose error it discards, failed to read.
THEOREM PagesAreComplete == FleetSpec => []PageComplete
  BY PageInvariant, PTL

-----------------------------------------------------------------------------
(* Types. *)

Counted == budget \in [Optional -> Nat]

LEMMA CountedStep ==
  ASSUME Counted, [FleetNext]_vars
  PROVE  Counted'
  <1>1. ASSUME NEW thing \in Optional, Spend(thing)
        PROVE  Counted'
    <2>1. budget[thing] - 1 \in Nat /\ budget' = [budget EXCEPT ![thing] = budget[thing] - 1]
      BY <1>1 DEF Spend, Counted
    <2>. QED BY <2>1 DEF Counted
  <1>2. CASE \E thing \in Optional : Spend(thing)
    BY <1>1, <1>2
  <1>3. CASE budget' = budget
    BY <1>3 DEF Counted
  <1>4. ASSUME FleetNext
        PROVE  (\E thing \in Optional : Spend(thing)) \/ budget' = budget
    <2>1. {"start", "die", "fault", "toggle", "delete", "load", "disconnect", "view"} = Optional
      BY DEF Optional
    <2>2. ASSUME NEW h, ProcessStep(h) \/ Beat(h) \/ Started(h) \/ Died(h)
          PROVE  (\E thing \in Optional : Spend(thing)) \/ budget' = budget
      BY <2>1, <2>2 DEF ProcessStep, Beat, Started, Died, fleetVars
    <2>3. ASSUME TimePasses \/ Sweep \/ Toggled \/ BrokerStep \/ ViewStep
          PROVE  budget' = budget
      BY <2>3 DEF TimePasses, Sweep, Toggled, BrokerStep, ViewStep, fleetVars
    <2>4. ASSUME NEW c, \/ Dispatched(c) \/ HandlerStep(c) \/ CommandStep(c) \/ Expire(c)
                        \/ PublishStep(c) \/ Unlucky(c)
          PROVE  budget' = budget
      BY <2>4 DEF Dispatched, HandlerStep, CommandStep, Expire, PublishStep, Unlucky, fleetVars
    <2>5. ASSUME NEW t, Removed(t) \/ ViewRow(t)
          PROVE  (\E thing \in Optional : Spend(thing)) \/ budget' = budget
      BY <2>1, <2>5 DEF Removed, ViewRow, fleetVars
    <2>6. ASSUME Failed \/ Clicked \/ Connected \/ ViewFails
          PROVE  (\E thing \in Optional : Spend(thing)) \/ budget' = budget
      BY <2>1, <2>6 DEF Failed, Clicked, Connected, ViewFails
    <2>. QED BY <1>4, <2>2, <2>3, <2>4, <2>5, <2>6 DEF FleetNext
  <1>5. CASE UNCHANGED vars
    BY <1>5 DEF vars, fleetVars, Counted
  <1>. QED BY <1>2, <1>3, <1>4, <1>5

LEMMA RuntimeTyped ==
  ASSUME Base, FileInv, LogInv
  PROVE  RuntimeTypeOK
  <1>1. ASSUME NEW c \in Jobs
        PROVE  /\ command[c].pc \in OnAgent \cup OnServer \cup {"idle", "over", "lost"}
               /\ command[c].reading \subseteq Readers /\ command[c].path \subseteq DOMAIN disk
               /\ Cardinality(command[c].buffer) < BufferLimit
               /\ command[c].outcome \in Outcomes
               /\ handler[c] \in {"idle", "assign", "ack", "over"}
    <2>1. Control(c) /\ Targets(job[c]) \subseteq DOMAIN disk
      BY DEF Base, Shape
    <2>2. command[c].path \subseteq DOMAIN disk
      BY <2>1 DEF Control
    <2>. QED BY <2>1, <2>2 DEF Control
  <1>2. /\ \A l \in logs : l.command \in Jobs /\ l.line[1] \in Readers
        /\ \A r \in results : r.command \in Jobs /\ r.outcome \in Outcomes
    BY DEF LogInv, LogRows, FileInv, ResultRows
  <1>3. /\ orphans \cup cleaning \subseteq Tasks
        /\ spoiled \subseteq DOMAIN disk /\ shared \cup lossy \subseteq Jobs
    BY DEF LogInv, FileInv, DiskInv
  <1>. QED BY <1>1, <1>2, <1>3 DEF RuntimeTypeOK

\* Every component keeps its types, with the budget and the page: a buffer of log lines is
\* emptied before it holds more than it may, a file is only written where its task says.
THEOREM FleetTypes == FleetSpec => []FleetTypeOK
  <1>1. FleetInit => Counted
    BY PlanAssumption DEF FleetInit, Counted
  <1>2. Counted /\ [FleetNext]_vars => Counted'
    BY CountedStep
  <1>3. PInv /\ Base /\ FileInv /\ LogInv /\ LiveBase /\ PageOK /\ Counted => FleetTypeOK
    BY RuntimeTyped, LiveTyped DEF FleetTypeOK, PInv, PageOK, Counted
  <1>. QED BY <1>1, <1>2, <1>3, BaseInvariant, FileInvariant, LogInvariant, LiveInvariant, PageInvariant, PTL
         DEF FleetSpec

-----------------------------------------------------------------------------
(* Badges. *)

LEMMA PublishingFrame ==
  ASSUME job' = job, NEW c, Publishing(c), UNCHANGED <<publish[StreamOf(c)], publish[ResultOf(c)]>>,
         publish[ResultOf(c)].pc # "idle" =>
           command'[c].pc = "publish" /\ (Once(Task(c)) => status'[Task(c)] = status[Task(c)])
  PROVE  Publishing(c)'
  <1>1. Task(c)' = Task(c) /\ Once(Task(c))' = Once(Task(c))
    BY DEF Task, Once, Jobs
  <1>. QED BY <1>1 DEF Publishing, StreamOf, ResultOf

\* The call waits until its broadcast has been taken.
LEMMA CallWaits ==
  ASSUME Base, JobsOnHosts, [FleetNext]_vars, NEW c \in Jobs, command[c].pc = "publish", ~ Idle(ResultOf(c))
  PROVE  command'[c].pc = "publish"
  <1>0. Shape /\ \A d \in Jobs : command[d].outcome \in Outcomes
    BY DEF Base, Control
  <1>1. ASSUME NEW d \in Jobs, CommandAct(d)
        PROVE  command'[c].pc = "publish"
    <2>1. CASE d # c
      BY <1>0, <1>1, <2>1, CommandMoves DEF Moved
    <2>2. CASE d = c
      <3>1. ~ FileAct(c) /\ ~ SaveResult(c) /\ ~ LogAct(c) /\ ~ Send(c)
        BY <1>1, <2>2, AfterStays DEF After
      <3>2. ~ (Start(c) \/ ReadPackageFile(c) \/ StepFails(c) \/ OpenLogs(c) \/ Exit(c) \/ Timeout(c) \/ ReadersEnd(c))
        BY <1>0, StartEffect, PackageEffect, StepFailsEffect, OpenLogsEffect, EndEffect
      <3>3. ~ (FinishCall(c) \/ CallFails(c) \/ MarkCompleted(c))
        BY <1>0, FinishEffect, FailsEffect, MarkEffect
      <3>4. Assign(c) \/ Acknowledge(c)
        BY <1>1, <2>2, <3>1, <3>2, <3>3 DEF CommandAct, ControlAct, StreamAct
      <3>. QED BY <3>4 DEF Assign, Acknowledge
    <2>. QED BY <2>1, <2>2
  <1>2. ASSUME NEW h, AgentEnds(h)
        PROVE  command'[c].pc = "publish"
    BY <1>0, <1>2, AgentEndsEffect DEF Ended, OnAgent
  <1>3. \/ \E d \in Jobs : CommandAct(d)
        \/ \E h : AgentEnds(h)
        \/ command' = command
    BY Steps DEF RemoveAgent, CleanUp, RowAct, runtimeVars
  <1>. QED BY <1>1, <1>2, <1>3

\* A write of a status that is to be broadcast.
LEMMA ToPublishEffect ==
  ASSUME LiveBase, NEW p \in Publishers, NEW t, NEW s, ToPublish(p, t, s)
  PROVE  /\ \A u \in Tasks : u # t => status'[u] = status[u]
         /\ t \in Tasks => status'[t] = s
         /\ \A q \in Publishers : q # p => publish'[q] = publish[q]
         /\ publish'[p] = publish[p] \/ publish'[p] = [pc |-> "get", event |-> {}]
         /\ DOMAIN browser # {} => publish'[p] = [pc |-> "get", event |-> {}]
  BY DEF ToPublish, LiveBase

LEMMA PublishingByCommand ==
  ASSUME Base, LiveBase, JobsOnHosts, [FleetNext]_vars, NEW d \in Jobs, CommandAct(d),
         NEW c \in Jobs, Publishing(c)
  PROVE  Publishing(c)'
  <1>0. /\ job' = job /\ Task(c)' = Task(c) /\ Once(Task(c))' = Once(Task(c))
        /\ Task(c) \in Tasks /\ StreamOf(c) \in Publishers /\ ResultOf(c) \in Publishers
        /\ StreamOf(d) \in Publishers /\ ResultOf(d) \in Publishers
        /\ StreamOf(c)' = StreamOf(c) /\ ResultOf(c)' = ResultOf(c) /\ StreamOf(c) # ResultOf(c)
    BY JobsStep, PublishersApart DEF Task, Once, Jobs, StreamOf, ResultOf
  <1>1. publish[ResultOf(c)].pc # "idle" => command'[c].pc = "publish"
    BY CallWaits DEF Publishing, Idle
  <1>2. CASE UNCHANGED <<status, publish>>
    BY <1>0, <1>1, <1>2, PublishingFrame
  <1>3. ASSUME NEW p \in {StreamOf(d), ResultOf(d)}, NEW s, ToPublish(p, Task(d), s), c # d
        PROVE  Publishing(c)'
    <2>1. p \in Publishers /\ p # StreamOf(c) /\ p # ResultOf(c)
      BY <1>0, <1>3, PublishersApart
    <2>2. UNCHANGED <<publish[StreamOf(c)], publish[ResultOf(c)]>>
      BY <1>0, <1>3, <2>1, ToPublishEffect
    <2>3. Once(Task(c)) => status'[Task(c)] = status[Task(c)]
      <3>1. Once(Task(c)) => Task(d) # Task(c)
        BY <1>3 DEF Once
      <3>. QED BY <1>0, <1>3, <2>1, <3>1, ToPublishEffect
    <2>. QED BY <1>0, <1>1, <2>2, <2>3, PublishingFrame
  <1>4. ASSUME NEW s, ToPublish(StreamOf(c), Task(c), s), status[Task(c)] \in {"pending", "assigned"}
        PROVE  Publishing(c)'
    <2>1. publish'[ResultOf(c)] = publish[ResultOf(c)]
      BY <1>0, <1>4, ToPublishEffect
    <2>2. \/ publish'[StreamOf(c)] = publish[StreamOf(c)]
          \/ publish'[StreamOf(c)] = [pc |-> "get", event |-> {}]
      BY <1>0, <1>4, ToPublishEffect
    <2>3. publish[ResultOf(c)].pc # "idle" => ~ Once(Task(c))
      BY <1>4 DEF Publishing, Finished
    <2>4. \A q \in {StreamOf(c), ResultOf(c)} :
            publish'[q].pc = "cast" => \A e \in publish'[q].event : e.task = Task(c)
      BY <2>1, <2>2 DEF Publishing
    <2>. QED BY <1>0, <1>1, <2>1, <2>3, <2>4 DEF Publishing
  <1>5. ASSUME MarkCompleted(c)
        PROVE  Publishing(c)'
    <2>1. /\ command[c].pc = "mark" /\ command'[c].pc = "publish"
          /\ ToPublish(ResultOf(c), Task(c), StatusAfter(c))
      BY <1>5, MarkEffect DEF Base
    <2>2. publish[ResultOf(c)].pc = "idle"
      BY <2>1 DEF Publishing
    <2>3. publish'[StreamOf(c)] = publish[StreamOf(c)] /\ status'[Task(c)] = StatusAfter(c)
      BY <1>0, <2>1, ToPublishEffect
    <2>4. publish'[ResultOf(c)].pc \in {"idle", "get"}
      BY <1>0, <2>1, <2>2, ToPublishEffect
    <2>5. Once(Task(c)) => StatusAfter(c) \in Finished
      <3>1. Once(Task(c)) => ~ job[c].recurring
        BY DEF Once
      <3>2. command[c].outcome \in Outcomes
        BY DEF Base, Control
      <3>. QED BY <3>1, <3>2 DEF StatusAfter, FinalStatus, Outcomes, Finished
    <2>. QED BY <1>0, <2>1, <2>3, <2>4, <2>5 DEF Publishing
  <1>6. \/ UNCHANGED <<status, publish>>
        \/ \E s : ToPublish(StreamOf(d), Task(d), s) /\ status[Task(d)] \in {"pending", "assigned"}
        \/ MarkCompleted(d) /\ ToPublish(ResultOf(d), Task(d), StatusAfter(d))
    BY StatusEffect
  <1>. QED BY <1>2, <1>3, <1>4, <1>5, <1>6

\* What a step of a publisher does to it.
LEMMA PublisherEffect ==
  ASSUME LiveBase, Base, NEW d \in Jobs, NEW p \in {StreamOf(d), ResultOf(d)},
         GetForPublish(p, Task(d)) \/ GetFails(p, Task(d)) \/ Broadcast(p)
  PROVE  /\ UNCHANGED <<status, browser>> /\ p \in Publishers /\ publish[p].pc # "idle"
         /\ \A q \in Publishers : q # p => publish'[q] = publish[q]
         /\ \/ GetForPublish(p, Task(d)) /\ UNCHANGED <<broadcast, overtaken>>
               /\ publish'[p] = [pc |-> "cast", event |-> {[task |-> Task(d), status |-> status[Task(d)]]}]
            \/ GetFails(p, Task(d)) /\ UNCHANGED broadcast /\ overtaken' = overtaken \cup {Task(d)}
               /\ publish'[p] = [pc |-> "idle", event |-> {}]
            \/ Broadcast(p) /\ publish'[p] = [pc |-> "idle", event |-> {}]
  <1>1. p \in Publishers
    BY PublishersApart
  <1>2. CASE GetForPublish(p, Task(d))
    BY <1>1, <1>2 DEF GetForPublish, LiveBase
  <1>3. CASE GetFails(p, Task(d))
    BY <1>1, <1>3 DEF GetFails, LiveBase
  <1>4. CASE Broadcast(p)
    BY <1>1, <1>4 DEF Broadcast, LiveBase
  <1>. QED BY <1>2, <1>3, <1>4

LEMMA PublishingByPublisher ==
  ASSUME Base, LiveBase, job' = job, command' = command, NEW c \in Jobs, Publishing(c),
         NEW d \in Jobs, NEW p \in {StreamOf(d), ResultOf(d)},
         GetForPublish(p, Task(d)) \/ GetFails(p, Task(d)) \/ Broadcast(p)
  PROVE  Publishing(c)'
  <1>0. /\ Task(c)' = Task(c) /\ Once(Task(c))' = Once(Task(c)) /\ Task(c) \in Tasks
        /\ StreamOf(c)' = StreamOf(c) /\ ResultOf(c)' = ResultOf(c) /\ StreamOf(c) # ResultOf(c)
        /\ StreamOf(c) \in Publishers /\ ResultOf(c) \in Publishers
        /\ UNCHANGED <<status, browser>>
    <2>1. UNCHANGED <<status, browser>>
      BY PublisherEffect
    <2>2. /\ Task(c) \in Tasks /\ StreamOf(c) \in Publishers /\ ResultOf(c) \in Publishers
          /\ StreamOf(c) # ResultOf(c)
      BY PublishersApart
    <2>3. Task(c)' = Task(c) /\ Once(Task(c))' = Once(Task(c))
      BY DEF Task, Once, Jobs
    <2>. QED BY <2>1, <2>2, <2>3 DEF StreamOf, ResultOf
  <1>1. publish[ResultOf(c)].pc # "idle" => command'[c].pc = "publish"
    BY DEF Publishing
  <1>2. CASE c # d
    <2>1. p # StreamOf(c) /\ p # ResultOf(c)
      BY <1>2, PublishersApart
    <2>2. UNCHANGED <<publish[StreamOf(c)], publish[ResultOf(c)]>>
      BY <1>0, <2>1, PublisherEffect
    <2>. QED BY <1>0, <1>1, <2>2, PublishingFrame
  <1>3. CASE c = d
    <2> DEFINE event == [task |-> Task(c), status |-> status[Task(c)]]
    <2>1. event.task = Task(c) /\ event.status = status[Task(c)]
      OBVIOUS
    <2>2. \/ publish'[p].pc = "idle"
          \/ publish'[p].pc = "cast" /\ publish'[p].event = {event}
      <3>1. \/ publish'[p] = [pc |-> "idle", event |-> {}]
            \/ publish'[p] = [pc |-> "cast", event |-> {event}]
        BY <1>3, PublisherEffect
      <3> HIDE DEF event
      <3>. QED BY <3>1
    <2>3. /\ publish[p].pc # "idle"
          /\ \A q \in {StreamOf(c), ResultOf(c)} : q # p => publish'[q] = publish[q]
      BY <1>0, PublisherEffect
    <2> HIDE DEF event
    <2>4. \A q \in {StreamOf(c), ResultOf(c)} :
            publish'[q].pc = "cast" => \A e \in publish'[q].event : e.task = Task(c)
      BY <2>1, <2>2, <2>3 DEF Publishing
    <2>5. publish'[ResultOf(c)].pc # "idle" => publish[ResultOf(c)].pc # "idle"
      BY <2>3
    <2>6. ASSUME Once(Task(c)), publish'[ResultOf(c)].pc = "cast"
          PROVE  \A e \in publish'[ResultOf(c)].event : e.status = status[Task(c)]
      <3>1. CASE p = ResultOf(c)
        BY <2>1, <2>2, <2>6, <3>1
      <3>2. CASE p # ResultOf(c)
        BY <2>3, <2>6, <3>2 DEF Publishing
      <3>. QED BY <3>1, <3>2
    <2>. QED BY <1>0, <1>1, <2>4, <2>5, <2>6 DEF Publishing
  <1>. QED BY <1>2, <1>3

LEMMA PublishingStep ==
  ASSUME Base, LiveBase, JobsOnHosts, [FleetNext]_vars, NEW c \in Jobs, Publishing(c)
  PROVE  Publishing(c)'
  <1>0. job' = job /\ UNCHANGED <<StreamOf(c), ResultOf(c)>>
    BY JobsStep DEF StreamOf, ResultOf
  <1>1. ASSUME NEW d \in Jobs, CommandAct(d)
        PROVE  Publishing(c)'
    BY <1>1, PublishingByCommand
  <1>2. ASSUME LiveAct, UNCHANGED runtimeVars
        PROVE  Publishing(c)'
    <2>1. command' = command
      BY <1>2 DEF runtimeVars
    <2>2. CASE UNCHANGED <<status, publish>>
      <3>1. publish[ResultOf(c)].pc # "idle" => command'[c].pc = "publish"
        BY <2>1 DEF Publishing
      <3>. QED BY <1>0, <2>2, <3>1, PublishingFrame
    <2>3. \/ UNCHANGED <<status, publish>>
          \/ \E d \in Jobs : \E p \in {StreamOf(d), ResultOf(d)} :
               GetForPublish(p, Task(d)) \/ GetFails(p, Task(d)) \/ Broadcast(p)
      BY <1>2 DEF LiveAct, PassOn, Deliver, LoadPage, Subscribe, Disconnect
    <2>. QED BY <1>0, <2>1, <2>2, <2>3, PublishingByPublisher
  <1>3. CASE UNCHANGED liveVars
    <2>1. publish[ResultOf(c)].pc # "idle" => command'[c].pc = "publish"
      BY CallWaits DEF Publishing, Idle
    <2>. QED BY <1>0, <1>3, <2>1, PublishingFrame DEF liveVars
  <1>. QED BY <1>1, <1>2, <1>3, Steps, EndFrame DEF RemoveAgent, CleanUp, RowAct

LEMMA Alone ==
  ASSUME NEW e \in Events, NEW t
  PROVE  About(<<e>>, t) = (IF e.task = t THEN {e} ELSE {}) /\ About(<<>>, t) = {}
  BY Singles DEF About

LEMMA SettledFrame ==
  ASSUME NEW b, NEW t, Settled(b, t), UNCHANGED <<broadcast, browser, status[t]>>
  PROVE  Settled(b, t)'
  BY DEF Settled, Says, About

\* A command that writes a status makes its task one that is not silent.
LEMMA SettledByCommand ==
  ASSUME Base, LiveBase, Badges, job' = job, NEW d \in Jobs, CommandAct(d),
         NEW b \in DOMAIN browser, NEW t \in Tasks, Once(t), Silent(t)', t \notin overtaken'
  PROVE  Settled(b, t)'
  <1>0. UNCHANGED <<broadcast, browser, overtaken>>
    BY CommandFrame
  <1>1. ASSUME Silent(t), status'[t] = status[t]
        PROVE  Settled(b, t)'
    BY <1>0, <1>1, SettledFrame DEF Badges
  <1>2. CASE UNCHANGED <<status, publish>>
    BY <1>1, <1>2 DEF Silent, Idle, StreamOf, ResultOf, Task, Jobs
  <1>3. ASSUME NEW p \in {StreamOf(d), ResultOf(d)}, NEW s, ToPublish(p, Task(d), s)
        PROVE  Settled(b, t)'
    <2>1. p \in Publishers /\ publish'[p] = [pc |-> "get", event |-> {}]
      BY <1>3, PublishersApart, ToPublishEffect
    <2>2. Task(d) # t
      <3>1. publish'[p].pc # "idle"
        BY <2>1
      <3>. QED BY <1>3, <3>1 DEF Silent, Idle, StreamOf, ResultOf, Task, Jobs
    <2>3. status'[t] = status[t]
      BY <1>3, <2>1, <2>2, ToPublishEffect
    <2>4. ASSUME NEW c \in Jobs, Task(c) = t, NEW q \in {StreamOf(c), ResultOf(c)}
          PROVE  publish'[q] = publish[q]
      <3>1. q \in Publishers /\ q # p
        BY <1>3, <2>2, <2>4, PublishersApart
      <3>. QED BY <1>3, <2>1, <3>1, ToPublishEffect
    <2>5. Silent(t)
      BY <2>4 DEF Silent, Idle, StreamOf, ResultOf, Task, Jobs
    <2>. QED BY <1>1, <2>3, <2>5
  <1>. QED BY <1>2, <1>3, StatusEffect

LEMMA SettledByPublisher ==
  ASSUME Base, LiveBase, Badges, job' = job, NEW d \in Jobs, Publishing(d),
         NEW p \in {StreamOf(d), ResultOf(d)},
         GetForPublish(p, Task(d)) \/ GetFails(p, Task(d)) \/ Broadcast(p),
         NEW b \in DOMAIN browser, NEW t \in Tasks, Once(t), Silent(t)', t \notin overtaken'
  PROVE  Settled(b, t)'
  <1>0. UNCHANGED <<status, browser>> /\ p \in Publishers
    BY PublisherEffect
  <1>1. Task(d) # t => Silent(t)
    <2>1. ASSUME Task(d) # t, NEW c \in Jobs, Task(c) = t, NEW q \in {StreamOf(c), ResultOf(c)}
          PROVE  publish'[q] = publish[q]
      <3>1. q \in Publishers /\ q # p
        BY <2>1, PublishersApart
      <3>. QED BY <3>1, PublisherEffect
    <2>. QED BY <2>1 DEF Silent, Idle, StreamOf, ResultOf, Task, Jobs
  <1>2. CASE GetForPublish(p, Task(d)) /\ publish'[p].pc = "cast" /\ UNCHANGED <<broadcast, overtaken>>
    <2>1. Task(d) # t
      BY <1>2 DEF Silent, Idle, StreamOf, ResultOf, Task, Jobs
    <2>. QED BY <1>0, <1>1, <1>2, <2>1, SettledFrame DEF Badges
  <1>3. CASE UNCHANGED broadcast /\ overtaken' = overtaken \cup {Task(d)}
    BY <1>0, <1>1, <1>3, SettledFrame DEF Badges
  <1>4. CASE Broadcast(p)
    <2>1. PICK e \in publish[p].event :
            /\ broadcast' = Append(broadcast, e)
            /\ overtaken' = IF p[2] = "stream" /\ e.status # status[e.task]
                            THEN overtaken \cup {e.task} ELSE overtaken \ {e.task}
      BY <1>4 DEF Broadcast
    <2>2. publish[p].pc = "cast" /\ e \in Events /\ e.task = Task(d)
      BY <1>0, <1>4, <2>1 DEF Broadcast, LiveBase, Publishing
    <2>3. broadcast = <<>>
      BY <1>4, Singles DEF Broadcast, LiveBase, AtMostOne
    <2>4. broadcast' = <<e>>
      BY <2>1, <2>2, <2>3, Singles
    <2>5. About(broadcast, t) = {} /\ About(broadcast', t) = IF Task(d) = t THEN {e} ELSE {}
      BY <2>2, <2>3, <2>4, Alone
    <2>6. About(broadcast, t)' = About(broadcast', t)
      BY DEF About
    <2>7. CASE Task(d) = t
      <3>1. e.status = status[t]
        <4>1. CASE p = StreamOf(d)
          <5>1. p[2] = "stream"
            BY <4>1 DEF StreamOf
          <5>. QED BY <2>1, <2>2, <2>7, <5>1
        <4>2. CASE p = ResultOf(d)
          BY <2>1, <2>2, <2>7, <4>2 DEF Publishing
        <4>. QED BY <4>1, <4>2
      <3>. QED BY <1>0, <2>5, <2>6, <2>7, <3>1 DEF Settled, Says
    <2>8. CASE Task(d) # t
      <3>1. t \notin overtaken
        BY <2>1, <2>2, <2>8
      <3>2. Settled(b, t)
        BY <1>1, <2>8, <3>1 DEF Badges
      <3>. QED BY <1>0, <2>5, <2>6, <2>8, <3>2 DEF Settled, Says, About
    <2>. QED BY <2>7, <2>8
  <1>. QED
    <2>1. GetForPublish(p, Task(d)) => publish'[p].pc = "cast" /\ UNCHANGED <<broadcast, overtaken>>
      BY <1>0 DEF GetForPublish, LiveBase
    <2>2. GetFails(p, Task(d)) => UNCHANGED broadcast /\ overtaken' = overtaken \cup {Task(d)}
      BY DEF GetFails
    <2>. QED BY <1>2, <1>3, <1>4, <2>1, <2>2

LEMMA SettledByBroker ==
  ASSUME LiveBase, NEW b \in DOMAIN browser, NEW t \in Tasks, Settled(b, t), PassOn
  PROVE  Settled(b, t)'
  <1>1. PICK e \in Events : broadcast = <<e>> /\ browser' = [c \in DOMAIN browser |-> Offer(c, e)]
    BY PassOnTypes
  <1>2. broadcast' = <<>> /\ status' = status /\ browser'[b] = Offer(b, e)
    BY <1>1, PassOnTypes DEF PassOn
  <1>3. About(broadcast, t) = (IF e.task = t THEN {e} ELSE {}) /\ About(broadcast, t)' = {}
    <2>1. About(broadcast, t)' = About(broadcast', t)
      BY DEF About
    <2>. QED BY <1>1, <1>2, <2>1, Alone
  <1> DEFINE w == browser[b]  v == browser'[b]
  <1>4. /\ v.pc = w.pc /\ v.badge = w.badge
        /\ IF w.pc = "live" /\ w.inbox = <<>>
           THEN v.inbox = <<e>> /\ v.missed = w.missed \ {e.task}
           ELSE v.inbox = w.inbox /\ v.missed = w.missed \cup {e.task}
    BY <1>2, OfferTypes
  <1>5. e.task = t => e.status = status[t]
    BY <1>3 DEF Settled, Says
  <1>6. Settled(b, t) /\ e.task # t /\ v.pc # "closed" /\ t \in MayView[b] \ w.missed =>
          IF About(w.inbox, t) = {} THEN w.badge[t] = status[t] ELSE Says(w.inbox, t)
    BY <1>3, <1>4 DEF Settled
  <1>7. About(w.inbox, t)' = About(v.inbox, t)
    BY DEF About
  <1>8. CASE w.pc = "live" /\ w.inbox = <<>>
    <2>1. About(v.inbox, t) = (IF e.task = t THEN {e} ELSE {}) /\ About(w.inbox, t) = {}
      BY <1>4, <1>8, Alone
    <2>. QED BY <1>2, <1>3, <1>4, <1>5, <1>6, <1>7, <1>8, <2>1 DEF Settled, Says
  <1>9. CASE ~ (w.pc = "live" /\ w.inbox = <<>>)
    BY <1>2, <1>3, <1>4, <1>6, <1>7, <1>9 DEF Settled, Says, About
  <1>. QED BY <1>8, <1>9

LEMMA SettledByBrowser ==
  ASSUME LiveBase, NEW b \in DOMAIN browser, NEW t \in Tasks, Settled(b, t),
         LoadPage(b) \/ Subscribe(b) \/ Disconnect(b) \/ Deliver(b)
  PROVE  Settled(b, t)'
  <1> DEFINE w == browser[b]  v == browser'[b]
  <1>0. OneBrowser(b) /\ b \in Browsers
    BY DEF LiveBase
  <1>1. UNCHANGED <<status, broadcast>> /\ About(broadcast, t)' = About(broadcast, t)
    BY BrowserTypes DEF About
  <1>2. Says(broadcast, t)'
    BY <1>1 DEF Settled, Says
  <1>3. About(w.inbox, t)' = About(v.inbox, t)
    BY DEF About
  <1>4. ASSUME v.pc # "closed", t \in MayView[b] \ v.missed, About(broadcast, t) = {}
        PROVE  IF About(v.inbox, t) = {} THEN v.badge[t] = status[t]
               ELSE \A e \in About(v.inbox, t) : e.status = status[t]
    <2>1. CASE LoadPage(b)
      <3>1. v.inbox = <<>> /\ v.badge = [u \in MayView[b] |-> status[u]]
        BY <2>1 DEF LoadPage
      <3>2. About(v.inbox, t) = {}
        BY <3>1 DEF About
      <3>. QED BY <1>4, <3>1, <3>2
    <2>2. CASE Subscribe(b)
      <3>1. v = Subscribed(b) /\ w.pc = "loaded"
        BY <2>2 DEF Subscribe
      <3>2. v.inbox = <<>> /\ v.badge = w.badge /\ v.missed = w.missed /\ w.inbox = <<>>
        BY <1>0, <3>1 DEF Subscribed, OneBrowser
      <3>. QED BY <1>4, <3>1, <3>2 DEF Settled, Says
    <2>3. CASE Disconnect(b)
      <3> DEFINE ts == {w.inbox[i].task : i \in DOMAIN w.inbox}
      <3>1. browser' = [browser EXCEPT ![b].pc = "loaded", ![b].inbox = <<>>, ![b].missed = @ \cup ts]
            /\ w.pc = "live"
        BY <2>3 DEF Disconnect
      <3>2. \A e \in Events : w.inbox = <<e>> => e.task \in ts
        BY Singles
      <3> HIDE DEF ts
      <3>3. v = [w EXCEPT !.pc = "loaded", !.inbox = <<>>, !.missed = @ \cup ts]
        BY <3>1
      <3>4. v.inbox = <<>> /\ v.badge = w.badge /\ v.missed = w.missed \cup ts
        BY <1>0, <3>3 DEF OneBrowser
      <3>5. About(v.inbox, t) = {} /\ About(w.inbox, t) = {}
        BY <1>4, <3>2, <3>4 DEF About
      <3>. QED BY <1>4, <3>1, <3>4, <3>5 DEF Settled
    <2>4. CASE Deliver(b)
      <3>1. PICK e \in Events : w.inbox = <<e>>
        BY <1>0, <2>4 DEF Deliver, OneBrowser, AtMostOne
      <3>2. Head(w.inbox) = e
        BY <3>1, Singles
      <3>3. v = [w EXCEPT !.inbox = <<>>, !.badge = Badge(b, e)] /\ w.pc = "live"
        BY <2>4, <3>2 DEF Deliver
      <3>4. v.inbox = <<>> /\ v.badge = Badge(b, e) /\ v.missed = w.missed
        BY <1>0, <3>3 DEF OneBrowser
      <3>5. About(v.inbox, t) = {} /\ About(w.inbox, t) = IF e.task = t THEN {e} ELSE {}
        BY <3>1, <3>4, Alone
      <3>6. e.task = t => e.status = status[t]
        BY <1>4, <3>3, <3>4, <3>5 DEF Settled, Says
      <3>7. e.task # t => w.badge[t] = status[t]
        BY <1>4, <3>3, <3>4, <3>5 DEF Settled
      <3>8. w.badge \in [MayView[b] -> Statuses \cup {"none"}]
        BY <1>0 DEF OneBrowser
      <3>9. v.badge[t] = IF e.task = t THEN e.status ELSE w.badge[t]
        BY <1>4, <3>4, <3>8 DEF Badge
      <3>. QED BY <3>5, <3>6, <3>7, <3>9
    <2>. QED BY <2>1, <2>2, <2>3, <2>4
  <1>. QED BY <1>1, <1>2, <1>3, <1>4 DEF Settled, Says

LEMMA BadgesStep ==
  ASSUME Base, LiveBase, Badges, \A c \in Jobs : Publishing(c), JobsOnHosts, [FleetNext]_vars
  PROVE  Badges'
  <1>0. job' = job /\ DOMAIN browser' = DOMAIN browser /\ \A t : Once(t)' = Once(t)
    <2>1. LiveAct => DOMAIN browser' = DOMAIN browser
      BY DEF LiveAct, GetForPublish, GetFails, Broadcast, PassOn, Deliver, LoadPage, Subscribe, Disconnect
    <2>2. DOMAIN browser' = DOMAIN browser
      BY <2>1, Steps, CommandFrame, EndFrame DEF RemoveAgent, CleanUp, RowAct, liveVars
    <2>. QED BY <2>2, JobsStep DEF Once, Task, Jobs
  <1>1. SUFFICES ASSUME NEW b \in DOMAIN browser, NEW t \in Tasks, Once(t), Silent(t)', t \notin overtaken'
                 PROVE  Settled(b, t)'
    BY <1>0 DEF Badges
  <1>2. ASSUME NEW d \in Jobs, CommandAct(d)
        PROVE  Settled(b, t)'
    BY <1>0, <1>1, <1>2, SettledByCommand
  <1>3. ASSUME NEW d \in Jobs, NEW p \in {StreamOf(d), ResultOf(d)},
               GetForPublish(p, Task(d)) \/ GetFails(p, Task(d)) \/ Broadcast(p)
        PROVE  Settled(b, t)'
    BY <1>0, <1>1, <1>3, SettledByPublisher
  <1>4. ASSUME UNCHANGED <<publish, overtaken>>
        PROVE  Settled(b, t)
    BY <1>0, <1>1, <1>4 DEF Badges, Silent, Idle, StreamOf, ResultOf, Task, Jobs
  <1>5. CASE PassOn
    <2>1. Settled(b, t)
      BY <1>4, <1>5 DEF PassOn
    <2>. QED BY <1>5, <2>1, SettledByBroker
  <1>6. ASSUME NEW d \in DOMAIN browser, Deliver(d) \/ LoadPage(d) \/ Subscribe(d) \/ Disconnect(d)
        PROVE  Settled(b, t)'
    <2>1. /\ UNCHANGED <<status, publish, broadcast, overtaken>>
          /\ d # b => browser'[b] = browser[b]
      BY <1>6, BrowserTypes
    <2>2. Settled(b, t)
      BY <1>4, <2>1
    <2>3. CASE d = b
      BY <1>6, <2>2, <2>3, SettledByBrowser
    <2>4. CASE d # b
      BY <2>1, <2>2, <2>4 DEF Settled, Says, About
    <2>. QED BY <2>3, <2>4
  <1>7. CASE UNCHANGED liveVars
    <2>1. Settled(b, t)
      BY <1>4, <1>7 DEF liveVars
    <2>. QED BY <1>7, <2>1, SettledFrame DEF liveVars
  <1>. QED BY <1>2, <1>3, <1>5, <1>6, <1>7, Steps, EndFrame DEF RemoveAgent, CleanUp, RowAct, LiveAct

LEMMA BadgesInit ==
  ASSUME FleetInit
  PROVE  Badges /\ \A c \in Jobs : Publishing(c)
  <1>1. PICK plan \in Plans : LiveInit(plan.opened) /\ RuntimeInit(plan.jobs, plan.files)
    BY DEF FleetInit
  <1>2. ASSUME NEW c \in Jobs
        PROVE  Publishing(c)
    <2>1. c \in Commands
      BY <1>1, PlanAssumption DEF RuntimeInit, Jobs
    <2>2. publish[StreamOf(c)].pc = "idle" /\ publish[ResultOf(c)].pc = "idle"
      BY <1>1, <2>1, ViewAssumption DEF LiveInit, StreamOf, ResultOf
    <2>. QED BY <2>2 DEF Publishing
  <1>3. broadcast = <<>> /\ \A b \in DOMAIN browser : browser[b].pc = "closed"
    BY <1>1 DEF LiveInit
  <1>4. \A t : About(broadcast, t) = {}
    BY <1>3 DEF About
  <1>. QED BY <1>2, <1>3, <1>4 DEF Badges, Settled, Says

\* SubmitTaskResult, handleTaskAcknowledgement, the broker and sse-client.js: however writes,
\* broadcasts, deliveries, loading of pages and loss of streams interleave, a page that has
\* been reached by the last event of a task shows the status of its row.
THEOREM BadgesAreCurrent == FleetSpec => []BadgeIsCurrent
  <1>1. FleetInit => Badges /\ \A c \in Jobs : Publishing(c)
    BY BadgesInit
  <1>2. Base /\ LiveBase /\ JobsOnHosts /\ (Badges /\ \A c \in Jobs : Publishing(c)) /\ [FleetNext]_vars
        => (Badges /\ \A c \in Jobs : Publishing(c))'
    <2> SUFFICES ASSUME Base, LiveBase, JobsOnHosts, Badges, \A c \in Jobs : Publishing(c), [FleetNext]_vars
                 PROVE  Badges' /\ \A c \in Jobs' : Publishing(c)'
      OBVIOUS
    <2>1. Jobs' = Jobs
      BY JobsStep DEF Jobs
    <2>. QED BY <2>1, BadgesStep, PublishingStep
  <1>3. Badges /\ LiveBase => BadgeIsCurrent
    <2> SUFFICES ASSUME Badges, LiveBase, NEW b \in DOMAIN browser, browser[b].pc # "closed",
                        NEW t \in MayView[b] \ (browser[b].missed \cup overtaken), Once(t), Quiet(b, t)
                 PROVE  browser[b].badge[t] = status[t]
      BY DEF BadgeIsCurrent
    <2>1. t \in Tasks
      BY ViewAssumption DEF LiveBase
    <2>2. Settled(b, t)
      BY <2>1 DEF Badges, Quiet, Silent
    <2>3. About(broadcast, t) = {}
      BY Singles DEF Quiet, About
    <2>4. About(browser[b].inbox, t) = {}
      BY Singles DEF Quiet, About
    <2>. QED BY <2>2, <2>3, <2>4 DEF Settled
  <1>. QED BY <1>1, <1>2, <1>3, BaseInvariant, LiveInvariant, PTL DEF FleetSpec
=============================================================================
