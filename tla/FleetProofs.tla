----------------------------- MODULE FleetProofs -----------------------------
(***************************************************************************)
(* Theorems about Fleet, for every set of hosts, ids and commands, every   *)
(* threshold and every plan: what the four writers of an agent's row and   *)
(* the restarts of its process may do to it.                               *)
(***************************************************************************)
EXTENDS Fleet, FiniteSetTheorems, TLAPS

-----------------------------------------------------------------------------
(* What Fleet does to the variables of Presence. *)

OfHost(h) ==
  \/ StartAgent(h) \/ Die(h) \/ ReadId(h) \/ CreateIdFile(h) \/ CreateIdFileFails(h)
  \/ WriteIdFile(h) \/ RegisterAgent(h, TRUE) \/ RegisterAgent(h, FALSE) \/ RegisterFails(h)
  \/ SendHeartbeat(h) \/ HeartbeatFails(h)

OfServer ==
  \/ Tick \/ SetOfflineStatusForInactiveAgents \/ ToggleWrite
  \/ \E i \in Ids : ToggleRead(i) \/ DeleteAgent(i)

PresenceNext == (\E h \in Hosts : OfHost(h)) \/ OfServer

-----------------------------------------------------------------------------
(* The inductive invariant. *)

\* A host has registered nothing but the content of its file, which is the id its process
\* works with; the file is made only where there is none, and is empty until it is written.
FileIsId ==
  \A h \in Hosts :
    /\ registered[h] \subseteq {idFile[h]}
    /\ process[h].pc \in {"register", "run"} => process[h].id = idFile[h]
    /\ process[h].pc = "create" => idFile[h] = NoFile
    /\ process[h].pc = "write" => idFile[h] = NoId

\* The row of a process that is heard is young: of this period if its heartbeat has been
\* sent, of the last if not.  It has not been taken for inactive.
HeardIsYoung ==
  \A h \in Hosts \ silenced :
    Running(h) /\ Exists(process[h].id) =>
      /\ agent[process[h].id].status # "offline"
      /\ agent[process[h].id].age <= 1
      /\ h \notin due => agent[process[h].id].age = 0

\* The update that ends an agent ends the one of its host.
JobsOnHosts == \A c \in Jobs : Host(c) \in Hosts

PInv == PresenceTypeOK /\ FileIsId /\ HeardIsYoung

-----------------------------------------------------------------------------
(* Every step of the fleet is one of Presence or leaves its variables alone. *)

LEMMA FleetStep ==
  ASSUME JobsOnHosts, [FleetNext]_vars
  PROVE  [PresenceNext]_presenceVars
  <1>1. ASSUME NEW h \in Hosts, ProcessStep(h) \/ Beat(h) \/ Started(h) \/ Died(h)
        PROVE  OfHost(h)
    BY <1>1 DEF ProcessStep, Beat, Started, Died, AgentEnds, OfHost
  <1>2. ASSUME TimePasses \/ Sweep \/ Toggled
        PROVE  OfServer
    BY <1>2 DEF TimePasses, Sweep, Toggled, OfServer
  <1>3. ASSUME NEW c, Dispatched(c) \/ HandlerStep(c) \/ Expire(c) \/ PublishStep(c) \/ Unlucky(c)
        PROVE  UNCHANGED presenceVars
    BY <1>3 DEF Dispatched, HandlerStep, Expire, PublishStep, Unlucky, Send, Assign, Acknowledge,
                Timeout, FillPipe, SendersCollide, BreakStream, CancelCall, CallFails
  <1>4. ASSUME NEW c \in Jobs, CommandStep(c)
        PROVE  UNCHANGED presenceVars \/ Die(Host(c))
    <2>1. CASE ExitAfterUpdate(c)
      BY <2>1 DEF ExitAfterUpdate, AgentEnds
    <2>2. CASE Start(c) \/ ReadPackageFile(c) \/ OpenTarget(c) \/ WriteChunk(c) \/ ApplyUpdate(c)
      BY <2>2 DEF Start, ReadPackageFile, OpenTarget, WriteChunk, ApplyUpdate
    <2>3. CASE OpenLogs(c) \/ (\E s \in Readers : ReadLine(c, s, TRUE)) \/ Exit(c) \/ ReadersEnd(c)
      BY <2>3 DEF OpenLogs, ReadLine, Exit, ReadersEnd
    <2>4. CASE CloseLogs(c, TRUE) \/ SaveResult(c) \/ MarkCompleted(c) \/ FinishCall(c)
      BY <2>4 DEF CloseLogs, SaveResult, MarkCompleted, FinishCall
    <2>. QED BY <1>4, <2>1, <2>2, <2>3, <2>4 DEF CommandStep
  <1>5. ASSUME NEW t \in Tasks, Removed(t) \/ ViewRow(t)
        PROVE  UNCHANGED presenceVars
    BY <1>5 DEF Removed, ViewRow, CleanUp
  <1>6. ASSUME BrokerStep \/ Connected \/ ViewStep \/ ViewFails
        PROVE  UNCHANGED presenceVars
    BY <1>6 DEF BrokerStep, Connected, ViewStep, ViewFails, ViewResult, ViewLogs
  <1>7. ASSUME Failed
        PROVE  (\E h \in Hosts : OfHost(h)) \/ UNCHANGED presenceVars
    <2>1. ASSUME NEW c \in Jobs,
                 \/ StepFails(c) \/ WriteFails(c) \/ BreakStream(c) \/ CallFails(c) \/ CloseLogs(c, FALSE)
                 \/ \E s \in Readers : ReadLine(c, s, FALSE)
          PROVE  UNCHANGED presenceVars
      BY <2>1 DEF StepFails, WriteFails, BreakStream, CallFails, CloseLogs, ReadLine
    <2>. QED BY <1>7, <2>1 DEF Failed, OfHost
  <1>8. ASSUME Clicked
        PROVE  OfServer \/ UNCHANGED presenceVars
    BY <1>8 DEF Clicked, RemoveAgent, OfServer
  <1>9. CASE UNCHANGED vars
    BY <1>9 DEF vars
  <1>10. CASE FleetNext
    <2>1. ASSUME NEW c \in Jobs, CommandStep(c)
          PROVE  PresenceNext \/ UNCHANGED presenceVars
      <3>1. CASE Die(Host(c)) /\ Host(c) \in Hosts
        BY <3>1 DEF PresenceNext, OfHost
      <3>2. Host(c) \in Hosts
        BY DEF JobsOnHosts
      <3>. QED BY <1>4, <2>1, <3>1, <3>2
    <2>. QED
      BY <1>1, <1>2, <1>3, <1>5, <1>6, <1>7, <1>8, <1>10, <2>1 DEF FleetNext, PresenceNext
  <1>. QED BY <1>9, <1>10

\* What a command is to do does not change.
LEMMA JobsStep ==
  ASSUME JobsOnHosts, [FleetNext]_vars
  PROVE  job' = job /\ JobsOnHosts'
  <1>1. ASSUME NEW h, ProcessStep(h) \/ Beat(h) \/ Started(h) \/ Died(h)
        PROVE  job' = job
    BY <1>1 DEF ProcessStep, Beat, Started, Died, AgentEnds, runtimeVars
  <1>2. ASSUME TimePasses \/ Sweep \/ Toggled
        PROVE  job' = job
    BY <1>2 DEF TimePasses, Sweep, Toggled, runtimeVars
  <1>3. ASSUME NEW c, Dispatched(c) \/ HandlerStep(c) \/ Expire(c) \/ PublishStep(c) \/ Unlucky(c)
        PROVE  job' = job
    BY <1>3 DEF Dispatched, HandlerStep, Expire, PublishStep, Unlucky, Send, Assign, Acknowledge,
                Timeout, FillPipe, SendersCollide, BreakStream, runtimeVars, CancelCall, CallFails
  <1>4. ASSUME NEW c, CommandStep(c)
        PROVE  job' = job
    <2>1. CASE ExitAfterUpdate(c)
      BY <2>1 DEF ExitAfterUpdate, AgentEnds
    <2>2. CASE Start(c) \/ ReadPackageFile(c) \/ OpenTarget(c) \/ WriteChunk(c) \/ ApplyUpdate(c)
      BY <2>2 DEF Start, ReadPackageFile, OpenTarget, WriteChunk, ApplyUpdate
    <2>3. CASE OpenLogs(c) \/ (\E s \in Readers : ReadLine(c, s, TRUE)) \/ Exit(c) \/ ReadersEnd(c)
      BY <2>3 DEF OpenLogs, ReadLine, Exit, ReadersEnd
    <2>4. CASE CloseLogs(c, TRUE) \/ SaveResult(c) \/ MarkCompleted(c) \/ FinishCall(c)
      BY <2>4 DEF CloseLogs, SaveResult, MarkCompleted, FinishCall
    <2>. QED BY <1>4, <2>1, <2>2, <2>3, <2>4 DEF CommandStep
  <1>5. ASSUME NEW t, Removed(t) \/ ViewRow(t)
        PROVE  job' = job
    BY <1>5 DEF Removed, ViewRow, CleanUp, runtimeVars
  <1>6. ASSUME BrokerStep \/ Connected \/ ViewStep \/ ViewFails
        PROVE  job' = job
    BY <1>6 DEF BrokerStep, Connected, ViewStep, ViewFails, ViewResult, ViewLogs, runtimeVars
  <1>7. ASSUME Failed
        PROVE  job' = job
    <2>1. ASSUME NEW c \in Jobs,
                 \/ StepFails(c) \/ WriteFails(c) \/ BreakStream(c) \/ CallFails(c) \/ CloseLogs(c, FALSE)
                 \/ \E s \in Readers : ReadLine(c, s, FALSE)
          PROVE  job' = job
      BY <2>1 DEF StepFails, WriteFails, BreakStream, CallFails, CloseLogs, ReadLine
    <2>. QED BY <1>7, <2>1 DEF Failed, runtimeVars
  <1>8. ASSUME Clicked
        PROVE  job' = job
    BY <1>8 DEF Clicked, RemoveAgent, runtimeVars
  <1>9. CASE UNCHANGED vars
    BY <1>9 DEF vars, runtimeVars, JobsOnHosts, Jobs, Host
  <1>10. ASSUME FleetNext
         PROVE  job' = job
    BY <1>1, <1>2, <1>3, <1>4, <1>5, <1>6, <1>7, <1>8, <1>10 DEF FleetNext
  <1>. QED BY <1>9, <1>10 DEF JobsOnHosts, Jobs, Host

-----------------------------------------------------------------------------
(* Types. *)

LEMMA InitInvariant ==
  FleetInit => PInv /\ JobsOnHosts
  <1>. SUFFICES ASSUME FleetInit
                PROVE  PInv /\ JobsOnHosts
    OBVIOUS
  <1>1. PICK plan \in Plans : PresenceInit(plan.up, FirstId) /\ RuntimeInit(plan.jobs, plan.files)
    BY DEF FleetInit
  <1>2. plan.up \subseteq Hosts /\ FirstId \in [Hosts -> Ids]
    BY PlanAssumption
  <1>3. PresenceTypeOK
    BY <1>1, <1>2, ThresholdAssumption DEF PresenceInit, PresenceTypeOK, NoRow
  <1>4. FileIsId
    BY <1>1, <1>2 DEF PresenceInit, FileIsId
  <1>5. HeardIsYoung
    BY <1>1, <1>2 DEF PresenceInit, HeardIsYoung, Running, Exists
  <1>6. JobsOnHosts
    BY <1>1, PlanAssumption DEF RuntimeInit, JobsOnHosts, Jobs, Host, IsJob
  <1>. QED BY <1>3, <1>4, <1>5, <1>6 DEF PInv

LEMMA RowTypes ==
  ASSUME PresenceTypeOK, NEW i,
         NEW new \in {"online", "offline", "disconnected"}
  PROVE  /\ UpdateAgentStatus(i, new) \in [Ids -> [status : {"absent", "online", "offline", "disconnected"},
                                                    age : 0..(Threshold + 1)]]
         /\ i \in Ids => CreateAgent(i) \in [Ids -> [status : {"absent", "online", "offline", "disconnected"},
                                                    age : 0..(Threshold + 1)]]
  BY ThresholdAssumption DEF PresenceTypeOK, UpdateAgentStatus, CreateAgent, Exists

LEMMA HostTypes ==
  ASSUME PInv, NEW h \in Hosts, OfHost(h)
  PROVE  PresenceTypeOK'
  <1>. USE DEF PInv, PresenceTypeOK
  <1>1. CASE StartAgent(h) \/ Die(h) \/ CreateIdFile(h) \/ CreateIdFileFails(h) \/ WriteIdFile(h)
    <2>1. CASE StartAgent(h) \/ Die(h)
      BY <2>1 DEF StartAgent, Die, Go
    <2>2. CASE CreateIdFile(h)
      BY <2>2 DEF CreateIdFile, Go
    <2>3. CASE CreateIdFileFails(h)
      BY <2>3 DEF CreateIdFileFails, Go, AfterFailedCreate
    <2>4. CASE WriteIdFile(h)
      BY <2>4 DEF WriteIdFile, Go
    <2>. QED BY <1>1, <2>1, <2>2, <2>3, <2>4
  <1>2. CASE ReadId(h)
    <2>1. CASE idFile[h] # NoFile
      BY <1>2, <2>1 DEF ReadId
    <2>2. CASE idFile[h] = NoFile
      BY <1>2, <2>2 DEF ReadId
    <2>. QED BY <2>1, <2>2
  <1>3. CASE RegisterAgent(h, TRUE) \/ RegisterAgent(h, FALSE) \/ RegisterFails(h)
    <2>1. process[h].id # NoId => process[h].id \in Ids
      OBVIOUS
    <2>2. agent' = agent \/ (process[h].id \in Ids /\ agent' = CreateAgent(process[h].id))
      BY <1>3, <2>1 DEF RegisterAgent, RegisterFails
    <2>3. agent' \in [Ids -> [status : {"absent", "online", "offline", "disconnected"},
                              age : 0..(Threshold + 1)]]
      BY <2>2, RowTypes
    <2>4. process' \in [Hosts -> [pc : {"down", "read", "create", "write", "register", "run"},
                                 id : Ids \cup {NoId}]]
      BY <1>3 DEF RegisterAgent, RegisterFails, Go
    <2>5. registered' \in [Hosts -> SUBSET Ids] /\ silenced' \subseteq Hosts
      BY <1>3, <2>1 DEF RegisterAgent, RegisterFails
    <2>6. UNCHANGED <<idFile, due, toggle>>
      BY <1>3 DEF RegisterAgent, RegisterFails
    <2>. QED BY <2>3, <2>4, <2>5, <2>6
  <1>4. CASE SendHeartbeat(h) \/ HeartbeatFails(h)
    <2>1. agent' \in [Ids -> [status : {"absent", "online", "offline", "disconnected"},
                              age : 0..(Threshold + 1)]]
      BY <1>4, RowTypes DEF SendHeartbeat, HeartbeatFails
    <2>. QED BY <1>4, <2>1 DEF SendHeartbeat, HeartbeatFails
  <1>. QED BY <1>1, <1>2, <1>3, <1>4 DEF OfHost

LEMMA ServerTypes ==
  ASSUME PInv, OfServer
  PROVE  PresenceTypeOK'
  <1>. USE DEF PInv, PresenceTypeOK
  <1>1. CASE Tick
    BY <1>1, ThresholdAssumption DEF Tick, Running
  <1>2. CASE SetOfflineStatusForInactiveAgents
    BY <1>2 DEF SetOfflineStatusForInactiveAgents
  <1>3. CASE ToggleWrite
    BY <1>3, RowTypes DEF ToggleWrite
  <1>4. ASSUME NEW i \in Ids, ToggleRead(i) \/ DeleteAgent(i)
        PROVE  PresenceTypeOK'
    BY <1>4, ThresholdAssumption DEF ToggleRead, DeleteAgent, Exists, NoRow
  <1>. QED BY <1>1, <1>2, <1>3, <1>4 DEF OfServer

-----------------------------------------------------------------------------
(* The id of a host. *)

LEMMA HostFileIsId ==
  ASSUME PInv, NEW h \in Hosts, OfHost(h)
  PROVE  FileIsId'
  <1>. SUFFICES ASSUME NEW g \in Hosts
                PROVE  /\ registered'[g] \subseteq {idFile'[g]}
                       /\ process'[g].pc \in {"register", "run"} => process'[g].id = idFile'[g]
                       /\ process'[g].pc = "create" => idFile'[g] = NoFile
                       /\ process'[g].pc = "write" => idFile'[g] = NoId
    BY DEF FileIsId
  <1>. USE IdAssumption DEF PInv, PresenceTypeOK, FileIsId
  <1>1. CASE StartAgent(h) \/ Die(h) \/ CreateIdFile(h) \/ CreateIdFileFails(h) \/ WriteIdFile(h)
    <2>1. CASE StartAgent(h)
      BY <2>1 DEF StartAgent, Go
    <2>2. CASE Die(h)
      BY <2>2 DEF Die, Go
    <2>3. CASE CreateIdFile(h)
      BY <2>3 DEF CreateIdFile, Go
    <2>4. CASE CreateIdFileFails(h)
      BY <2>4 DEF CreateIdFileFails, Go, AfterFailedCreate
    <2>5. CASE WriteIdFile(h)
      BY <2>5 DEF WriteIdFile, Go
    <2>. QED BY <1>1, <2>1, <2>2, <2>3, <2>4, <2>5
  <1>2. CASE ReadId(h)
    BY <1>2 DEF ReadId
  <1>3. CASE RegisterAgent(h, TRUE) \/ RegisterAgent(h, FALSE) \/ RegisterFails(h)
    BY <1>3 DEF RegisterAgent, RegisterFails, Go
  <1>4. CASE SendHeartbeat(h) \/ HeartbeatFails(h)
    BY <1>4 DEF SendHeartbeat, HeartbeatFails
  <1>. QED BY <1>1, <1>2, <1>3, <1>4 DEF OfHost

LEMMA ServerFileIsId ==
  ASSUME PInv, OfServer
  PROVE  FileIsId'
  BY DEF PInv, FileIsId, OfServer, Tick, SetOfflineStatusForInactiveAgents, ToggleWrite, ToggleRead,
         DeleteAgent

-----------------------------------------------------------------------------
(* The row of an agent that is heard. *)

LEMMA HostHeardIsYoung ==
  ASSUME PInv, NEW h \in Hosts, OfHost(h)
  PROVE  HeardIsYoung'
  <1>. SUFFICES ASSUME NEW g \in Hosts, g \notin silenced', process'[g].pc = "run",
                       process'[g].id \in Ids, agent'[process'[g].id].status # "absent"
                PROVE  /\ agent'[process'[g].id].status # "offline"
                       /\ agent'[process'[g].id].age <= 1
                       /\ g \notin due' => agent'[process'[g].id].age = 0
    BY DEF HeardIsYoung, Running, Exists
  <1>. USE IdAssumption DEF PInv, PresenceTypeOK, HeardIsYoung, Running, Exists
  <1>1. CASE StartAgent(h) \/ Die(h) \/ CreateIdFile(h) \/ CreateIdFileFails(h) \/ WriteIdFile(h)
    <2>1. CASE StartAgent(h)
      BY <2>1 DEF StartAgent, Go
    <2>2. CASE Die(h)
      BY <2>2 DEF Die, Go
    <2>3. CASE CreateIdFile(h)
      BY <2>3 DEF CreateIdFile, Go
    <2>4. CASE CreateIdFileFails(h)
      BY <2>4 DEF CreateIdFileFails, Go, AfterFailedCreate
    <2>5. CASE WriteIdFile(h)
      BY <2>5 DEF WriteIdFile, Go
    <2>. QED BY <1>1, <2>1, <2>2, <2>3, <2>4, <2>5
  <1>2. CASE ReadId(h)
    BY <1>2 DEF ReadId
  <1>3. CASE RegisterAgent(h, TRUE) \/ RegisterAgent(h, FALSE) \/ RegisterFails(h)
    <2>1. due' = due /\ process'[g].id = process[g].id
      BY <1>3 DEF RegisterAgent, RegisterFails, Go
    <2>2. CASE process[h].id \in Ids /\ agent' = CreateAgent(process[h].id)
      <3>1. CASE process[g].id = process[h].id
        BY <2>1, <2>2, <3>1 DEF CreateAgent
      <3>2. CASE process[g].id # process[h].id
        <4>1. g # h /\ process'[g] = process[g] /\ g \notin silenced
          BY <1>3, <3>2 DEF RegisterAgent, RegisterFails, Go
        <4>2. agent'[process[g].id] = agent[process[g].id]
          BY <2>2, <3>2 DEF CreateAgent
        <4>. QED BY <2>1, <4>1, <4>2
      <3>. QED BY <3>1, <3>2
    <2>3. CASE agent' = agent /\ (process'[h].pc = "down" \/ h \in silenced')
      <3>1. g # h /\ process'[g] = process[g] /\ g \notin silenced
        BY <1>3, <2>3 DEF RegisterAgent, RegisterFails, Go
      <3>. QED BY <2>1, <2>3, <3>1
    <2>. QED BY <1>3, <2>2, <2>3 DEF RegisterAgent, RegisterFails, Go
  <1>4. CASE SendHeartbeat(h) \/ HeartbeatFails(h)
    BY <1>4 DEF SendHeartbeat, HeartbeatFails, UpdateAgentStatus
  <1>. QED BY <1>1, <1>2, <1>3, <1>4 DEF OfHost

LEMMA ServerHeardIsYoung ==
  ASSUME PInv, OfServer
  PROVE  HeardIsYoung'
  <1>. SUFFICES ASSUME NEW g \in Hosts, g \notin silenced', process'[g].pc = "run",
                       process'[g].id \in Ids, agent'[process'[g].id].status # "absent"
                PROVE  /\ agent'[process'[g].id].status # "offline"
                       /\ agent'[process'[g].id].age <= 1
                       /\ g \notin due' => agent'[process'[g].id].age = 0
    BY DEF HeardIsYoung, Running, Exists
  <1>. USE ThresholdAssumption DEF PInv, PresenceTypeOK, HeardIsYoung, Running, Exists
  <1>1. CASE Tick
    BY <1>1 DEF Tick
  <1>2. CASE SetOfflineStatusForInactiveAgents
    <2>0. process' = process /\ silenced' = silenced /\ process[g].id \in Ids
      BY <1>2 DEF SetOfflineStatusForInactiveAgents
    <2>1. agent[process[g].id].status # "absent" /\ agent[process[g].id].age <= 1
      <3>1. agent'[process[g].id].status # "absent"
        BY <2>0
      <3>2. Inactive(agent[process[g].id]) => agent[process[g].id].status # "absent"
        BY DEF Inactive
      <3>3. agent'[process[g].id] = agent[process[g].id] \/ Inactive(agent[process[g].id])
        BY <1>2, <2>0 DEF SetOfflineStatusForInactiveAgents
      <3>4. agent[process[g].id].status # "absent"
        BY <3>1, <3>2, <3>3
      <3>. QED BY <2>0, <3>4
    <2>2. agent[process[g].id].age \in Nat
      BY <1>2 DEF SetOfflineStatusForInactiveAgents
    <2>3. ~ Inactive(agent[process[g].id])
      BY <2>1, <2>2 DEF Inactive
    <2>4. agent'[process[g].id] = agent[process[g].id]
      BY <1>2, <2>3 DEF SetOfflineStatusForInactiveAgents
    <2>. QED BY <1>2, <2>4 DEF SetOfflineStatusForInactiveAgents
  <1>3. CASE ToggleWrite
    BY <1>3 DEF ToggleWrite, UpdateAgentStatus
  <1>4. ASSUME NEW i \in Ids, ToggleRead(i) \/ DeleteAgent(i)
        PROVE  /\ agent'[process'[g].id].status # "offline"
               /\ agent'[process'[g].id].age <= 1
               /\ g \notin due' => agent'[process'[g].id].age = 0
    BY <1>4 DEF ToggleRead, DeleteAgent, NoRow
  <1>. QED BY <1>1, <1>2, <1>3, <1>4 DEF OfServer

-----------------------------------------------------------------------------
(* Theorems. *)

LEMMA StepInvariant ==
  ASSUME PInv, JobsOnHosts, [FleetNext]_vars
  PROVE  PInv' /\ JobsOnHosts'
  <1>1. [PresenceNext]_presenceVars
    BY FleetStep
  <1>2. CASE UNCHANGED presenceVars
    <2>1. PresenceTypeOK'
      BY <1>2 DEF PInv, PresenceTypeOK, presenceVars
    <2>2. FileIsId' /\ HeardIsYoung'
      BY <1>2 DEF PInv, FileIsId, HeardIsYoung, Running, Exists, presenceVars
    <2>. QED BY <2>1, <2>2, JobsStep DEF PInv
  <1>3. ASSUME NEW h \in Hosts, OfHost(h)
        PROVE  PInv'
    BY <1>3, HostTypes, HostFileIsId, HostHeardIsYoung DEF PInv
  <1>4. ASSUME OfServer
        PROVE  PInv'
    <2>1. PresenceTypeOK' /\ FileIsId' /\ HeardIsYoung'
      BY <1>4, ServerTypes, ServerFileIsId, ServerHeardIsYoung
    <2>. QED BY <2>1 DEF PInv
  <1>5. JobsOnHosts'
    BY JobsStep
  <1>6. CASE PresenceNext
    BY <1>3, <1>4, <1>5, <1>6 DEF PresenceNext
  <1>. QED BY <1>1, <1>2, <1>6

\* What the rows, files and processes of the agents hold whatever the registrations, the
\* heartbeats, the sweep and the administrator do (postgres.go, agent.go).
THEOREM PresenceInvariant == FleetSpec => []PInv
  <1>. QED BY InitInvariant, StepInvariant, PTL DEF FleetSpec

\* getOrCreateAgentID: over restarts, crashes and failed writes a host registers one id.
THEOREM OneId == FleetSpec => []OneIdPerHost
  <1>1. ASSUME PInv
        PROVE  OneIdPerHost
    <2>. SUFFICES ASSUME NEW h \in Hosts
                  PROVE  Cardinality(registered[h]) <= 1
      BY DEF OneIdPerHost
    <2>1. registered[h] \subseteq {idFile[h]}
      BY <1>1 DEF PInv, FileIsId
    <2>2. IsFiniteSet({idFile[h]}) /\ Cardinality({idFile[h]}) = 1
      BY FS_Singleton
    <2>. QED BY <2>1, <2>2, FS_Subset
  <1>. QED BY <1>1, PresenceInvariant, PTL

\* However the sweep, heartbeats, registrations and the toggle interleave, an agent that runs
\* and beats is never taken for inactive.
THEOREM BeatingOnline == FleetSpec => []BeatingIsNotOffline
  <1>1. ASSUME PInv
        PROVE  BeatingIsNotOffline
    BY <1>1 DEF PInv, HeardIsYoung, BeatingIsNotOffline
  <1>. QED BY <1>1, PresenceInvariant, PTL
=============================================================================
