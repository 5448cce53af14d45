------------------------------ MODULE Presence ------------------------------
(***************************************************************************)
(* Which agents there are and whether they are online: the identity of an  *)
(* agent process (agent/internal/agent.go), its registration and           *)
(* heartbeats (server/internal/server.go), the sweep for silent agents     *)
(* (server/internal/agent_status_service.go) and the administrator's       *)
(* buttons (server/internal/web/handlers.go).  A row is written by four    *)
(* parties that do not look at each other.  Time advances by the period of *)
(* the heartbeats.                                                         *)
(***************************************************************************)
EXTENDS FiniteSets, Naturals

CONSTANTS
  Hosts,
  Ids,         \* the ids that may be generated
  NoId,        \* the id of an agent whose file is empty
  NoFile,
  Threshold    \* how many periods a silent agent stays online

ASSUME ThresholdAssumption == Threshold \in Nat \ {0}
ASSUME IdAssumption == NoId \notin Ids /\ NoFile \notin Ids /\ NoId # NoFile

VARIABLES
  idFile,      \* the content of "agent.id" on each host
  process,     \* the agent process of each host: where it is, its id
  due,         \* hosts whose process has a heartbeat to send in this period
  agent,       \* the rows of "agents": status and periods since the last heartbeat
  toggle,      \* a request to toggle: the row it has read, if any
  registered,  \* history: the ids each host has registered
  silenced     \* history: hosts with a refused registration or a failed heartbeat

presenceVars == <<idFile, process, due, agent, toggle, registered, silenced>>

-----------------------------------------------------------------------------
PresenceTypeOK ==
  /\ idFile \in [Hosts -> Ids \cup {NoId, NoFile}]
  /\ process \in [Hosts -> [pc : {"down", "read", "create", "write", "register", "run"},
                            id : Ids \cup {NoId}]]
  /\ due \subseteq Hosts
  /\ agent \in [Ids -> [status : {"absent", "online", "offline", "disconnected"},
                        age : 0..(Threshold + 1)]]
  /\ toggle \subseteq [id : Ids, status : {"online", "offline", "disconnected"}]
  /\ registered \in [Hosts -> SUBSET Ids] /\ silenced \subseteq Hosts

NoRow == [status |-> "absent", age |-> 0]

\* Hosts in up run an agent that has registered with the id of its file.
PresenceInit(up, idOf) ==
  /\ idFile = [h \in Hosts |-> IF h \in up THEN idOf[h] ELSE NoFile]
  /\ process = [h \in Hosts |-> IF h \in up THEN [pc |-> "run", id |-> idOf[h]]
                                ELSE [pc |-> "down", id |-> NoId]]
  /\ agent = [i \in Ids |-> IF \E h \in up : idOf[h] = i THEN [status |-> "online", age |-> 0]
                            ELSE NoRow]
  /\ registered = [h \in Hosts |-> IF h \in up THEN {idOf[h]} ELSE {}]
  /\ due = {} /\ toggle = {} /\ silenced = {}

Running(h) == process[h].pc = "run"
Exists(i) == i \in Ids /\ agent[i].status # "absent"

Go(h, pc) == process' = [process EXCEPT ![h].pc = pc]

\* UPDATE agents: no error when there is no such row.
UpdateAgentStatus_TimeOnly(i, new) ==
  IF Exists(i) THEN [agent EXCEPT ![i].age = 0] ELSE agent

UpdateAgentStatus(i, new) ==
  IF Exists(i) THEN [agent EXCEPT ![i] = [status |-> new, age |-> 0]] ELSE agent

-----------------------------------------------------------------------------
(* The agent process. *)

StartAgent(h) ==
  /\ process[h].pc = "down"
  /\ process' = [process EXCEPT ![h] = [pc |-> "read", id |-> NoId]]
  /\ UNCHANGED <<idFile, due, agent, toggle, registered, silenced>>

Die(h) ==
  /\ process[h].pc # "down"
  /\ Go(h, "down")
  /\ due' = due \ {h}
  /\ UNCHANGED <<idFile, agent, toggle, registered, silenced>>

Taken == (UNION {registered[h] : h \in Hosts})
         \cup {idFile[h] : h \in Hosts} \cup {process[h].id : h \in Hosts}

\* getOrCreateAgentID: a new id only if there is no file; an empty file is an empty id.
ReadId(h) ==
  /\ process[h].pc = "read"
  /\ IF idFile[h] # NoFile
     THEN process' = [process EXCEPT ![h] = [pc |-> "register", id |-> idFile[h]]]
     ELSE /\ Ids \ Taken # {}
          /\ process' = [process EXCEPT ![h] = [pc |-> "create", id |-> CHOOSE i \in Ids \ Taken : TRUE]]
  /\ UNCHANGED <<idFile, due, agent, toggle, registered, silenced>>

\* os.WriteFile creates the file and then writes it.
CreateIdFile(h) ==
  /\ process[h].pc = "create"
  /\ idFile' = [idFile EXCEPT ![h] = NoId]
  /\ Go(h, "write")
  /\ UNCHANGED <<due, agent, toggle, registered, silenced>>

AfterFailedCreate_Register == "register"
AfterFailedCreate == "down"

CreateIdFileFails(h) ==
  /\ process[h].pc = "create"
  /\ Go(h, AfterFailedCreate)
  /\ UNCHANGED <<idFile, due, agent, toggle, registered, silenced>>

WriteIdFile(h) ==
  /\ process[h].pc = "write"
  /\ idFile' = [idFile EXCEPT ![h] = process[h].id]
  /\ Go(h, "register")
  /\ UNCHANGED <<due, agent, toggle, registered, silenced>>

CreateAgent_KeepHeartbeat(i) ==
  [agent EXCEPT ![i] = [status |-> "online", age |-> agent[i].age]]

\* INSERT ... ON CONFLICT (id) DO UPDATE
CreateAgent(i) == [agent EXCEPT ![i] = [status |-> "online", age |-> 0]]

\* An answer without success is logged only, and the agent goes on: an id that does not
\* parse, or a row that could not be written (refused).
RegisterAgent(h, refused) ==
  /\ process[h].pc = "register"
  /\ Go(h, "run")
  /\ IF process[h].id = NoId \/ refused
     THEN silenced' = silenced \cup {h} /\ UNCHANGED <<agent, registered>>
     ELSE /\ agent' = CreateAgent(process[h].id)
          /\ registered' = [registered EXCEPT ![h] = @ \cup {process[h].id}]
          /\ silenced' = silenced \ {h}
  /\ UNCHANGED <<idFile, due, toggle>>

\* The call fails or takes longer than 5 s: the agent exits; the row may be there.
RegisterFails(h) ==
  /\ process[h].pc = "register"
  /\ Go(h, "down")
  /\ \/ UNCHANGED <<agent, registered>>
     \/ /\ process[h].id # NoId
        /\ agent' = CreateAgent(process[h].id)
        /\ registered' = [registered EXCEPT ![h] = @ \cup {process[h].id}]
  /\ UNCHANGED <<idFile, due, toggle, silenced>>

SendHeartbeat(h) ==
  /\ h \in due
  /\ agent' = UpdateAgentStatus(process[h].id, "online")
  /\ due' = due \ {h}
  /\ silenced' = IF Exists(process[h].id) THEN silenced \ {h} ELSE silenced
  /\ UNCHANGED <<idFile, process, toggle, registered>>

HeartbeatFails(h) ==
  /\ h \in due
  /\ due' = due \ {h}
  /\ silenced' = silenced \cup {h}
  /\ UNCHANGED <<idFile, process, agent, toggle, registered>>

-----------------------------------------------------------------------------
(* Time and the sweep. *)

\* A process has sent its heartbeat, or failed to, before the next one is due.
Tick ==
  /\ due = {}
  /\ due' = {h \in Hosts : Running(h)}
  /\ agent' = [i \in Ids |-> IF Exists(i) /\ agent[i].age <= Threshold
                             THEN [agent[i] EXCEPT !.age = @ + 1] ELSE agent[i]]
  /\ UNCHANGED <<idFile, process, toggle, registered, silenced>>

Inactive_Minutes(row) == row.status = "online" /\ row.age > 60 * Threshold
Inactive(row) == row.status = "online" /\ row.age > Threshold

SetOfflineStatusForInactiveAgents ==
  /\ \E i \in Ids : Inactive(agent[i])
  /\ agent' = [i \in Ids |-> IF Inactive(agent[i]) THEN [agent[i] EXCEPT !.status = "offline"]
                             ELSE agent[i]]
  /\ UNCHANGED <<idFile, process, due, toggle, registered, silenced>>

-----------------------------------------------------------------------------
(* The administrator. *)

ToggleRead(i) ==
  /\ toggle = {} /\ Exists(i)
  /\ toggle' = {[id |-> i, status |-> agent[i].status]}
  /\ UNCHANGED <<idFile, process, due, agent, registered, silenced>>

\* The opposite of what was read, and the time of a heartbeat.
ToggleWrite ==
  /\ \E t \in toggle :
       agent' = UpdateAgentStatus(t.id, IF t.status = "online" THEN "disconnected" ELSE "online")
  /\ toggle' = {}
  /\ UNCHANGED <<idFile, process, due, registered, silenced>>

DeleteAgent(i) ==
  /\ Exists(i)
  /\ agent' = [agent EXCEPT ![i] = NoRow]
  /\ UNCHANGED <<idFile, process, due, toggle, registered, silenced>>
=============================================================================
