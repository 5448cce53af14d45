------------------------------ MODULE LiveView ------------------------------
(***************************************************************************)
(* How the status of a task reaches the browsers: a row is written, read   *)
(* again and broadcast (server/internal/server.go), the event broker       *)
(* passes it on to the subscribers that have room (server/internal/events/ *)
(* events.go), the page of a browser changes its badge (web/static/js/     *)
(* sse-client.js).                                                         *)
(***************************************************************************)
EXTENDS FiniteSets, Naturals, Sequences

CONSTANTS
  Tasks,
  Browsers,
  Publishers,  \* goroutines that write a status and broadcast it: pairs command and kind
  MayView      \* the tasks each browser's user may see

VARIABLES
  status,      \* the status in the rows of "tasks"
  publish,     \* each publisher between its write and its broadcast
  broadcast,   \* the channel of the broker, of capacity 1
  browser,     \* each browser that is ever opened, with its channel, of capacity 1
  overtaken    \* history: tasks whose last broadcast is older than the row

liveVars == <<status, publish, broadcast, browser, overtaken>>

-----------------------------------------------------------------------------
Statuses == {"pending", "assigned", "running", "completed", "failed", "timed_out"}
Events == [task : Tasks, status : Statuses]

LiveTypeOK ==
  /\ status \in [Tasks -> Statuses]
  /\ \A p \in Publishers :
       publish[p].pc \in {"idle", "get", "cast"} /\ publish[p].event \subseteq Events
  /\ broadcast \in Seq(Events) /\ Len(broadcast) <= 1
  /\ DOMAIN browser \subseteq Browsers
  /\ \A b \in DOMAIN browser :
       /\ browser[b].pc \in {"closed", "loaded", "live"}
       /\ browser[b].inbox \in Seq(Events) /\ Len(browser[b].inbox) <= 1
       /\ browser[b].missed \subseteq Tasks
       /\ browser[b].badge \in [MayView[b] -> Statuses \cup {"none"}]
  /\ overtaken \subseteq Tasks

LiveInit(opened) ==
  /\ status = [t \in Tasks |-> "pending"]
  /\ publish = [p \in Publishers |-> [pc |-> "idle", event |-> {}]]
  /\ broadcast = <<>>
  /\ browser = [b \in opened |-> [pc |-> "closed", inbox |-> <<>>, missed |-> {},
                                  badge |-> [t \in MayView[b] |-> "none"]]]
  /\ overtaken = {}

-----------------------------------------------------------------------------
(* Publishers.  A status is written with ToPublish; then the row is read     *)
(* again and what was read is broadcast.  Where no browser is ever opened    *)
(* the broadcast is left out: the broker always takes it and drops it.       *)

ToPublish(p, t, new) ==
  /\ status' = [status EXCEPT ![t] = new]
  /\ publish' = IF DOMAIN browser = {} THEN publish
                ELSE [publish EXCEPT ![p] = [pc |-> "get", event |-> {}]]

Idle(p) == publish[p].pc = "idle"

GetForPublish(p, t) ==
  /\ publish[p].pc = "get"
  /\ publish' = [publish EXCEPT ![p] = [pc |-> "cast", event |-> {[task |-> t, status |-> status[t]]}]]
  /\ UNCHANGED <<status, broadcast, browser, overtaken>>

\* Nothing is broadcast then.
GetFails(p, t) ==
  /\ publish[p].pc = "get"
  /\ publish' = [publish EXCEPT ![p] = [pc |-> "idle", event |-> {}]]
  /\ overtaken' = overtaken \cup {t}
  /\ UNCHANGED <<status, broadcast, browser>>

\* EventBroker.Broadcast blocks while the channel is full.
Broadcast(p) ==
  /\ publish[p].pc = "cast" /\ Len(broadcast) < 1
  /\ \E e \in publish[p].event :
       /\ broadcast' = Append(broadcast, e)
       /\ overtaken' = IF p[2] = "stream" /\ e.status # status[e.task]
                       THEN overtaken \cup {e.task} ELSE overtaken \ {e.task}
  /\ publish' = [publish EXCEPT ![p] = [pc |-> "idle", event |-> {}]]
  /\ UNCHANGED <<status, browser>>

-----------------------------------------------------------------------------
(* The broker. *)

\* A client whose channel is full is skipped.  missed: the tasks whose last event did not
\* reach the browser.
Offer(b, e) ==
  IF browser[b].pc = "live" /\ browser[b].inbox = <<>>
  THEN [browser[b] EXCEPT !.inbox = <<e>>, !.missed = @ \ {e.task}]
  ELSE [browser[b] EXCEPT !.missed = @ \cup {e.task}]

PassOn ==
  /\ broadcast # <<>>
  /\ broadcast' = Tail(broadcast)
  /\ browser' = [b \in DOMAIN browser |-> Offer(b, Head(broadcast))]
  /\ UNCHANGED <<status, publish, overtaken>>

-----------------------------------------------------------------------------
(* Browsers. *)

\* The list of tasks.  The page subscribes when it has been loaded.
LoadPage(b) ==
  /\ browser' = [browser EXCEPT ![b] = [pc |-> "loaded", inbox |-> <<>>, missed |-> {},
                                        badge |-> [t \in MayView[b] |-> status[t]]]]
  /\ UNCHANGED <<status, publish, broadcast, overtaken>>

\* A client with an empty channel.
Subscribed(b) == [browser[b] EXCEPT !.pc = "live", !.inbox = <<>>]

\* Also after a pause when the stream has failed: nothing is loaded again.
Subscribe(b) ==
  /\ browser[b].pc = "loaded"
  /\ browser' = [browser EXCEPT ![b] = Subscribed(b)]
  /\ UNCHANGED <<status, publish, broadcast, overtaken>>

\* What was in the channel is lost.
Disconnect(b) ==
  /\ browser[b].pc = "live"
  /\ browser' = [browser EXCEPT
       ![b].pc = "loaded", ![b].inbox = <<>>,
       ![b].missed = @ \cup {browser[b].inbox[i].task : i \in DOMAIN browser[b].inbox}]
  /\ UNCHANGED <<status, publish, broadcast, overtaken>>

Badge(b, e) == IF e.task \in MayView[b] THEN [browser[b].badge EXCEPT ![e.task] = e.status]
               ELSE browser[b].badge

\* sseHandler writes the event if the user may see the task, the page shows it.
Deliver(b) ==
  /\ browser[b].pc = "live" /\ browser[b].inbox # <<>>
  /\ browser' = [browser EXCEPT ![b] = [@ EXCEPT !.inbox = <<>>,
                                                 !.badge = Badge(b, Head(browser[b].inbox))]]
  /\ UNCHANGED <<status, publish, broadcast, overtaken>>

=============================================================================
