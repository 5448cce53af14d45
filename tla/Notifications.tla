---------------------------- MODULE Notifications ----------------------------
(***************************************************************************)
(* The alert pipeline of the server:                                       *)
(*   - a result call whose output carries an alert stores an event, looks  *)
(*     for an earlier one with the same key, evaluates the rules, and for  *)
(*     each route stores a delivery and dispatches it                      *)
(*     (notification_evaluator.go, notification_routing.go);               *)
(*   - a delivery is sent and its new status written, by the call that     *)
(*     created it or by the retry processor, which works through a list of *)
(*     rows it has read (notification_delivery.go,                         *)
(*     notification_retry_processor.go);                                   *)
(*   - an administrator retries a dead delivery by hand (web/handlers.go). *)
(* Every query is a step.  A call whose agent has gone, or whose database  *)
(* fails, fails at any of them; the messages themselves do not notice.     *)
(***************************************************************************)
EXTENDS Naturals, Sequences, FiniteSets

CONSTANTS
  Events,       \* the results that carry an alert
  Alert,        \* what each of them says
  Keys,         \* dedup keys
  Channels,     \* names of channels
  Configured,   \* the channels with a route and an adapter
  Targets,      \* chats; "default" is the one a route is configured with
  MaxAttempts,  \* of a route
  BatchSize,    \* rows the processor takes at once
  Admins,       \* requests for a manual retry that may be under way at once
  MaxFailures,  \* bound on messages the provider refuses
  MaxFaults,    \* bound on failed queries and ends of the server process
  MaxRetries    \* bound on manual retries

Severities == {"info", "warning", "error", "critical"}
RuleSets == {"default", "all", "errors_only", "disabled"}

\* matched: the channels of the enabled rules that match; destinations: those the
\* task names itself.
AlertType == [key : Keys, notify : BOOLEAN, severity : Severities, ruleSet : RuleSets,
              matched : SUBSET Channels, destinations : SUBSET (Channels \X Targets)]

ASSUME NotificationAssumption ==
  /\ Alert \in [Events -> AlertType]
  /\ Configured \subseteq Channels
  /\ {"telegram"} \subseteq Channels
  /\ {"default"} \subseteq Targets
  /\ MaxAttempts \in Nat \ {0} /\ BatchSize \in Nat \ {0}
  /\ MaxFailures \in Nat /\ MaxFaults \in Nat /\ MaxRetries \in Nat

VARIABLES
  event,      \* the status of the rows of notification_events
  delivery,   \* the rows of notification_deliveries
  order,      \* the deliveries in the order of created_at
  call,       \* evaluateAndStoreNotificationEvent in each result call
  processor,  \* the goroutine of the retry processor
  admin,      \* the requests for a manual retry
  copies,     \* history: how often the message of a delivery reached its chat
  excused,    \* history: the deliveries with a reason to be sent again
  twins,      \* history: for a duplicate, the events its query found
  failures, faults, retries  \* how much of the bounds is used

bounds == <<failures, faults, retries>>
vars == <<event, delivery, order, call, processor, admin, copies, excused, twins,
          bounds>>

-----------------------------------------------------------------------------
(* The rules: which channels an alert is for, which routes that makes. *)

\* policyForTask: "disabled" is a policy with nothing in it, not even the rules.
DefaultSeverities(ruleSet) ==
  CASE ruleSet = "default"     -> {"warning", "error", "critical"}
    [] ruleSet = "all"         -> Severities
    [] ruleSet = "errors_only" -> {"error", "critical"}
    [] ruleSet = "disabled"    -> {}

\* The channels of the rules, or the default channel when no rule matches.
ChannelsFor(alert) ==
  IF alert.ruleSet = "disabled" THEN {}
  ELSE IF alert.matched # {} THEN alert.matched
  ELSE IF alert.severity \in DefaultSeverities(alert.ruleSet) THEN {"telegram"} ELSE {}

Routed(alert) == alert.notify /\ ChannelsFor(alert) # {}

\* The task's own destinations replace the channels; those without a route are dropped.
Resolve(alert) ==
  IF alert.destinations # {}
  THEN {d \in alert.destinations : d[1] \in Configured}
  ELSE (ChannelsFor(alert) \cap Configured) \X {"default"}

Routes == Configured \X Targets
\* The deliveries that may ever be created.
Deliveries == {d \in Events \X Routes : d[2] \in Resolve(Alert[d[1]])}

-----------------------------------------------------------------------------
(* The state. *)

EventStatus == {"absent", "detected", "accepted", "suppressed", "rejected"}
DeliveryStatus == {"absent", "pending", "sent", "retry_scheduled", "dead_letter"}

\* due: next_retry_at is over.
Delivery == [status : DeliveryStatus, attempt : Nat, max : Nat, due : BOOLEAN]
NoDelivery == [status |-> "absent", attempt |-> 0, max |-> 0, due |-> FALSE]

\* result: what the provider said; todo: the routes that have no delivery yet.
Result == {"none", "ok", "error"}
CallPC == {"new", "dedup", "suppress", "create", "send", "persist", "reject", "accept", "over"}
Call == [pc : CallPC, todo : SUBSET Routes, cur : SUBSET Routes, result : Result]
CallAt(pc) == [pc |-> pc, todo |-> {}, cur |-> {}, result |-> "none"]

\* What the processor or a request has read of a row.
RowCopy == [id : Deliveries, status : DeliveryStatus, attempt : Nat, max : Nat]
Processor == [pc : {"idle", "send", "persist"}, batch : SUBSET RowCopy,
              cur : SUBSET RowCopy, result : Result]
Idle == [pc |-> "idle", batch |-> {}, cur |-> {}, result |-> "none"]

TypeOK ==
  /\ event \in [Events -> EventStatus]
  /\ delivery \in [Deliveries -> Delivery]
  /\ order \in Seq(Deliveries)
  /\ call \in [Events -> Call]
  /\ processor \in Processor
  /\ admin \in [Admins -> SUBSET RowCopy]
  /\ copies \in [Deliveries -> Nat]
  /\ excused \subseteq Deliveries
  /\ twins \in [Events -> SUBSET Events]
  /\ failures \in 0..MaxFailures /\ faults \in 0..MaxFaults /\ retries \in 0..MaxRetries

Init ==
  /\ event = [e \in Events |-> "absent"]
  /\ delivery = [d \in Deliveries |-> NoDelivery]
  /\ order = <<>>
  /\ call = [e \in Events |-> CallAt("new")]
  /\ processor = Idle
  /\ admin = [a \in Admins |-> {}]
  /\ copies = [d \in Deliveries |-> 0]
  /\ excused = {}
  /\ twins = [e \in Events |-> {}]
  /\ failures = 0 /\ faults = 0 /\ retries = 0

CopyOf(d) == [id |-> d, status |-> delivery[d].status, attempt |-> delivery[d].attempt,
              max |-> delivery[d].max]

QueryFails ==
  /\ faults < MaxFaults
  /\ faults' = faults + 1
  /\ UNCHANGED <<failures, retries>>

-----------------------------------------------------------------------------
(* The repository's statements. *)

CreateNotificationDelivery(d) ==
  /\ delivery' = [delivery EXCEPT ![d] =
       [status |-> "pending", attempt |-> 0, max |-> MaxAttempts, due |-> TRUE]]
  /\ order' = Append(order, d)

UpdateNotificationDeliveryStatus(d, attempt, status, due) ==
  delivery' = [delivery EXCEPT ![d] =
    [status |-> status, attempt |-> attempt, max |-> @.max, due |-> due]]

ScheduleNotificationDeliveryRetry(d, max) ==
  delivery' = [delivery EXCEPT ![d] =
    [status |-> "retry_scheduled", attempt |-> @.attempt, max |-> max, due |-> TRUE]]

UpdateNotificationEventStatus(e, status) == event' = [event EXCEPT ![e] = status]

-----------------------------------------------------------------------------
(* A result call: the event. *)

\* An event that cannot be stored is forgotten.
StoreEvent(e) ==
  /\ call[e].pc = "new"
  /\ \/ /\ event' = [event EXCEPT ![e] = "detected"]
        /\ call' = [call EXCEPT ![e] = CallAt("dedup")]
        /\ UNCHANGED bounds
     \/ /\ QueryFails
        /\ call' = [call EXCEPT ![e] = CallAt("over")]
        /\ UNCHANGED event
  /\ UNCHANGED <<delivery, order, processor, admin, copies, excused, twins>>

Found_Itself(e) ==
  {x \in Events : event[x] # "absent" /\ Alert[x].key = Alert[e].key}

\* FindLatestNotificationEventByDedupKeySince: any other event with this key,
\* whatever has become of it.
Found(e) ==
  {x \in Events \ {e} : event[x] # "absent" /\ Alert[x].key = Alert[e].key}

\* Evaluate and Resolve, for an event that is not a duplicate.
Decision(e) ==
  IF ~ Routed(Alert[e]) THEN CallAt("suppress")
  ELSE IF Resolve(Alert[e]) = {} THEN CallAt("reject")
  ELSE [CallAt("create") EXCEPT !.todo = Resolve(Alert[e])]

\* Those older than dedup_window_seconds are not found: any may be, as events are
\* stored at any time.  A query that fails lets the event pass.
Deduplicate(e) ==
  /\ call[e].pc = "dedup"
  /\ \/ /\ \E recent \in SUBSET Found(e) :
             /\ call' = [call EXCEPT ![e] =
                  IF recent # {} THEN CallAt("suppress") ELSE Decision(e)]
             /\ twins' = [twins EXCEPT ![e] = recent]
        /\ UNCHANGED bounds
     \/ /\ QueryFails
        /\ call' = [call EXCEPT ![e] = Decision(e)]
        /\ UNCHANGED twins
  /\ UNCHANGED <<event, delivery, order, processor, admin, copies, excused>>

UpdateEventStatus_Raw(e) ==
  /\ call[e].pc \in {"suppress", "reject", "accept"}
  /\ UpdateNotificationEventStatus(e, call[e].pc)
  /\ call' = [call EXCEPT ![e] = CallAt("over")]
  /\ UNCHANGED <<delivery, order, processor, admin, copies, excused, twins, bounds>>

\* updateNotificationEventStatus, the last thing the call does.
UpdateEventStatus(e) ==
  /\ call[e].pc \in {"suppress", "reject", "accept"}
  /\ \/ /\ UpdateNotificationEventStatus(e,
             CASE call[e].pc = "suppress" -> "suppressed"
               [] call[e].pc = "reject"   -> "rejected"
               [] call[e].pc = "accept"   -> "accepted")
        /\ UNCHANGED bounds
     \/ QueryFails /\ UNCHANGED event
  /\ call' = [call EXCEPT ![e] = CallAt("over")]
  /\ UNCHANGED <<delivery, order, processor, admin, copies, excused, twins>>

\* The routes are a list: they are taken in its order, whatever that is.
First(todo) == IF todo = {} THEN {} ELSE {CHOOSE r \in todo : TRUE}

CreateDelivery_SkipsFailed(e) ==
  /\ call[e].pc = "create"
  /\ \E r \in First(call[e].todo) :
       \/ /\ CreateNotificationDelivery(<<e, r>>)
          /\ call' = [call EXCEPT ![e] =
               [pc |-> "send", todo |-> @.todo \ {r}, cur |-> {r}, result |-> "none"]]
          /\ UNCHANGED bounds
       \/ /\ QueryFails
          /\ call' = [call EXCEPT ![e].pc = IF call[e].todo = {r} THEN "accept" ELSE "create",
                                  ![e].todo = @ \ {r}]
          /\ UNCHANGED <<delivery, order>>
  /\ UNCHANGED <<event, processor, admin, copies, excused, twins>>

\* A delivery that cannot be stored rejects the event, what was sent before or not.
CreateDelivery(e) ==
  /\ call[e].pc = "create"
  /\ \/ \E r \in First(call[e].todo) :
          /\ CreateNotificationDelivery(<<e, r>>)
          /\ call' = [call EXCEPT ![e] =
               [pc |-> "send", todo |-> @.todo \ {r}, cur |-> {r}, result |-> "none"]]
          /\ UNCHANGED bounds
     \/ /\ QueryFails
        /\ call' = [call EXCEPT ![e] = CallAt("reject")]
        /\ UNCHANGED <<delivery, order>>
  /\ UNCHANGED <<event, processor, admin, copies, excused, twins>>

-----------------------------------------------------------------------------
(* dispatchNotificationDelivery, in two steps: the provider and the row. *)

\* The message reaches the chat or not, and the answer comes back or not.
Message(d, result) ==
  \/ /\ result = "ok"
     /\ copies' = [copies EXCEPT ![d] = @ + 1]
     /\ UNCHANGED <<excused, bounds>>
  \/ /\ result = "error"
     /\ failures < MaxFailures
     /\ failures' = failures + 1
     /\ \/ UNCHANGED <<copies, excused>>
        \/ /\ copies' = [copies EXCEPT ![d] = @ + 1]
           /\ excused' = excused \cup {d}
     /\ UNCHANGED <<faults, retries>>

\* UpdateNotificationDeliveryStatus, from the attempts of the copy that was read.
NewStatus_OneMore(attempt, max, result) ==
  [status |-> IF result = "ok" THEN "sent"
              ELSE IF attempt + 1 > max THEN "dead_letter" ELSE "retry_scheduled",
   attempt |-> attempt + 1,
   due |-> FALSE]

NewStatus_SentAnyway(attempt, max, result) ==
  [status |-> IF attempt + 1 >= max \/ result = "ok" THEN "sent" ELSE "retry_scheduled",
   attempt |-> attempt + 1,
   due |-> FALSE]

NewStatus(attempt, max, result) ==
  [status |-> IF result = "ok" THEN "sent"
              ELSE IF attempt + 1 >= max THEN "dead_letter" ELSE "retry_scheduled",
   attempt |-> attempt + 1,
   due |-> FALSE]

Persist(d, attempt, max, result) ==
  LET new == NewStatus(attempt, max, result) IN
  \/ /\ UpdateNotificationDeliveryStatus(d, new.attempt, new.status, new.due)
     /\ UNCHANGED <<excused, bounds>>
  \/ /\ QueryFails
     /\ excused' = excused \cup {d}
     /\ UNCHANGED delivery

CallSends(e) ==
  /\ call[e].pc = "send"
  /\ \E r \in call[e].cur, result \in {"ok", "error"} :
       /\ Message(<<e, r>>, result)
       /\ call' = [call EXCEPT ![e] =
            [pc |-> "persist", todo |-> @.todo, cur |-> {r}, result |-> result]]
  /\ UNCHANGED <<event, delivery, order, processor, admin, twins>>

\* The row is as it was created in this call's copy.
CallPersists(e) ==
  /\ call[e].pc = "persist"
  /\ \E r \in call[e].cur : Persist(<<e, r>>, 0, MaxAttempts, call[e].result)
  /\ call' = [call EXCEPT ![e] =
       IF call[e].todo = {} THEN CallAt("accept")
       ELSE [CallAt("create") EXCEPT !.todo = call[e].todo]]
  /\ UNCHANGED <<event, order, processor, admin, copies, twins>>

-----------------------------------------------------------------------------
(* The retry processor. *)

Waiting_RetriesOnly(d) == delivery[d].status = "retry_scheduled" /\ delivery[d].due

Waiting(d) ==
  \/ delivery[d].status = "pending"
  \/ delivery[d].status = "retry_scheduled" /\ delivery[d].due

\* The deliveries a result call has created and not yet dealt with.
Underway == {d \in Deliveries : d[2] \in call[d[1]].cur}

CreatedBefore(x, d) ==
  \E j, k \in 1..Len(order) : j < k /\ order[j] = x /\ order[k] = d

\* The oldest rows that wait, as many as a batch holds.
Listed ==
  {d \in Deliveries :
     /\ Waiting(d)
     /\ Cardinality({x \in Deliveries : Waiting(x) /\ CreatedBefore(x, d)}) < BatchSize}

\* ListNotificationDeliveriesForDispatch: also rows a result call has just created and
\* is about to send.
List ==
  /\ processor.pc = "idle"
  /\ Listed # {}
  /\ processor' = [Idle EXCEPT !.pc = "send", !.batch = {CopyOf(d) : d \in Listed}]
  /\ excused' = excused \cup (Underway \cap Listed)
  /\ UNCHANGED <<event, delivery, order, call, admin, copies, twins, bounds>>

Oldest(batch) == {row \in batch : \A x \in batch : ~ CreatedBefore(x.id, row.id)}

GoOn(rest) == IF rest = {} THEN Idle ELSE [Idle EXCEPT !.pc = "send", !.batch = rest]

\* The event of a row is loaded first; one that cannot be is left for the next pass.
ProcessorSends ==
  /\ processor.pc = "send"
  /\ \E row \in Oldest(processor.batch) :
       \/ \E result \in {"ok", "error"} :
            /\ Message(row.id, result)
            /\ processor' = [pc |-> "persist", batch |-> processor.batch \ {row},
                             cur |-> {row}, result |-> result]
       \/ /\ QueryFails
          /\ processor' = GoOn(processor.batch \ {row})
          /\ UNCHANGED <<copies, excused>>
  /\ UNCHANGED <<event, delivery, order, call, admin, twins>>

ProcessorPersists ==
  /\ processor.pc = "persist"
  /\ \E row \in processor.cur : Persist(row.id, row.attempt, row.max, processor.result)
  /\ processor' = GoOn(processor.batch)
  /\ UNCHANGED <<event, order, call, admin, copies, twins>>

FallsDue(d) ==
  /\ delivery[d].status = "retry_scheduled"
  /\ ~ delivery[d].due
  /\ delivery' = [delivery EXCEPT ![d].due = TRUE]
  /\ UNCHANGED <<event, order, call, processor, admin, copies, excused, twins, bounds>>

-----------------------------------------------------------------------------
(* retryNotificationDelivery: the check, and the update without a condition. *)

ReadForRetry_Unchecked(a, d) ==
  /\ admin[a] = {}
  /\ retries < MaxRetries
  /\ retries' = retries + 1
  /\ delivery[d].status # "absent"
  /\ admin' = [admin EXCEPT ![a] = {CopyOf(d)}]
  /\ UNCHANGED <<event, delivery, order, call, processor, copies, excused, twins,
                 failures, faults>>

\* Only a dead delivery may be retried by hand.
ReadForRetry(a, d) ==
  /\ admin[a] = {}
  /\ retries < MaxRetries
  /\ retries' = retries + 1
  /\ delivery[d].status = "dead_letter"
  /\ admin' = [admin EXCEPT ![a] = {CopyOf(d)}]
  /\ UNCHANGED <<event, delivery, order, call, processor, copies, excused, twins,
                 failures, faults>>

\* One more attempt; the row may be a different one by now.
ScheduleRetry(a) ==
  \E row \in admin[a] :
    /\ ScheduleNotificationDeliveryRetry(row.id,
         IF row.attempt >= row.max THEN row.attempt + 1 ELSE row.max)
    /\ excused' = IF row = CopyOf(row.id) THEN excused ELSE excused \cup {row.id}
    /\ admin' = [admin EXCEPT ![a] = {}]
    /\ UNCHANGED <<event, order, call, processor, copies, twins, bounds>>

-----------------------------------------------------------------------------
\* The process ends: what was sent and not written down will be sent again.
Restart ==
  /\ faults < MaxFaults
  /\ faults' = faults + 1
  /\ call' = [e \in Events |-> IF call[e].pc = "new" THEN call[e] ELSE CallAt("over")]
  /\ processor' = Idle
  /\ admin' = [a \in Admins |-> {}]
  /\ excused' = excused
       \cup {d \in Underway : call[d[1]].pc = "persist"}
       \cup {row.id : row \in processor.cur}
  /\ UNCHANGED <<event, delivery, order, copies, twins, failures, retries>>

Next ==
  \/ \E e \in Events : StoreEvent(e)
  \/ \E e \in Events : Deduplicate(e)
  \/ \E e \in Events : UpdateEventStatus(e)
  \/ \E e \in Events : CreateDelivery(e)
  \/ \E e \in Events : CallSends(e)
  \/ \E e \in Events : CallPersists(e)
  \/ List
  \/ ProcessorSends
  \/ ProcessorPersists
  \/ \E d \in Deliveries : FallsDue(d)
  \/ \E a \in Admins, d \in Deliveries : ReadForRetry(a, d)
  \/ \E a \in Admins : ScheduleRetry(a)
  \/ Restart

Spec == Init /\ [][Next]_vars

\* The goroutines run and retry times pass; nothing else is owed.
FairSpec ==
  /\ Spec
  /\ \A e \in Events :
       /\ WF_vars(Deduplicate(e)) /\ WF_vars(UpdateEventStatus(e)) /\ WF_vars(CreateDelivery(e))
       /\ WF_vars(CallSends(e)) /\ WF_vars(CallPersists(e))
  /\ WF_vars(List) /\ WF_vars(ProcessorSends) /\ WF_vars(ProcessorPersists)
  /\ \A d \in Deliveries : WF_vars(FallsDue(d))

-----------------------------------------------------------------------------
(* Properties. *)

\* A message reaches its chat once unless there is a reason: an error for a message
\* that arrived, a status that could not be written, a restart between the two, a row
\* the processor listed while its result call was sending it, or a manual retry
\* that came too late.
DeliveredOnce == \A d \in Deliveries : copies[d] > 1 => d \in excused

\* A row says sent only of a message that has reached its chat.
SentIsDelivered ==
  \A d \in Deliveries : delivery[d].status = "sent" => copies[d] > 0

\* A delivery that will be tried again has an attempt left, through retries by hand
\* and through writes from copies that are out of date.
OpenHasAttempts ==
  \A d \in Deliveries :
    delivery[d].status \in {"pending", "retry_scheduled"} =>
      delivery[d].attempt < delivery[d].max \/ d \in excused

\* Every route of an accepted event has its delivery.
AcceptedIsCovered ==
  \A e \in Events : event[e] = "accepted" =>
    \A r \in Resolve(Alert[e]) : delivery[<<e, r>>].status # "absent"

\* An alert the rules route somewhere is suppressed only for another one with its key.
SuppressedForTwin ==
  \A e \in Events : event[e] = "suppressed" /\ Routed(Alert[e]) =>
    \E x \in twins[e] : x # e /\ Alert[x].key = Alert[e].key

\* Whatever fails or restarts, a stored delivery comes to be sent or given up.
DeliverySettles ==
  \A d \in Deliveries :
    delivery[d].status # "absent" ~> delivery[d].status \in {"sent", "dead_letter"}

\* "expected only first event to create delivery"
\* (server/internal/notification_evaluator_test.go:386): of events with one key that
\* the rules route somewhere, they are not all suppressed.
FirstIsDelivered ==
  \A e \in Events : Routed(Alert[e]) /\ event[e] = "suppressed" =>
    \E x \in Events : Alert[x].key = Alert[e].key /\ event[x] # "suppressed"
=============================================================================
