-------------------------- MODULE NotificationsProofs --------------------------
(***************************************************************************)
(* Theorems about Notifications, for every set of alerts, rules, routes    *)
(* and requests, and every bound on attempts and failures.                 *)
(***************************************************************************)
EXTENDS Notifications, TLAPS

-----------------------------------------------------------------------------
(* The inductive invariant. *)

\* What a result call holds at each of its stages.
CallControl ==
  \A e \in Events :
    /\ call[e].todo \subseteq Resolve(Alert[e])
    /\ call[e].pc \in {"send", "persist"} =>
         \E r \in Resolve(Alert[e]) \ call[e].todo : call[e].cur = {r}
    /\ call[e].pc \notin {"send", "persist"} => call[e].cur = {}
    /\ call[e].pc = "accept" => call[e].todo = {}

\* The routes of an alert have no delivery before their turn, and one after it.
Covered ==
  \A e \in Events : \A r \in Resolve(Alert[e]) :
    /\ call[e].pc \in {"new", "dedup"} \/ r \in call[e].todo =>
         delivery[<<e, r>>].status = "absent"
    /\ call[e].pc \in {"create", "send", "persist", "accept"} /\ r \notin call[e].todo =>
         delivery[<<e, r>>].status # "absent"
    /\ event[e] = "accepted" => delivery[<<e, r>>].status # "absent"

HasTwin(e) == \E x \in twins[e] : x # e /\ Alert[x].key = Alert[e].key

Duplicates ==
  \A e \in Events :
    /\ call[e].pc = "suppress" => (Routed(Alert[e]) => HasTwin(e))
    /\ event[e] = "suppressed" =>
         call[e].pc \notin {"new", "dedup"} /\ (Routed(Alert[e]) => HasTwin(e))

\* The rows the processor and the administrators hold.
CopiesControl ==
  /\ processor.pc = "persist" =>
       \E row \in processor.cur : processor.cur = {row} /\ row \notin processor.batch
  /\ processor.pc # "persist" => processor.cur = {}
  /\ \A x, y \in processor.batch \cup processor.cur : x.id = y.id => x = y
  /\ \A row \in processor.batch \cup processor.cur : delivery[row.id].status # "absent"
  /\ \A a \in Admins : \A row \in admin[a] :
       row.status = "dead_letter" /\ delivery[row.id].status # "absent"

CallHas(d) == d[2] \in call[d[1]].cur
CallSent(d) == CallHas(d) /\ call[d[1]].pc = "persist" /\ call[d[1]].result = "ok"
ProcessorSent(d) == processor.result = "ok" /\ \E row \in processor.cur : row.id = d

\* What is known to have been sent has arrived.
SentArrived ==
  \A d \in Deliveries :
    /\ delivery[d].status = "absent" => copies[d] = 0
    /\ delivery[d].status = "sent" \/ CallSent(d) \/ ProcessorSent(d) => copies[d] > 0

\* The history of a delivery without an excuse: the call and the processor never hold
\* it at once, what they hold is the row as it is, and only the one that has sent it
\* and not yet written that down knows more than the row.
Unexcused(d) ==
  /\ copies[d] <= 1
  /\ CallHas(d) =>
       /\ delivery[d].status = "pending" /\ delivery[d].attempt = 0
       /\ delivery[d].max = MaxAttempts
       /\ \A row \in processor.batch \cup processor.cur : row.id # d
  /\ \A row \in processor.batch \cup processor.cur : row.id = d =>
       /\ delivery[d].status \in {"pending", "retry_scheduled"}
       /\ row.attempt = delivery[d].attempt /\ row.max = delivery[d].max
  /\ delivery[d].status \in {"pending", "retry_scheduled"} =>
       delivery[d].attempt < delivery[d].max
  /\ copies[d] > 0 => delivery[d].status = "sent" \/ CallSent(d) \/ ProcessorSent(d)

NInv ==
  /\ TypeOK
  /\ CallControl
  /\ Covered
  /\ Duplicates
  /\ CopiesControl
  /\ SentArrived
  /\ \A d \in Deliveries \ excused : Unexcused(d)

-----------------------------------------------------------------------------
(* Lemmas. *)

\* A route the router resolves has an adapter.
LEMMA ResolveRoutes ==
  ASSUME NEW e \in Events
  PROVE  Resolve(Alert[e]) \subseteq Routes
  <1>1. Alert[e].destinations \subseteq Channels \X Targets
    BY NotificationAssumption DEF AlertType
  <1>. QED BY <1>1, NotificationAssumption DEF Resolve, Routes

\* A delivery is an event and one of its routes.
LEMMA DeliveryPairs ==
  /\ \A d \in Deliveries : /\ d = <<d[1], d[2]>>
                           /\ d[1] \in Events
                           /\ d[2] \in Resolve(Alert[d[1]])
  /\ \A e \in Events : \A r \in Resolve(Alert[e]) : <<e, r>> \in Deliveries
  BY ResolveRoutes DEF Deliveries

\* The provider's answer: who it is not about is not affected.
LEMMA MessageFacts ==
  ASSUME TypeOK, NEW d \in Deliveries, NEW result \in {"ok", "error"}, Message(d, result)
  PROVE  /\ copies' \in [Deliveries -> Nat] /\ excused' \subseteq Deliveries
         /\ excused \subseteq excused'
         /\ \A x \in Deliveries \ {d} : copies'[x] = copies[x] /\ (x \in excused' => x \in excused)
         /\ copies'[d] >= copies[d]
         /\ result = "ok" => copies'[d] = copies[d] + 1
         /\ result = "error" => copies'[d] = copies[d] \/ d \in excused'
         /\ failures' \in 0..MaxFailures /\ faults' \in 0..MaxFaults /\ retries' \in 0..MaxRetries
  <1>0. /\ copies \in [Deliveries -> Nat] /\ excused \subseteq Deliveries
        /\ failures \in 0..MaxFailures /\ faults \in 0..MaxFaults /\ retries \in 0..MaxRetries
        /\ MaxFailures \in Nat
    BY NotificationAssumption DEF TypeOK
  <1>1. CASE result = "ok"
    BY <1>0, <1>1 DEF Message, bounds
  <1>2. CASE result = "error"
    <2>1. /\ failures < MaxFailures /\ failures' = failures + 1
          /\ UNCHANGED <<faults, retries>>
          /\ \/ UNCHANGED <<copies, excused>>
             \/ copies' = [copies EXCEPT ![d] = @ + 1] /\ excused' = excused \cup {d}
      BY <1>2 DEF Message
    <2>2. failures' \in 0..MaxFailures
      BY <1>0, <2>1
    <2>3. CASE UNCHANGED <<copies, excused>>
      BY <1>0, <1>2, <2>1, <2>2, <2>3
    <2>4. CASE copies' = [copies EXCEPT ![d] = @ + 1] /\ excused' = excused \cup {d}
      BY <1>0, <1>2, <2>1, <2>2, <2>4
    <2>. QED BY <2>1, <2>3, <2>4
  <1>. QED BY <1>1, <1>2

\* The write of a new status, or its failure, which is an excuse.
LEMMA PersistFacts ==
  ASSUME TypeOK, NEW d \in Deliveries, NEW attempt \in Nat, NEW max \in Nat,
         NEW result \in Result, Persist(d, attempt, max, result)
  PROVE  /\ delivery' \in [Deliveries -> Delivery] /\ excused' \subseteq Deliveries
         /\ excused \subseteq excused'
         /\ \A x \in Deliveries \ {d} :
              delivery'[x] = delivery[x] /\ (x \in excused' => x \in excused)
         /\ \/ /\ delivery'[d].status = IF result = "ok" THEN "sent"
                                        ELSE IF attempt + 1 >= max THEN "dead_letter"
                                        ELSE "retry_scheduled"
               /\ delivery'[d].attempt = attempt + 1
               /\ delivery'[d].max = delivery[d].max
            \/ delivery'[d] = delivery[d] /\ d \in excused'
         /\ failures' \in 0..MaxFailures /\ faults' \in 0..MaxFaults /\ retries' \in 0..MaxRetries
  <1>. DEFINE new == NewStatus(attempt, max, result)
  <1>0. /\ delivery \in [Deliveries -> Delivery] /\ excused \subseteq Deliveries
        /\ failures \in 0..MaxFailures /\ faults \in 0..MaxFaults /\ retries \in 0..MaxRetries
        /\ MaxFaults \in Nat
    BY NotificationAssumption DEF TypeOK
  <1>1. /\ new.status = IF result = "ok" THEN "sent"
                        ELSE IF attempt + 1 >= max THEN "dead_letter" ELSE "retry_scheduled"
        /\ new.attempt = attempt + 1 /\ new.due = FALSE
        /\ new.status \in DeliveryStatus /\ new.attempt \in Nat /\ new.due \in BOOLEAN
    BY DEF NewStatus, DeliveryStatus
  <1>. HIDE DEF new
  <1>2. CASE /\ delivery' = [delivery EXCEPT ![d] =
                  [status |-> new.status, attempt |-> new.attempt, max |-> @.max,
                   due |-> new.due]]
             /\ UNCHANGED <<excused, bounds>>
    <2>2. delivery'[d] = [status |-> new.status, attempt |-> new.attempt,
                          max |-> delivery[d].max, due |-> new.due]
      BY <1>0, <1>2
    <2>3. delivery'[d] \in Delivery
      BY <1>0, <1>1, <2>2 DEF Delivery
    <2>4. /\ delivery' \in [Deliveries -> Delivery]
          /\ \A x \in Deliveries \ {d} : delivery'[x] = delivery[x]
      BY <1>0, <1>2, <2>3
    <2>. QED BY <1>0, <1>1, <1>2, <2>2, <2>4 DEF bounds
  <1>3. CASE QueryFails /\ excused' = excused \cup {d} /\ UNCHANGED delivery
    <2>1. faults' \in 0..MaxFaults /\ UNCHANGED <<failures, retries>>
      BY <1>0, <1>3 DEF QueryFails
    <2>. QED BY <1>0, <1>3, <2>1
  <1>. QED BY <1>2, <1>3 DEF Persist, UpdateNotificationDeliveryStatus, new

\* Only a call that has sent a delivery knows more of it than its row.
LEMMA OthersStay ==
  ASSUME NInv, UNCHANGED <<delivery, processor, admin, copies, excused>>,
         \A x \in Events : /\ call'[x].cur = call[x].cur
                           /\ call[x].cur # {} => call'[x] = call[x]
  PROVE  CopiesControl' /\ SentArrived' /\ \A d \in Deliveries \ excused' : Unexcused(d)'
  <1>1. CopiesControl'
    BY DEF NInv, CopiesControl
  <1>2. \A d \in Deliveries : /\ CallHas(d)' <=> CallHas(d)
                              /\ CallSent(d)' <=> CallSent(d)
                              /\ ProcessorSent(d)' <=> ProcessorSent(d)
    BY DeliveryPairs DEF CallHas, CallSent, ProcessorSent
  <1>3. SentArrived'
    BY <1>2 DEF NInv, SentArrived
  <1>4. \A d \in Deliveries \ excused' : Unexcused(d)'
    BY <1>2 DEF NInv, Unexcused
  <1>. QED BY <1>1, <1>3, <1>4

\* The invariant holds on an empty database.
LEMMA InitNInv == Init => NInv
  <1>. SUFFICES ASSUME Init PROVE NInv
    OBVIOUS
  <1>1. TypeOK
    <2>1. NoDelivery \in Delivery
      BY DEF NoDelivery, Delivery, DeliveryStatus
    <2>2. CallAt("new") \in Call
      BY DEF CallAt, Call, CallPC, Result
    <2>3. Idle \in Processor
      BY DEF Idle, Processor, Result
    <2>4. failures \in 0..MaxFailures /\ faults \in 0..MaxFaults /\ retries \in 0..MaxRetries
      BY NotificationAssumption DEF Init
    <2>5. /\ event \in [Events -> EventStatus] /\ delivery \in [Deliveries -> Delivery]
          /\ call \in [Events -> Call] /\ processor \in Processor
      BY <2>1, <2>2, <2>3 DEF Init, EventStatus
    <2>6. /\ order \in Seq(Deliveries) /\ admin \in [Admins -> SUBSET RowCopy]
          /\ copies \in [Deliveries -> Nat] /\ excused \subseteq Deliveries
          /\ twins \in [Events -> SUBSET Events]
      BY DEF Init
    <2>. QED BY <2>4, <2>5, <2>6 DEF TypeOK
  <1>2. \A e \in Events : call[e] = CallAt("new") /\ event[e] = "absent"
    BY DEF Init
  <1>3. \A d \in Deliveries : delivery[d] = NoDelivery /\ copies[d] = 0
    BY DEF Init
  <1>4. processor = Idle /\ \A a \in Admins : admin[a] = {}
    BY DEF Init
  <1>5. CallControl /\ Duplicates
    BY <1>2 DEF CallControl, Duplicates, CallAt
  <1>6. Covered
    <2>. SUFFICES ASSUME NEW e \in Events, NEW r \in Resolve(Alert[e])
                  PROVE  /\ delivery[<<e, r>>].status = "absent"
                         /\ call[e].pc = "new" /\ event[e] # "accepted"
      BY DEF Covered
    <2>1. <<e, r>> \in Deliveries
      BY DeliveryPairs
    <2>. QED BY <1>2, <1>3, <2>1 DEF CallAt, NoDelivery
  <1>7. CopiesControl
    BY <1>4 DEF CopiesControl, Idle
  <1>8. \A d \in Deliveries : ~ CallHas(d) /\ ~ CallSent(d) /\ ~ ProcessorSent(d)
    BY <1>2, <1>4, DeliveryPairs DEF CallHas, CallSent, ProcessorSent, CallAt, Idle
  <1>9. SentArrived
    BY <1>3, <1>8 DEF SentArrived, NoDelivery
  <1>10. \A d \in Deliveries \ excused : Unexcused(d)
    BY <1>3, <1>4, <1>8 DEF Unexcused, NoDelivery, Idle
  <1>. QED BY <1>1, <1>5, <1>6, <1>7, <1>9, <1>10 DEF NInv

\* A failed query uses up one of the faults and nothing else.
LEMMA QueryFailsTypes ==
  ASSUME TypeOK, QueryFails
  PROVE  failures' \in 0..MaxFailures /\ faults' \in 0..MaxFaults /\ retries' \in 0..MaxRetries
  <1>1. faults \in 0..MaxFaults /\ MaxFaults \in Nat /\ faults < MaxFaults /\ faults' = faults + 1
    BY NotificationAssumption DEF TypeOK, QueryFails
  <1>2. faults' \in 0..MaxFaults
    BY <1>1
  <1>. QED BY <1>2 DEF TypeOK, QueryFails

\* Storing an event keeps the invariant.
LEMMA StoreEventKeeps ==
  ASSUME NInv, NEW e \in Events, StoreEvent(e)
  PROVE  NInv'
  <1>0. /\ TypeOK /\ event \in [Events -> EventStatus] /\ call \in [Events -> Call]
        /\ call[e].pc = "new"
        /\ UNCHANGED <<delivery, order, processor, admin, copies, excused, twins>>
    BY DEF NInv, TypeOK, StoreEvent
  <1>1. PICK pc \in {"dedup", "over"} :
          /\ call' = [call EXCEPT ![e] = CallAt(pc)]
          /\ event' = IF pc = "dedup" THEN [event EXCEPT ![e] = "detected"] ELSE event
    BY DEF StoreEvent
  <1>2. /\ failures' \in 0..MaxFailures /\ faults' \in 0..MaxFaults
        /\ retries' \in 0..MaxRetries
    BY <1>0, QueryFailsTypes DEF StoreEvent, bounds, TypeOK
  <1>3. /\ event' \in [Events -> EventStatus] /\ call' \in [Events -> Call]
        /\ call'[e] = CallAt(pc) /\ (pc = "dedup" => event'[e] = "detected")
        /\ pc = "over" => event'[e] = event[e]
        /\ \A x \in Events \ {e} : call'[x] = call[x] /\ event'[x] = event[x]
    BY <1>0, <1>1 DEF EventStatus, CallAt, Call, CallPC, Result
  <1>4. TypeOK'
    BY <1>0, <1>2, <1>3 DEF TypeOK
  <1>5. call[e].cur = {} /\ event[e] # "suppressed"
    BY <1>0 DEF NInv, CallControl, Duplicates
  <1>6. CallControl'
    BY <1>3 DEF NInv, CallControl, CallAt
  <1>7. Covered'
    <2>. SUFFICES ASSUME NEW x \in Events, NEW r \in Resolve(Alert[x])
                  PROVE  /\ call'[x].pc \in {"new", "dedup"} \/ r \in call'[x].todo =>
                              delivery[<<x, r>>].status = "absent"
                         /\ call'[x].pc \in {"create", "send", "persist", "accept"}
                              /\ r \notin call'[x].todo => delivery[<<x, r>>].status # "absent"
                         /\ event'[x] = "accepted" => delivery[<<x, r>>].status # "absent"
      BY <1>0 DEF Covered
    <2>. QED BY <1>0, <1>3 DEF NInv, Covered, CallAt
  <1>8. Duplicates'
    BY <1>0, <1>3, <1>5 DEF NInv, Duplicates, HasTwin, CallAt
  <1>9. \A x \in Events : /\ call'[x].cur = call[x].cur
                          /\ call[x].cur # {} => call'[x] = call[x]
    BY <1>3, <1>5 DEF CallAt
  <1>. QED BY <1>0, <1>4, <1>6, <1>7, <1>8, <1>9, OthersStay DEF NInv

\* What the rules decide is a stage of the call.
LEMMA DecisionFacts ==
  ASSUME NEW e \in Events
  PROVE  /\ Decision(e) \in Call
         /\ Decision(e).pc \in {"suppress", "reject", "create"}
         /\ Decision(e).cur = {}
         /\ Decision(e).todo = IF Decision(e).pc = "create" THEN Resolve(Alert[e]) ELSE {}
         /\ Decision(e).pc = "suppress" => ~ Routed(Alert[e])
  <1>. DEFINE creates == [CallAt("create") EXCEPT !.todo = Resolve(Alert[e])]
  <1>1. /\ creates \in Call /\ creates.pc = "create" /\ creates.cur = {}
        /\ creates.todo = Resolve(Alert[e])
    BY ResolveRoutes DEF CallAt, Call, CallPC, Result
  <1>2. \A pc \in {"suppress", "reject"} :
          /\ CallAt(pc) \in Call /\ CallAt(pc).pc = pc
          /\ CallAt(pc).cur = {} /\ CallAt(pc).todo = {}
    BY DEF CallAt, Call, CallPC, Result
  <1>3. CASE ~ Routed(Alert[e])
    BY <1>2, <1>3 DEF Decision
  <1>4. CASE Routed(Alert[e]) /\ Resolve(Alert[e]) = {}
    BY <1>2, <1>4 DEF Decision
  <1>5. CASE Routed(Alert[e]) /\ Resolve(Alert[e]) # {}
    <2>1. Decision(e) = creates
      BY <1>5 DEF Decision
    <2>. HIDE DEF creates
    <2>. QED BY <1>1, <2>1
  <1>. QED BY <1>3, <1>4, <1>5

\* Deciding on an event keeps the invariant.
LEMMA DeduplicateKeeps ==
  ASSUME NInv, NEW e \in Events, Deduplicate(e)
  PROVE  NInv'
  <1>0. /\ TypeOK /\ call \in [Events -> Call] /\ twins \in [Events -> SUBSET Events]
        /\ call[e].pc = "dedup"
        /\ UNCHANGED <<event, delivery, order, processor, admin, copies, excused>>
    BY DEF NInv, TypeOK, Deduplicate
  <1>1. PICK new : /\ call' = [call EXCEPT ![e] = new]
                   /\ \/ new = Decision(e)
                      \/ new = CallAt("suppress") /\ HasTwin(e)'
                   /\ twins' \in [Events -> SUBSET Events]
                   /\ \A x \in Events \ {e} : twins'[x] = twins[x]
    <2>1. CASE \E recent \in SUBSET Found(e) :
                 /\ call' = [call EXCEPT ![e] =
                      IF recent # {} THEN CallAt("suppress") ELSE Decision(e)]
                 /\ twins' = [twins EXCEPT ![e] = recent]
      <3>1. PICK recent \in SUBSET Found(e) :
                 /\ call' = [call EXCEPT ![e] =
                      IF recent # {} THEN CallAt("suppress") ELSE Decision(e)]
                 /\ twins' = [twins EXCEPT ![e] = recent]
        BY <2>1
      <3>2. /\ twins' \in [Events -> SUBSET Events] /\ twins'[e] = recent
            /\ \A x \in Events \ {e} : twins'[x] = twins[x]
        BY <1>0, <3>1 DEF Found
      <3>3. CASE recent # {}
        <4>1. HasTwin(e)'
          BY <3>2, <3>3 DEF Found, HasTwin
        <4>. QED BY <3>1, <3>2, <3>3, <4>1
      <3>4. CASE recent = {}
        BY <3>1, <3>2, <3>4
      <3>. QED BY <3>3, <3>4
    <2>2. CASE call' = [call EXCEPT ![e] = Decision(e)] /\ UNCHANGED twins
      BY <1>0, <2>2
    <2>. QED BY <2>1, <2>2 DEF Deduplicate
  <1>2. /\ failures' \in 0..MaxFailures /\ faults' \in 0..MaxFaults
        /\ retries' \in 0..MaxRetries
    BY <1>0, QueryFailsTypes DEF Deduplicate, bounds, TypeOK
  <1>3. /\ new \in Call /\ new.pc \in {"suppress", "reject", "create"} /\ new.cur = {}
        /\ new.todo = IF new.pc = "create" THEN Resolve(Alert[e]) ELSE {}
        /\ new.pc = "suppress" => (Routed(Alert[e]) => HasTwin(e)')
    <2>1. CASE new = Decision(e)
      BY <2>1, DecisionFacts
    <2>2. CASE new = CallAt("suppress") /\ HasTwin(e)'
      BY <2>2 DEF CallAt, Call, CallPC, Result
    <2>. QED BY <1>1, <2>1, <2>2
  <1>4. /\ call' \in [Events -> Call] /\ call'[e] = new
        /\ \A x \in Events \ {e} : call'[x] = call[x]
    BY <1>0, <1>1, <1>3
  <1>5. TypeOK'
    BY <1>0, <1>1, <1>2, <1>4 DEF TypeOK
  <1>6. call[e].cur = {} /\ event[e] # "suppressed"
    BY <1>0 DEF NInv, CallControl, Duplicates
  <1>7. CallControl'
    BY <1>3, <1>4 DEF NInv, CallControl
  <1>8. Covered'
    <2>. SUFFICES ASSUME NEW x \in Events, NEW r \in Resolve(Alert[x])
                  PROVE  /\ call'[x].pc \in {"new", "dedup"} \/ r \in call'[x].todo =>
                              delivery[<<x, r>>].status = "absent"
                         /\ call'[x].pc \in {"create", "send", "persist", "accept"}
                              /\ r \notin call'[x].todo => delivery[<<x, r>>].status # "absent"
                         /\ event[x] = "accepted" => delivery[<<x, r>>].status # "absent"
      BY <1>0 DEF Covered
    <2>1. CASE x = e
      BY <1>0, <1>3, <1>4, <2>1 DEF NInv, Covered
    <2>2. CASE x # e
      BY <1>4, <2>2 DEF NInv, Covered
    <2>. QED BY <2>1, <2>2
  <1>9. Duplicates'
    <2>1. \A x \in Events \ {e} : HasTwin(x)' <=> HasTwin(x)
      BY <1>1 DEF HasTwin
    <2>. QED BY <1>0, <1>3, <1>4, <1>6, <2>1 DEF NInv, Duplicates
  <1>10. \A x \in Events : /\ call'[x].cur = call[x].cur
                           /\ call[x].cur # {} => call'[x] = call[x]
    BY <1>3, <1>4, <1>6
  <1>. QED BY <1>0, <1>5, <1>7, <1>8, <1>9, <1>10, OthersStay DEF NInv

\* The last update of an event keeps the invariant.
LEMMA UpdateEventStatusKeeps ==
  ASSUME NInv, NEW e \in Events, UpdateEventStatus(e)
  PROVE  NInv'
  <1>0. /\ TypeOK /\ call \in [Events -> Call] /\ event \in [Events -> EventStatus]
        /\ call[e].pc \in {"suppress", "reject", "accept"}
        /\ call' = [call EXCEPT ![e] = CallAt("over")]
        /\ UNCHANGED <<delivery, order, processor, admin, copies, excused, twins>>
    BY DEF NInv, TypeOK, UpdateEventStatus
  <1>1. /\ event' \in [Events -> EventStatus]
        /\ \A x \in Events \ {e} : event'[x] = event[x]
        /\ \/ event'[e] = event[e]
           \/ call[e].pc = "suppress" /\ event'[e] = "suppressed"
           \/ call[e].pc = "reject" /\ event'[e] = "rejected"
           \/ call[e].pc = "accept" /\ event'[e] = "accepted"
    BY <1>0 DEF UpdateEventStatus, UpdateNotificationEventStatus, EventStatus
  <1>2. /\ failures' \in 0..MaxFailures /\ faults' \in 0..MaxFaults
        /\ retries' \in 0..MaxRetries
    BY <1>0, QueryFailsTypes DEF UpdateEventStatus, bounds, TypeOK
  <1>3. /\ call' \in [Events -> Call] /\ call'[e] = CallAt("over")
        /\ \A x \in Events \ {e} : call'[x] = call[x]
    BY <1>0 DEF CallAt, Call, CallPC, Result
  <1>4. TypeOK'
    BY <1>0, <1>1, <1>2, <1>3 DEF TypeOK
  <1>5. call[e].cur = {}
    BY <1>0 DEF NInv, CallControl
  <1>6. CallControl'
    BY <1>3 DEF NInv, CallControl, CallAt
  <1>7. Covered'
    <2>. SUFFICES ASSUME NEW x \in Events, NEW r \in Resolve(Alert[x])
                  PROVE  /\ call'[x].pc \in {"new", "dedup"} \/ r \in call'[x].todo =>
                              delivery[<<x, r>>].status = "absent"
                         /\ call'[x].pc \in {"create", "send", "persist", "accept"}
                              /\ r \notin call'[x].todo => delivery[<<x, r>>].status # "absent"
                         /\ event'[x] = "accepted" => delivery[<<x, r>>].status # "absent"
      BY <1>0 DEF Covered
    <2>1. CASE x = e
      BY <1>1, <1>3, <2>1 DEF NInv, Covered, CallControl, CallAt
    <2>2. CASE x # e
      BY <1>1, <1>3, <2>2 DEF NInv, Covered
    <2>. QED BY <2>1, <2>2
  <1>8. Duplicates'
    BY <1>0, <1>1, <1>3 DEF NInv, Duplicates, HasTwin, CallAt
  <1>9. \A x \in Events : /\ call'[x].cur = call[x].cur
                          /\ call[x].cur # {} => call'[x] = call[x]
    BY <1>3, <1>5 DEF CallAt
  <1>. QED BY <1>0, <1>4, <1>6, <1>7, <1>8, <1>9, OthersStay DEF NInv

\* Creating a delivery keeps the invariant.
LEMMA CreateDeliveryKeeps ==
  ASSUME NInv, NEW e \in Events, CreateDelivery(e)
  PROVE  NInv'
  <1>0. /\ TypeOK /\ call \in [Events -> Call] /\ delivery \in [Deliveries -> Delivery]
        /\ order \in Seq(Deliveries)
        /\ call[e].pc = "create" /\ call[e].cur = {} /\ MaxAttempts \in Nat \ {0}
        /\ UNCHANGED <<event, processor, admin, copies, excused, twins>>
    BY NotificationAssumption DEF NInv, TypeOK, CreateDelivery, CallControl
  <1>1. /\ failures' \in 0..MaxFailures /\ faults' \in 0..MaxFaults
        /\ retries' \in 0..MaxRetries
    BY <1>0, QueryFailsTypes DEF CreateDelivery, bounds, TypeOK
  <1>2. CASE call' = [call EXCEPT ![e] = CallAt("reject")] /\ UNCHANGED <<delivery, order>>
    <2>1. /\ call' \in [Events -> Call] /\ call'[e] = CallAt("reject")
          /\ \A x \in Events \ {e} : call'[x] = call[x]
      BY <1>0, <1>2 DEF CallAt, Call, CallPC, Result
    <2>2. TypeOK'
      BY <1>0, <1>1, <1>2, <2>1 DEF TypeOK
    <2>3. CallControl'
      BY <2>1 DEF NInv, CallControl, CallAt
    <2>4. Covered'
      BY <1>0, <1>2, <2>1 DEF NInv, Covered, CallAt
    <2>5. Duplicates'
      BY <1>0, <2>1 DEF NInv, Duplicates, HasTwin, CallAt
    <2>6. \A x \in Events : /\ call'[x].cur = call[x].cur
                            /\ call[x].cur # {} => call'[x] = call[x]
      <3>1. call'[e].cur = {}
        BY <2>1 DEF CallAt
      <3>. QED BY <1>0, <2>1, <3>1
    <2>. QED BY <1>0, <1>2, <2>2, <2>3, <2>4, <2>5, <2>6, OthersStay DEF NInv
  <1>3. CASE \E r \in First(call[e].todo) :
               /\ delivery' = [delivery EXCEPT ![<<e, r>>] =
                    [status |-> "pending", attempt |-> 0, max |-> MaxAttempts, due |-> TRUE]]
               /\ order' = Append(order, <<e, r>>)
               /\ call' = [call EXCEPT ![e] =
                    [pc |-> "send", todo |-> @.todo \ {r}, cur |-> {r}, result |-> "none"]]
    <2>1. PICK r \in First(call[e].todo) :
               /\ delivery' = [delivery EXCEPT ![<<e, r>>] =
                    [status |-> "pending", attempt |-> 0, max |-> MaxAttempts, due |-> TRUE]]
               /\ order' = Append(order, <<e, r>>)
               /\ call' = [call EXCEPT ![e] =
                    [pc |-> "send", todo |-> @.todo \ {r}, cur |-> {r}, result |-> "none"]]
      BY <1>3
    <2>. DEFINE d == <<e, r>>
    <2>2. r \in call[e].todo
      BY <2>1 DEF First
    <2>3. r \in Resolve(Alert[e]) /\ d \in Deliveries /\ r \in Routes
      BY <2>2, DeliveryPairs, ResolveRoutes DEF NInv, CallControl
    <2>4. /\ delivery' \in [Deliveries -> Delivery]
          /\ delivery'[d] = [status |-> "pending", attempt |-> 0, max |-> MaxAttempts, due |-> TRUE]
          /\ \A x \in Deliveries \ {d} : delivery'[x] = delivery[x]
      BY <1>0, <2>1, <2>3 DEF Delivery, DeliveryStatus
    <2>5. /\ call' \in [Events -> Call]
          /\ call'[e] = [pc |-> "send", todo |-> call[e].todo \ {r}, cur |-> {r},
                         result |-> "none"]
          /\ \A x \in Events \ {e} : call'[x] = call[x]
      BY <1>0, <2>1, <2>3 DEF Call, CallPC, Result
    <2>6. order' \in Seq(Deliveries)
      BY <1>0, <2>1, <2>3
    <2>7. TypeOK'
      BY <1>0, <1>1, <2>4, <2>5, <2>6 DEF TypeOK
    <2>8. CallControl'
      BY <2>3, <2>5 DEF NInv, CallControl
    <2>9. Covered'
      <3>. SUFFICES ASSUME NEW x \in Events, NEW q \in Resolve(Alert[x])
                    PROVE  /\ call'[x].pc \in {"new", "dedup"} \/ q \in call'[x].todo =>
                                delivery'[<<x, q>>].status = "absent"
                           /\ call'[x].pc \in {"create", "send", "persist", "accept"}
                                /\ q \notin call'[x].todo => delivery'[<<x, q>>].status # "absent"
                           /\ event[x] = "accepted" => delivery'[<<x, q>>].status # "absent"
        BY <1>0 DEF Covered
      <3>1. <<x, q>> \in Deliveries
        BY DeliveryPairs
      <3>2. CASE x = e /\ q = r
        BY <2>4, <2>5, <3>2
      <3>3. CASE x = e /\ q # r
        <4>1. delivery'[<<x, q>>] = delivery[<<x, q>>]
          BY <2>4, <3>1, <3>3
        <4>. QED BY <1>0, <2>5, <3>3, <4>1 DEF NInv, Covered
      <3>4. CASE x # e
        <4>1. delivery'[<<x, q>>] = delivery[<<x, q>>]
          BY <2>4, <3>1, <3>4
        <4>. QED BY <2>5, <3>4, <4>1 DEF NInv, Covered
      <3>. QED BY <3>2, <3>3, <3>4
    <2>10. Duplicates'
      BY <1>0, <2>5 DEF NInv, Duplicates, HasTwin
    <2>11. delivery[d].status = "absent" /\ copies[d] = 0
      BY <2>2, <2>3 DEF NInv, Covered, SentArrived
    <2>12. \A row \in processor.batch \cup processor.cur : row.id # d
      BY <2>11 DEF NInv, CopiesControl
    <2>13. /\ CallHas(d)' /\ ~ CallSent(d)' /\ (ProcessorSent(d)' <=> ProcessorSent(d))
           /\ ~ ProcessorSent(d)
      BY <1>0, <2>5, <2>12 DEF CallHas, CallSent, ProcessorSent
    <2>14. \A x \in Deliveries \ {d} : /\ CallHas(x)' <=> CallHas(x)
                                       /\ CallSent(x)' <=> CallSent(x)
                                       /\ ProcessorSent(x)' <=> ProcessorSent(x)
      <3>. SUFFICES ASSUME NEW x \in Deliveries \ {d}
                    PROVE  /\ CallHas(x)' <=> CallHas(x)
                           /\ CallSent(x)' <=> CallSent(x)
                           /\ ProcessorSent(x)' <=> ProcessorSent(x)
        OBVIOUS
      <3>0. x = <<x[1], x[2]>> /\ x[1] \in Events
        BY DeliveryPairs
      <3>1. CASE x[1] = e
        <4>1. x[2] # r
          BY <3>0, <3>1
        <4>. QED BY <1>0, <2>5, <3>1, <4>1 DEF CallHas, CallSent, ProcessorSent
      <3>2. CASE x[1] # e
        BY <1>0, <2>5, <3>0, <3>2 DEF CallHas, CallSent, ProcessorSent
      <3>. QED BY <3>1, <3>2
    <2>. HIDE DEF d
    <2>15. CopiesControl'
      <3>1. \A x \in Deliveries : delivery[x].status # "absent" => delivery'[x].status # "absent"
        BY <2>4
      <3>2. /\ \A row \in processor.batch \cup processor.cur : row.id \in Deliveries
            /\ \A a \in Admins : \A row \in admin[a] : row.id \in Deliveries
        BY DEF NInv, TypeOK, Processor, RowCopy
      <3>. QED BY <1>0, <3>1, <3>2 DEF NInv, CopiesControl
    <2>16. SentArrived'
      <3>. SUFFICES ASSUME NEW x \in Deliveries
                    PROVE  /\ delivery'[x].status = "absent" => copies[x] = 0
                           /\ delivery'[x].status = "sent" \/ CallSent(x)' \/ ProcessorSent(x)'
                                => copies[x] > 0
        BY <1>0 DEF SentArrived
      <3>1. CASE x = d
        BY <2>4, <2>11, <2>13, <3>1
      <3>2. CASE x # d
        BY <2>4, <2>14, <3>2 DEF NInv, SentArrived
      <3>. QED BY <3>1, <3>2
    <2>17. \A x \in Deliveries \ excused' : Unexcused(x)'
      <3>. SUFFICES ASSUME NEW x \in Deliveries, x \notin excused
                    PROVE  Unexcused(x)'
        BY <1>0
      <3>1. CASE x = d
        BY <1>0, <2>4, <2>11, <2>12, <2>13, <3>1 DEF Unexcused
      <3>2. CASE x # d
        BY <1>0, <2>4, <2>14, <3>2 DEF NInv, Unexcused
      <3>. QED BY <3>1, <3>2
    <2>. QED BY <2>7, <2>8, <2>9, <2>10, <2>15, <2>16, <2>17 DEF NInv
  <1>. QED BY <1>2, <1>3 DEF CreateDelivery, CreateNotificationDelivery

-----------------------------------------------------------------------------
(* Sends and writes. *)

\* A step that leaves the calls' stages, the events and the existence of rows alone
\* keeps what is known of coverage and duplicates.
LEMMA CoverageStays ==
  ASSUME NInv, UNCHANGED <<event, twins>>,
         \A x \in Events : /\ call'[x].todo = call[x].todo
                           /\ call'[x].pc = call[x].pc \/ (call[x].pc = "send" /\ call'[x].pc = "persist"),
         \A x \in Deliveries : delivery'[x].status = "absent" <=> delivery[x].status = "absent"
  PROVE  Covered' /\ Duplicates'
  <1>1. Covered'
    <2>. SUFFICES ASSUME NEW x \in Events, NEW r \in Resolve(Alert[x])
                  PROVE  /\ call'[x].pc \in {"new", "dedup"} \/ r \in call'[x].todo =>
                              delivery'[<<x, r>>].status = "absent"
                         /\ call'[x].pc \in {"create", "send", "persist", "accept"}
                              /\ r \notin call'[x].todo => delivery'[<<x, r>>].status # "absent"
                         /\ event[x] = "accepted" => delivery'[<<x, r>>].status # "absent"
      BY DEF Covered
    <2>1. <<x, r>> \in Deliveries
      BY DeliveryPairs
    <2>. QED BY <2>1 DEF NInv, Covered
  <1>2. Duplicates'
    BY DEF NInv, Duplicates, HasTwin
  <1>. QED BY <1>1, <1>2

\* What a call is sending is one of its deliveries, and is there.
LEMMA CurFacts ==
  ASSUME NInv, NEW e \in Events, NEW r \in call[e].cur
  PROVE  /\ <<e, r>> \in Deliveries /\ r \in Resolve(Alert[e])
         /\ call[e].pc \in {"send", "persist"}
         /\ call[e].cur = {r} /\ r \notin call[e].todo
         /\ delivery[<<e, r>>].status # "absent"
         /\ CallHas(<<e, r>>)
  <1>1. call[e].pc \in {"send", "persist"}
    BY DEF NInv, CallControl
  <1>2. r \in Resolve(Alert[e]) \ call[e].todo /\ call[e].cur = {r}
    BY <1>1 DEF NInv, CallControl
  <1>3. delivery[<<e, r>>].status # "absent"
    BY <1>1, <1>2 DEF NInv, Covered
  <1>. QED BY <1>1, <1>2, <1>3, DeliveryPairs DEF CallHas

\* A change of one call leaves the deliveries of the others as they are.
LEMMA OtherDeliveries ==
  ASSUME NInv, NEW e \in Events, NEW r \in call[e].cur, UNCHANGED processor,
         \A x \in Events \ {e} : call'[x] = call[x],
         call'[e].cur \subseteq {r}
  PROVE  \A x \in Deliveries \ {<<e, r>>} : /\ CallHas(x)' <=> CallHas(x)
                                            /\ CallSent(x)' <=> CallSent(x)
                                            /\ ProcessorSent(x)' <=> ProcessorSent(x)
  <1>. SUFFICES ASSUME NEW x \in Deliveries \ {<<e, r>>}
                PROVE  /\ CallHas(x)' <=> CallHas(x)
                       /\ CallSent(x)' <=> CallSent(x)
                       /\ ProcessorSent(x)' <=> ProcessorSent(x)
    OBVIOUS
  <1>0. x = <<x[1], x[2]>> /\ x[1] \in Events
    BY DeliveryPairs
  <1>1. CASE x[1] = e
    <2>1. x[2] # r /\ call[e].cur = {r}
      BY <1>0, <1>1, CurFacts
    <2>. QED BY <1>1, <2>1 DEF CallHas, CallSent, ProcessorSent
  <1>2. CASE x[1] # e
    BY <1>0, <1>2 DEF CallHas, CallSent, ProcessorSent
  <1>. QED BY <1>1, <1>2

\* A row that stays in place keeps what is known of those who hold a copy of it.
LEMMA CopiesControlStays ==
  ASSUME NInv, UNCHANGED <<processor, admin>>,
         \A x \in Deliveries : delivery[x].status # "absent" => delivery'[x].status # "absent"
  PROVE  CopiesControl'
  <1>1. /\ \A row \in processor.batch \cup processor.cur : row.id \in Deliveries
        /\ \A a \in Admins : \A row \in admin[a] : row.id \in Deliveries
    BY DEF NInv, TypeOK, Processor, RowCopy
  <1>. QED BY <1>1 DEF NInv, CopiesControl

\* A send by a result call keeps the invariant.
LEMMA CallSendsKeeps ==
  ASSUME NInv, NEW e \in Events, CallSends(e)
  PROVE  NInv'
  <1>0. /\ TypeOK /\ call \in [Events -> Call] /\ copies \in [Deliveries -> Nat]
        /\ call[e].pc = "send"
        /\ UNCHANGED <<event, delivery, order, processor, admin, twins>>
    BY DEF NInv, TypeOK, CallSends
  <1>1. PICK r \in call[e].cur, result \in {"ok", "error"} :
          /\ Message(<<e, r>>, result)
          /\ call' = [call EXCEPT ![e] =
               [pc |-> "persist", todo |-> @.todo, cur |-> {r}, result |-> result]]
    BY DEF CallSends
  <1>. DEFINE d == <<e, r>>
  <1>2. /\ d \in Deliveries /\ r \in Resolve(Alert[e]) /\ call[e].cur = {r}
        /\ r \notin call[e].todo /\ delivery[d].status # "absent" /\ CallHas(d)
    BY CurFacts
  <1>3. /\ call' \in [Events -> Call]
        /\ call'[e] = [pc |-> "persist", todo |-> call[e].todo, cur |-> {r}, result |-> result]
        /\ \A x \in Events \ {e} : call'[x] = call[x]
    <2>1. call[e] \in Call
      BY <1>0
    <2>2. [pc |-> "persist", todo |-> call[e].todo, cur |-> {r}, result |-> result] \in Call
      BY <1>2, <2>1, ResolveRoutes DEF Call, CallPC, Result
    <2>. QED BY <1>0, <1>1, <2>2
  <1>4. \A x \in Deliveries \ {d} : /\ CallHas(x)' <=> CallHas(x)
                                    /\ CallSent(x)' <=> CallSent(x)
                                    /\ ProcessorSent(x)' <=> ProcessorSent(x)
    BY <1>0, <1>3, OtherDeliveries
  <1>5. /\ CallHas(d)' /\ (CallSent(d)' <=> result = "ok")
        /\ ProcessorSent(d)' <=> ProcessorSent(d)
        /\ ~ CallSent(d)
    BY <1>0, <1>3 DEF CallHas, CallSent, ProcessorSent
  <1>. HIDE DEF d
  <1>6. /\ copies' \in [Deliveries -> Nat] /\ excused' \subseteq Deliveries
        /\ excused \subseteq excused'
        /\ \A x \in Deliveries \ {d} : copies'[x] = copies[x] /\ (x \in excused' => x \in excused)
        /\ copies'[d] >= copies[d]
        /\ result = "ok" => copies'[d] = copies[d] + 1
        /\ result = "error" => copies'[d] = copies[d] \/ d \in excused'
        /\ failures' \in 0..MaxFailures /\ faults' \in 0..MaxFaults /\ retries' \in 0..MaxRetries
    BY <1>0, <1>1, <1>2, MessageFacts DEF d
  <1>7. TypeOK'
    BY <1>0, <1>3, <1>6 DEF TypeOK
  <1>8. CallControl'
    BY <1>2, <1>3 DEF NInv, CallControl
  <1>9. Covered' /\ Duplicates'
    BY <1>0, <1>3, CoverageStays
  <1>10. CopiesControl'
    BY <1>0, CopiesControlStays
  <1>11. SentArrived'
    <2>. SUFFICES ASSUME NEW x \in Deliveries
                  PROVE  /\ delivery[x].status = "absent" => copies'[x] = 0
                         /\ delivery[x].status = "sent" \/ CallSent(x)' \/ ProcessorSent(x)'
                              => copies'[x] > 0
      BY <1>0 DEF SentArrived
    <2>1. /\ copies[x] \in Nat /\ copies'[x] \in Nat
          /\ delivery[x].status = "absent" => copies[x] = 0
          /\ delivery[x].status = "sent" \/ CallSent(x) \/ ProcessorSent(x) => copies[x] > 0
      BY <1>0, <1>6 DEF NInv, SentArrived
    <2>2. CASE x = d
      BY <1>2, <1>5, <1>6, <2>1, <2>2
    <2>3. CASE x # d
      BY <1>4, <1>6, <2>1, <2>3
    <2>. QED BY <2>2, <2>3
  <1>12. \A x \in Deliveries \ excused' : Unexcused(x)'
    <2>. SUFFICES ASSUME NEW x \in Deliveries, x \notin excused'
                  PROVE  Unexcused(x)'
      OBVIOUS
    <2>1. Unexcused(x)
      BY <1>6 DEF NInv
    <2>2. CASE x = d
      <3>1. /\ delivery[d].status = "pending"
            /\ \A row \in processor.batch \cup processor.cur : row.id # d
        BY <1>2, <2>1, <2>2 DEF Unexcused
      <3>2. copies[d] = 0
        BY <1>0, <1>2, <1>5, <2>1, <2>2, <3>1 DEF Unexcused, ProcessorSent
      <3>3. copies'[d] <= 1 /\ (copies'[d] > 0 => result = "ok")
        BY <1>6, <2>2, <3>2
      <3>4. \A row \in processor'.batch \cup processor'.cur : row.id # d
        BY <1>0, <3>1
      <3>5. /\ delivery'[d].status = "pending" /\ delivery'[d].attempt = 0
            /\ delivery'[d].max = MaxAttempts /\ delivery'[d].attempt < delivery'[d].max
        BY <1>0, <1>2, <2>1, <2>2, <3>1 DEF Unexcused
      <3>6. copies'[d] > 0 => CallSent(d)'
        BY <1>5, <3>3
      <3>. QED BY <2>2, <3>3, <3>4, <3>5, <3>6 DEF Unexcused
    <2>3. CASE x # d
      BY <1>0, <1>4, <1>6, <2>1, <2>3 DEF Unexcused
    <2>. QED BY <2>2, <2>3
  <1>. QED BY <1>7, <1>8, <1>9, <1>10, <1>11, <1>12 DEF NInv

\* The write that follows it keeps the invariant.
LEMMA CallPersistsKeeps ==
  ASSUME NInv, NEW e \in Events, CallPersists(e)
  PROVE  NInv'
  <1>0. /\ TypeOK /\ call \in [Events -> Call] /\ delivery \in [Deliveries -> Delivery]
        /\ call[e].pc = "persist" /\ call[e] \in Call /\ MaxAttempts \in Nat \ {0}
        /\ UNCHANGED <<event, order, processor, admin, copies, twins>>
    BY NotificationAssumption DEF NInv, TypeOK, CallPersists
  <1>1. PICK r \in call[e].cur : Persist(<<e, r>>, 0, MaxAttempts, call[e].result)
    BY DEF CallPersists
  <1>. DEFINE d == <<e, r>>
  <1>2. /\ d \in Deliveries /\ r \in Resolve(Alert[e]) /\ call[e].cur = {r}
        /\ r \notin call[e].todo /\ delivery[d].status # "absent" /\ CallHas(d)
    BY CurFacts
  <1>3. /\ call' \in [Events -> Call]
        /\ call'[e].todo = call[e].todo /\ call'[e].cur = {}
        /\ call'[e].pc = IF call[e].todo = {} THEN "accept" ELSE "create"
        /\ \A x \in Events \ {e} : call'[x] = call[x]
    <2>. DEFINE new == IF call[e].todo = {} THEN CallAt("accept")
                       ELSE [CallAt("create") EXCEPT !.todo = call[e].todo]
    <2>1. /\ new \in Call /\ new.todo = call[e].todo /\ new.cur = {}
          /\ new.pc = IF call[e].todo = {} THEN "accept" ELSE "create"
      BY <1>0 DEF CallAt, Call, CallPC, Result
    <2>2. call' = [call EXCEPT ![e] = new]
      BY DEF CallPersists
    <2>. HIDE DEF new
    <2>. QED BY <1>0, <2>1, <2>2
  <1>4. \A x \in Deliveries \ {d} : /\ CallHas(x)' <=> CallHas(x)
                                    /\ CallSent(x)' <=> CallSent(x)
                                    /\ ProcessorSent(x)' <=> ProcessorSent(x)
    BY <1>0, <1>3, OtherDeliveries
  <1>5. /\ ~ CallHas(d)' /\ ~ CallSent(d)' /\ (CallSent(d) <=> call[e].result = "ok")
        /\ ProcessorSent(d)' <=> ProcessorSent(d)
    BY <1>0, <1>2, <1>3 DEF CallHas, CallSent, ProcessorSent
  <1>. HIDE DEF d
  <1>6. /\ delivery' \in [Deliveries -> Delivery] /\ excused' \subseteq Deliveries
        /\ excused \subseteq excused'
        /\ \A x \in Deliveries \ {d} :
             delivery'[x] = delivery[x] /\ (x \in excused' => x \in excused)
        /\ \/ /\ delivery'[d].status = IF call[e].result = "ok" THEN "sent"
                                       ELSE IF 0 + 1 >= MaxAttempts THEN "dead_letter"
                                       ELSE "retry_scheduled"
              /\ delivery'[d].attempt = 0 + 1
              /\ delivery'[d].max = delivery[d].max
           \/ delivery'[d] = delivery[d] /\ d \in excused'
        /\ failures' \in 0..MaxFailures /\ faults' \in 0..MaxFaults /\ retries' \in 0..MaxRetries
    <2>1. call[e].result \in Result
      BY <1>0 DEF Call
    <2>. QED BY <1>0, <1>1, <1>2, <2>1, PersistFacts DEF d
  <1>7. TypeOK'
    BY <1>0, <1>3, <1>6 DEF TypeOK
  <1>8. CallControl'
    BY <1>3 DEF NInv, CallControl
  <1>9. \A x \in Deliveries : delivery'[x].status = "absent" <=> delivery[x].status = "absent"
    BY <1>2, <1>6
  <1>10. Covered'
    <2>. SUFFICES ASSUME NEW x \in Events, NEW q \in Resolve(Alert[x])
                  PROVE  /\ call'[x].pc \in {"new", "dedup"} \/ q \in call'[x].todo =>
                              delivery'[<<x, q>>].status = "absent"
                         /\ call'[x].pc \in {"create", "send", "persist", "accept"}
                              /\ q \notin call'[x].todo => delivery'[<<x, q>>].status # "absent"
                         /\ event[x] = "accepted" => delivery'[<<x, q>>].status # "absent"
      BY <1>0 DEF Covered
    <2>1. <<x, q>> \in Deliveries
      BY DeliveryPairs
    <2>2. CASE x = e
      BY <1>0, <1>3, <1>9, <2>1, <2>2 DEF NInv, Covered
    <2>3. CASE x # e
      BY <1>3, <1>9, <2>1, <2>3 DEF NInv, Covered
    <2>. QED BY <2>2, <2>3
  <1>11. Duplicates'
    BY <1>0, <1>3 DEF NInv, Duplicates, HasTwin
  <1>12. CopiesControl'
    BY <1>0, <1>9, CopiesControlStays
  <1>13. SentArrived'
    <2>. SUFFICES ASSUME NEW x \in Deliveries
                  PROVE  /\ delivery'[x].status = "absent" => copies[x] = 0
                         /\ delivery'[x].status = "sent" \/ CallSent(x)' \/ ProcessorSent(x)'
                              => copies[x] > 0
      BY <1>0 DEF SentArrived
    <2>1. CASE x = d
      BY <1>2, <1>5, <1>6, <1>9, <2>1 DEF NInv, SentArrived
    <2>2. CASE x # d
      BY <1>4, <1>6, <2>2 DEF NInv, SentArrived
    <2>. QED BY <2>1, <2>2
  <1>14. \A x \in Deliveries \ excused' : Unexcused(x)'
    <2>. SUFFICES ASSUME NEW x \in Deliveries, x \notin excused'
                  PROVE  Unexcused(x)'
      OBVIOUS
    <2>1. Unexcused(x)
      BY <1>6 DEF NInv
    <2>2. CASE x = d
      <3>1. /\ delivery[d].status = "pending" /\ delivery[d].max = MaxAttempts
            /\ \A row \in processor.batch \cup processor.cur : row.id # d
            /\ copies[d] <= 1
        BY <1>2, <2>1, <2>2 DEF Unexcused
      <3>2. /\ delivery'[d].status = IF call[e].result = "ok" THEN "sent"
                                     ELSE IF 0 + 1 >= MaxAttempts THEN "dead_letter"
                                     ELSE "retry_scheduled"
            /\ delivery'[d].attempt = 0 + 1
            /\ delivery'[d].max = MaxAttempts
        BY <1>6, <2>2, <3>1
      <3>3. copies[d] > 0 => call[e].result = "ok"
        BY <1>5, <2>1, <2>2, <3>1 DEF Unexcused, ProcessorSent
      <3>4. delivery'[d].status \in {"pending", "retry_scheduled"} =>
              delivery'[d].attempt < delivery'[d].max
        BY <1>0, <3>2
      <3>5. \A row \in processor'.batch \cup processor'.cur : row.id # d
        BY <1>0, <3>1
      <3>6. copies'[d] <= 1 /\ (copies'[d] > 0 => delivery'[d].status = "sent")
        BY <1>0, <3>1, <3>2, <3>3
      <3>. QED BY <1>5, <2>2, <3>4, <3>5, <3>6 DEF Unexcused
    <2>3. CASE x # d
      BY <1>0, <1>4, <1>6, <2>1, <2>3 DEF Unexcused
    <2>. QED BY <2>2, <2>3
  <1>. QED BY <1>7, <1>8, <1>10, <1>11, <1>12, <1>13, <1>14 DEF NInv

\* The list the processor makes holds each waiting row as it is.
LEMMA ListKeeps ==
  ASSUME NInv, List
  PROVE  NInv'
  <1>. DEFINE rows == {CopyOf(d) : d \in Listed}
  <1>0. /\ TypeOK /\ delivery \in [Deliveries -> Delivery] /\ excused \subseteq Deliveries
        /\ processor.pc = "idle" /\ processor.cur = {} /\ processor \in Processor
        /\ excused' = excused \cup (Underway \cap Listed)
        /\ UNCHANGED <<event, delivery, order, call, admin, copies, twins, bounds>>
    BY DEF NInv, TypeOK, List, CopiesControl
  <1>1. \A d \in Listed : /\ d \in Deliveries /\ Waiting(d)
                          /\ CopyOf(d) \in RowCopy /\ CopyOf(d).id = d
                          /\ CopyOf(d).attempt = delivery[d].attempt
                          /\ CopyOf(d).max = delivery[d].max
    BY <1>0 DEF Listed, CopyOf, RowCopy, Delivery
  <1>2. /\ processor'.pc = "send" /\ processor'.batch = rows /\ processor'.cur = {}
        /\ processor' \in Processor
    <2>1. rows \in SUBSET RowCopy
      BY <1>1
    <2>2. processor' = [Idle EXCEPT !.pc = "send", !.batch = rows]
      BY DEF List
    <2>. HIDE DEF rows
    <2>. QED BY <2>1, <2>2 DEF Idle, Processor, Result
  <1>3. \A row \in rows : row.id \in Listed /\ row = CopyOf(row.id)
    BY <1>1
  <1>. HIDE DEF rows
  <1>4. TypeOK'
    BY <1>0, <1>2 DEF TypeOK, Listed, bounds
  <1>5. CallControl' /\ Covered' /\ Duplicates'
    BY <1>0 DEF NInv, CallControl, Covered, Duplicates, HasTwin
  <1>6. CopiesControl'
    <2>1. \A row \in rows : delivery[row.id].status # "absent"
      BY <1>1, <1>3 DEF Waiting
    <2>2. \A x, y \in rows : x.id = y.id => x = y
      BY <1>3
    <2>. QED BY <1>0, <1>2, <2>1, <2>2 DEF NInv, CopiesControl
  <1>7. \A d \in Deliveries : /\ CallHas(d)' <=> CallHas(d)
                              /\ CallSent(d)' <=> CallSent(d)
                              /\ ~ ProcessorSent(d)' /\ ~ ProcessorSent(d)
    BY <1>0, <1>2 DEF CallHas, CallSent, ProcessorSent
  <1>8. SentArrived'
    BY <1>0, <1>7 DEF NInv, SentArrived
  <1>9. \A d \in Deliveries \ excused' : Unexcused(d)'
    <2>. SUFFICES ASSUME NEW d \in Deliveries, d \notin excused'
                  PROVE  Unexcused(d)'
      OBVIOUS
    <2>1. Unexcused(d) /\ (CallHas(d) => d \notin Listed)
      BY <1>0 DEF NInv, Underway, CallHas
    <2>2. CallHas(d) => \A row \in rows : row.id # d
      BY <1>3, <2>1
    <2>3. \A row \in rows : row.id = d =>
            /\ delivery[d].status \in {"pending", "retry_scheduled"}
            /\ row.attempt = delivery[d].attempt /\ row.max = delivery[d].max
      BY <1>1, <1>3 DEF Waiting
    <2>. QED BY <1>0, <1>2, <1>7, <2>1, <2>2, <2>3 DEF Unexcused
  <1>. QED BY <1>4, <1>5, <1>6, <1>8, <1>9 DEF NInv

\* The rows the processor still has after one is dealt with.
LEMMA GoOnFacts ==
  ASSUME NEW rest \in SUBSET RowCopy
  PROVE  /\ GoOn(rest) \in Processor /\ GoOn(rest).pc # "persist"
         /\ GoOn(rest).batch = rest /\ GoOn(rest).cur = {} /\ GoOn(rest).result = "none"
  BY DEF GoOn, Idle, Processor, Result

\* A processor that lets go of rows keeps what is known of the others.
LEMMA ProcessorSendsKeeps ==
  ASSUME NInv, ProcessorSends
  PROVE  NInv'
  <1>0. /\ TypeOK /\ copies \in [Deliveries -> Nat]
        /\ processor.pc = "send" /\ processor.cur = {} /\ processor \in Processor
        /\ UNCHANGED <<event, delivery, order, call, admin, twins>>
    BY DEF NInv, TypeOK, ProcessorSends, CopiesControl
  <1>1. CallControl' /\ Covered' /\ Duplicates'
    BY <1>0 DEF NInv, CallControl, Covered, Duplicates, HasTwin
  <1>2. \A d \in Deliveries : /\ CallHas(d)' <=> CallHas(d)
                              /\ CallSent(d)' <=> CallSent(d)
                              /\ ~ ProcessorSent(d)
    BY <1>0 DEF CallHas, CallSent, ProcessorSent
  <1>3. ASSUME NEW row \in processor.batch, NEW result \in {"ok", "error"},
               Message(row.id, result),
               processor' = [pc |-> "persist", batch |-> processor.batch \ {row},
                             cur |-> {row}, result |-> result]
        PROVE  NInv'
    <2>. DEFINE d == row.id
    <2>1. row \in RowCopy /\ d \in Deliveries
      BY <1>0 DEF Processor, RowCopy
    <2>2. /\ copies' \in [Deliveries -> Nat] /\ excused' \subseteq Deliveries
          /\ excused \subseteq excused'
          /\ \A x \in Deliveries \ {d} : copies'[x] = copies[x] /\ (x \in excused' => x \in excused)
          /\ copies'[d] >= copies[d]
          /\ result = "ok" => copies'[d] = copies[d] + 1
          /\ result = "error" => copies'[d] = copies[d] \/ d \in excused'
          /\ failures' \in 0..MaxFailures /\ faults' \in 0..MaxFaults
          /\ retries' \in 0..MaxRetries
      BY <1>0, <1>3, <2>1, MessageFacts
    <2>3. /\ processor'.pc = "persist" /\ processor'.cur = {row} /\ processor'.result = result
          /\ processor'.batch = processor.batch \ {row} /\ processor' \in Processor
      BY <1>0, <1>3, <2>1 DEF Processor, Result
    <2>4. processor'.batch \cup processor'.cur = processor.batch \cup processor.cur
      BY <1>0, <2>3
    <2>5. TypeOK'
      BY <1>0, <2>2, <2>3 DEF TypeOK
    <2>6. CopiesControl'
      BY <1>0, <2>3, <2>4 DEF NInv, CopiesControl
    <2>7. \A x \in Deliveries : ProcessorSent(x)' <=> (x = d /\ result = "ok")
      BY <2>3 DEF ProcessorSent
    <2>8. delivery[d].status # "absent"
      BY <1>0 DEF NInv, CopiesControl
    <2>. HIDE DEF d
    <2>9. SentArrived'
      <3>. SUFFICES ASSUME NEW x \in Deliveries
                    PROVE  /\ delivery[x].status = "absent" => copies'[x] = 0
                           /\ delivery[x].status = "sent" \/ CallSent(x)' \/ ProcessorSent(x)'
                                => copies'[x] > 0
        BY <1>0 DEF SentArrived
      <3>1. /\ copies[x] \in Nat /\ copies'[x] \in Nat
            /\ delivery[x].status = "absent" => copies[x] = 0
            /\ delivery[x].status = "sent" \/ CallSent(x) => copies[x] > 0
        BY <1>0, <2>2 DEF NInv, SentArrived
      <3>2. CASE x = d
        BY <1>2, <2>2, <2>7, <2>8, <3>1, <3>2
      <3>3. CASE x # d
        BY <1>2, <2>2, <2>7, <3>1, <3>3
      <3>. QED BY <3>2, <3>3
    <2>10. \A x \in Deliveries \ excused' : Unexcused(x)'
      <3>. SUFFICES ASSUME NEW x \in Deliveries, x \notin excused'
                    PROVE  Unexcused(x)'
        OBVIOUS
      <3>1. Unexcused(x)
        BY <2>2 DEF NInv
      <3>2. CASE x = d
        <4>1. ~ CallHas(d) /\ delivery[d].status \in {"pending", "retry_scheduled"}
          BY <3>1, <3>2 DEF Unexcused, d
        <4>2. copies[d] = 0
          BY <1>0, <1>2, <2>1, <3>1, <3>2, <4>1 DEF Unexcused, CallSent, d
        <4>3. copies'[d] <= 1 /\ (copies'[d] > 0 => result = "ok")
          BY <2>2, <3>2, <4>2
        <4>. QED BY <1>0, <1>2, <2>4, <2>7, <3>1, <3>2, <4>1, <4>3 DEF Unexcused
      <3>3. CASE x # d
        BY <1>0, <1>2, <2>2, <2>4, <2>7, <3>1, <3>3 DEF Unexcused
      <3>. QED BY <3>2, <3>3
    <2>. QED BY <1>1, <2>5, <2>6, <2>9, <2>10 DEF NInv
  <1>4. ASSUME NEW row \in processor.batch, QueryFails,
               processor' = GoOn(processor.batch \ {row}), UNCHANGED <<copies, excused>>
        PROVE  NInv'
    <2>1. /\ processor' \in Processor /\ processor'.pc # "persist"
          /\ processor'.batch = processor.batch \ {row} /\ processor'.cur = {}
      <3>1. processor.batch \ {row} \in SUBSET RowCopy
        BY <1>0 DEF Processor
      <3>. QED BY <1>4, <3>1, GoOnFacts
    <2>2. TypeOK'
      BY <1>0, <1>4, <2>1, QueryFailsTypes DEF TypeOK
    <2>3. CopiesControl'
      BY <1>0, <2>1 DEF NInv, CopiesControl
    <2>4. \A x \in Deliveries : ~ ProcessorSent(x)'
      BY <2>1 DEF ProcessorSent
    <2>5. SentArrived'
      BY <1>0, <1>2, <1>4, <2>4 DEF NInv, SentArrived
    <2>6. \A x \in Deliveries \ excused' : Unexcused(x)'
      <3>. SUFFICES ASSUME NEW x \in Deliveries, x \notin excused
                    PROVE  Unexcused(x)'
        BY <1>4
      <3>1. Unexcused(x)
        BY DEF NInv
      <3>2. processor'.batch \cup processor'.cur \subseteq processor.batch \cup processor.cur
        BY <2>1
      <3>. QED BY <1>0, <1>2, <1>4, <2>4, <3>1, <3>2 DEF Unexcused
    <2>. QED BY <1>1, <2>2, <2>3, <2>5, <2>6 DEF NInv
  <1>5. PICK row \in Oldest(processor.batch) :
          \/ \E result \in {"ok", "error"} :
               /\ Message(row.id, result)
               /\ processor' = [pc |-> "persist", batch |-> processor.batch \ {row},
                                cur |-> {row}, result |-> result]
          \/ /\ QueryFails
             /\ processor' = GoOn(processor.batch \ {row})
             /\ UNCHANGED <<copies, excused>>
    BY DEF ProcessorSends
  <1>6. row \in processor.batch
    BY DEF Oldest
  <1>. QED BY <1>3, <1>4, <1>5, <1>6

\* The write of the processor keeps the invariant.
LEMMA ProcessorPersistsKeeps ==
  ASSUME NInv, ProcessorPersists
  PROVE  NInv'
  <1>0. /\ TypeOK /\ delivery \in [Deliveries -> Delivery] /\ processor \in Processor
        /\ processor.pc = "persist" /\ processor' = GoOn(processor.batch)
        /\ UNCHANGED <<event, order, call, admin, copies, twins>>
    BY DEF NInv, TypeOK, ProcessorPersists
  <1>1. PICK row \in processor.cur : Persist(row.id, row.attempt, row.max, processor.result)
    BY DEF ProcessorPersists
  <1>. DEFINE d == row.id
  <1>2. /\ row \in RowCopy /\ d \in Deliveries /\ row.attempt \in Nat /\ row.max \in Nat
        /\ processor.result \in Result
        /\ processor.cur = {row} /\ row \notin processor.batch
        /\ delivery[d].status # "absent"
        /\ \A x \in processor.batch : x.id # d
    BY <1>0, <1>1 DEF NInv, CopiesControl, Processor, RowCopy
  <1>3. /\ delivery' \in [Deliveries -> Delivery] /\ excused' \subseteq Deliveries
        /\ excused \subseteq excused'
        /\ \A x \in Deliveries \ {d} :
             delivery'[x] = delivery[x] /\ (x \in excused' => x \in excused)
        /\ \/ /\ delivery'[d].status = IF processor.result = "ok" THEN "sent"
                                       ELSE IF row.attempt + 1 >= row.max THEN "dead_letter"
                                       ELSE "retry_scheduled"
              /\ delivery'[d].attempt = row.attempt + 1
              /\ delivery'[d].max = delivery[d].max
           \/ delivery'[d] = delivery[d] /\ d \in excused'
        /\ failures' \in 0..MaxFailures /\ faults' \in 0..MaxFaults /\ retries' \in 0..MaxRetries
    BY <1>0, <1>1, <1>2, PersistFacts
  <1>4. /\ processor' \in Processor /\ processor'.pc # "persist"
        /\ processor'.batch = processor.batch /\ processor'.cur = {}
    <2>1. processor.batch \in SUBSET RowCopy
      BY <1>0 DEF Processor
    <2>. QED BY <1>0, <2>1, GoOnFacts
  <1>5. \A x \in Deliveries : /\ CallHas(x)' <=> CallHas(x)
                              /\ CallSent(x)' <=> CallSent(x)
                              /\ ~ ProcessorSent(x)'
                              /\ ProcessorSent(x) <=> (x = d /\ processor.result = "ok")
    BY <1>0, <1>2, <1>4 DEF CallHas, CallSent, ProcessorSent
  <1>. HIDE DEF d
  <1>6. TypeOK'
    BY <1>0, <1>3, <1>4 DEF TypeOK
  <1>7. \A x \in Deliveries : delivery'[x].status = "absent" <=> delivery[x].status = "absent"
    BY <1>2, <1>3
  <1>8. CallControl' /\ Covered' /\ Duplicates'
    BY <1>0, <1>7, CoverageStays DEF NInv, CallControl
  <1>9. CopiesControl'
    <2>1. /\ \A x \in processor.batch : x.id \in Deliveries
          /\ \A a \in Admins : \A x \in admin[a] : x.id \in Deliveries
      BY <1>0 DEF TypeOK, Processor, RowCopy
    <2>. QED BY <1>0, <1>4, <1>7, <2>1 DEF NInv, CopiesControl
  <1>10. SentArrived'
    <2>. SUFFICES ASSUME NEW x \in Deliveries
                  PROVE  /\ delivery'[x].status = "absent" => copies[x] = 0
                         /\ delivery'[x].status = "sent" \/ CallSent(x)' \/ ProcessorSent(x)'
                              => copies[x] > 0
      BY <1>0 DEF SentArrived
    <2>1. CASE x = d
      BY <1>2, <1>3, <1>5, <1>7, <2>1 DEF NInv, SentArrived
    <2>2. CASE x # d
      BY <1>3, <1>5, <2>2 DEF NInv, SentArrived
    <2>. QED BY <2>1, <2>2
  <1>11. \A x \in Deliveries \ excused' : Unexcused(x)'
    <2>. SUFFICES ASSUME NEW x \in Deliveries, x \notin excused'
                  PROVE  Unexcused(x)'
      OBVIOUS
    <2>1. Unexcused(x)
      BY <1>3 DEF NInv
    <2>2. CASE x = d
      <3>1. /\ ~ CallHas(d) /\ delivery[d].status \in {"pending", "retry_scheduled"}
            /\ row.attempt = delivery[d].attempt /\ row.max = delivery[d].max
            /\ copies[d] <= 1
        BY <1>2, <2>1, <2>2 DEF Unexcused, d
      <3>2. /\ delivery'[d].status = IF processor.result = "ok" THEN "sent"
                                     ELSE IF row.attempt + 1 >= row.max THEN "dead_letter"
                                     ELSE "retry_scheduled"
            /\ delivery'[d].attempt = row.attempt + 1
            /\ delivery'[d].max = row.max
        BY <1>3, <2>2, <3>1
      <3>3. copies[d] > 0 => processor.result = "ok"
        BY <1>2, <1>5, <2>1, <2>2, <3>1 DEF Unexcused, CallSent
      <3>4. delivery'[d].status \in {"pending", "retry_scheduled"} =>
              delivery'[d].attempt < delivery'[d].max
        BY <1>2, <3>2
      <3>5. \A y \in processor'.batch \cup processor'.cur : y.id # d
        BY <1>2, <1>4
      <3>6. copies'[d] <= 1 /\ (copies'[d] > 0 => delivery'[d].status = "sent")
        BY <1>0, <3>1, <3>2, <3>3
      <3>. QED BY <1>2, <1>5, <2>2, <3>1, <3>4, <3>5, <3>6 DEF Unexcused
    <2>3. CASE x # d
      BY <1>0, <1>2, <1>3, <1>4, <1>5, <2>1, <2>3 DEF Unexcused
    <2>. QED BY <2>2, <2>3
  <1>. QED BY <1>6, <1>8, <1>9, <1>10, <1>11 DEF NInv

-----------------------------------------------------------------------------
(* Retries and restarts. *)

\* A retry time that passes changes nothing the invariant speaks of.
LEMMA FallsDueKeeps ==
  ASSUME NInv, NEW d \in Deliveries, FallsDue(d)
  PROVE  NInv'
  <1>0. /\ TypeOK /\ delivery \in [Deliveries -> Delivery]
        /\ delivery' = [delivery EXCEPT ![d].due = TRUE]
        /\ UNCHANGED <<event, order, call, processor, admin, copies, excused, twins, bounds>>
    BY DEF NInv, TypeOK, FallsDue
  <1>1. /\ delivery' \in [Deliveries -> Delivery]
        /\ \A x \in Deliveries : /\ delivery'[x].status = delivery[x].status
                                 /\ delivery'[x].attempt = delivery[x].attempt
                                 /\ delivery'[x].max = delivery[x].max
    BY <1>0 DEF Delivery
  <1>2. TypeOK'
    BY <1>0, <1>1 DEF TypeOK, bounds
  <1>3. CallControl' /\ Covered' /\ Duplicates'
    BY <1>0, <1>1, CoverageStays DEF NInv, CallControl
  <1>4. CopiesControl'
    BY <1>0, <1>1, CopiesControlStays
  <1>5. \A x \in Deliveries : /\ CallHas(x)' <=> CallHas(x)
                              /\ CallSent(x)' <=> CallSent(x)
                              /\ ProcessorSent(x)' <=> ProcessorSent(x)
    BY <1>0 DEF CallHas, CallSent, ProcessorSent
  <1>6. SentArrived'
    BY <1>0, <1>1, <1>5 DEF NInv, SentArrived
  <1>7. \A x \in Deliveries \ excused' : Unexcused(x)'
    BY <1>0, <1>1, <1>5 DEF NInv, Unexcused
  <1>. QED BY <1>2, <1>3, <1>4, <1>6, <1>7 DEF NInv

\* A request that reads a row holds a dead one.
LEMMA ReadForRetryKeeps ==
  ASSUME NInv, NEW a \in Admins, NEW d \in Deliveries, ReadForRetry(a, d)
  PROVE  NInv'
  <1>0. /\ TypeOK /\ delivery \in [Deliveries -> Delivery]
        /\ admin \in [Admins -> SUBSET RowCopy]
        /\ delivery[d].status = "dead_letter"
        /\ admin' = [admin EXCEPT ![a] = {CopyOf(d)}]
        /\ UNCHANGED <<event, delivery, order, call, processor, copies, excused, twins,
                       failures, faults>>
    BY DEF NInv, TypeOK, ReadForRetry
  <1>1. retries' \in 0..MaxRetries
    <2>1. /\ retries \in 0..MaxRetries /\ MaxRetries \in Nat
          /\ retries < MaxRetries /\ retries' = retries + 1
      BY NotificationAssumption DEF NInv, TypeOK, ReadForRetry
    <2>. QED BY <2>1
  <1>2. CopyOf(d) \in RowCopy /\ CopyOf(d).id = d /\ CopyOf(d).status = "dead_letter"
    BY <1>0 DEF CopyOf, RowCopy, Delivery
  <1>3. TypeOK'
    BY <1>0, <1>1, <1>2 DEF TypeOK
  <1>4. CallControl' /\ Covered' /\ Duplicates'
    BY <1>0, CoverageStays DEF NInv, CallControl
  <1>5. CopiesControl'
    BY <1>0, <1>2 DEF NInv, CopiesControl
  <1>6. \A x \in Deliveries : /\ CallHas(x)' <=> CallHas(x)
                              /\ CallSent(x)' <=> CallSent(x)
                              /\ ProcessorSent(x)' <=> ProcessorSent(x)
    BY <1>0 DEF CallHas, CallSent, ProcessorSent
  <1>7. SentArrived' /\ \A x \in Deliveries \ excused' : Unexcused(x)'
    BY <1>0, <1>6 DEF NInv, SentArrived, Unexcused
  <1>. QED BY <1>3, <1>4, <1>5, <1>7 DEF NInv

\* A manual retry gives a dead delivery one more attempt; one that comes too late is
\* an excuse.
LEMMA ScheduleRetryKeeps ==
  ASSUME NInv, NEW a \in Admins, ScheduleRetry(a)
  PROVE  NInv'
  <1>1. PICK row \in admin[a] :
          /\ delivery' = [delivery EXCEPT ![row.id] =
               [status |-> "retry_scheduled", attempt |-> @.attempt,
                max |-> IF row.attempt >= row.max THEN row.attempt + 1 ELSE row.max,
                due |-> TRUE]]
          /\ excused' = IF row = CopyOf(row.id) THEN excused ELSE excused \cup {row.id}
          /\ admin' = [admin EXCEPT ![a] = {}]
          /\ UNCHANGED <<event, order, call, processor, copies, twins, bounds>>
    BY DEF ScheduleRetry, ScheduleNotificationDeliveryRetry
  <1>. DEFINE d == row.id
              max == IF row.attempt >= row.max THEN row.attempt + 1 ELSE row.max
  <1>2. /\ TypeOK /\ delivery \in [Deliveries -> Delivery] /\ excused \subseteq Deliveries
        /\ admin \in [Admins -> SUBSET RowCopy]
        /\ row \in RowCopy /\ d \in Deliveries /\ row.attempt \in Nat /\ row.max \in Nat
        /\ row.status = "dead_letter" /\ delivery[d].status # "absent"
    BY DEF NInv, TypeOK, RowCopy, CopiesControl
  <1>3. max \in Nat /\ row.attempt < max
    BY <1>2
  <1>4. row = CopyOf(d) => delivery[d].status = "dead_letter" /\ delivery[d].attempt = row.attempt
    BY <1>2 DEF CopyOf
  <1>5. \A x \in Deliveries \ {d} : x \in excused' => x \in excused
    BY <1>1
  <1>6. d \notin excused' => d \notin excused /\ row = CopyOf(d)
    BY <1>1
  <1>7. excused \subseteq excused' /\ excused' \subseteq Deliveries
    BY <1>1, <1>2
  <1>. HIDE DEF d, max
  <1>8. /\ delivery' \in [Deliveries -> Delivery]
        /\ delivery'[d] = [status |-> "retry_scheduled", attempt |-> delivery[d].attempt,
                           max |-> max, due |-> TRUE]
        /\ \A x \in Deliveries \ {d} : delivery'[x] = delivery[x]
    <2>1. [status |-> "retry_scheduled", attempt |-> delivery[d].attempt, max |-> max,
           due |-> TRUE] \in Delivery
      BY <1>2, <1>3 DEF Delivery, DeliveryStatus
    <2>. QED BY <1>1, <1>2, <2>1 DEF d, max
  <1>9. /\ admin' \in [Admins -> SUBSET RowCopy] /\ admin'[a] = {}
        /\ \A x \in Admins \ {a} : admin'[x] = admin[x]
        /\ UNCHANGED <<event, order, call, processor, copies, twins, bounds>>
    BY <1>1, <1>2
  <1>10. TypeOK'
    BY <1>2, <1>7, <1>8, <1>9 DEF TypeOK, bounds
  <1>11. \A x \in Deliveries : delivery'[x].status = "absent" <=> delivery[x].status = "absent"
    BY <1>2, <1>8
  <1>12. CallControl' /\ Covered' /\ Duplicates'
    BY <1>9, <1>11, CoverageStays DEF NInv, CallControl
  <1>13. CopiesControl'
    <2>1. /\ \A x \in processor.batch \cup processor.cur : x.id \in Deliveries
          /\ \A b \in Admins : \A x \in admin[b] : x.id \in Deliveries
      BY <1>2 DEF TypeOK, Processor, RowCopy
    <2>. QED BY <1>9, <1>11, <2>1 DEF NInv, CopiesControl
  <1>14. \A x \in Deliveries : /\ CallHas(x)' <=> CallHas(x)
                               /\ CallSent(x)' <=> CallSent(x)
                               /\ ProcessorSent(x)' <=> ProcessorSent(x)
    BY <1>9 DEF CallHas, CallSent, ProcessorSent
  <1>15. SentArrived'
    <2>. SUFFICES ASSUME NEW x \in Deliveries
                  PROVE  /\ delivery'[x].status = "absent" => copies[x] = 0
                         /\ delivery'[x].status = "sent" \/ CallSent(x) \/ ProcessorSent(x)
                              => copies[x] > 0
      BY <1>9, <1>14 DEF SentArrived
    <2>1. CASE x = d
      BY <1>8, <2>1 DEF NInv, SentArrived
    <2>2. CASE x # d
      BY <1>8, <2>2 DEF NInv, SentArrived
    <2>. QED BY <2>1, <2>2
  <1>16. \A x \in Deliveries \ excused' : Unexcused(x)'
    <2>. SUFFICES ASSUME NEW x \in Deliveries, x \notin excused'
                  PROVE  Unexcused(x)'
      OBVIOUS
    <2>1. Unexcused(x)
      BY <1>7 DEF NInv
    <2>2. CASE x = d
      <3>1. delivery[d].status = "dead_letter" /\ delivery[d].attempt = row.attempt
        BY <1>4, <1>6, <2>2
      <3>2. /\ ~ CallHas(d)
            /\ \A y \in processor.batch \cup processor.cur : y.id # d
        BY <2>1, <2>2, <3>1 DEF Unexcused
      <3>3. copies[d] <= 1 /\ ~ (copies[d] > 0)
        BY <2>1, <2>2, <3>1, <3>2 DEF Unexcused, CallSent, ProcessorSent
      <3>4. delivery'[d].status = "retry_scheduled" /\ delivery'[d].attempt < delivery'[d].max
        BY <1>3, <1>8, <3>1
      <3>5. /\ ~ CallHas(d)' /\ copies' = copies
            /\ \A y \in processor'.batch \cup processor'.cur : y.id # d
        BY <1>2, <1>9, <1>14, <3>2
      <3>. QED BY <2>2, <3>3, <3>4, <3>5 DEF Unexcused
    <2>3. CASE x # d
      BY <1>8, <1>9, <1>14, <2>1, <2>3 DEF Unexcused
    <2>. QED BY <2>2, <2>3
  <1>. QED BY <1>10, <1>12, <1>13, <1>15, <1>16 DEF NInv

\* A restart forgets who was sending what; whatever had been sent is excused.
LEMMA RestartKeeps ==
  ASSUME NInv, Restart
  PROVE  NInv'
  <1>0. /\ TypeOK /\ call \in [Events -> Call] /\ excused \subseteq Deliveries
        /\ processor \in Processor
        /\ call' = [e \in Events |-> IF call[e].pc = "new" THEN call[e] ELSE CallAt("over")]
        /\ processor' = Idle
        /\ admin' = [a \in Admins |-> {}]
        /\ excused' = excused
             \cup {d \in Underway : call[d[1]].pc = "persist"}
             \cup {row.id : row \in processor.cur}
        /\ UNCHANGED <<event, delivery, order, copies, twins, failures, retries>>
    BY DEF NInv, TypeOK, Restart
  <1>1. faults' \in 0..MaxFaults
    <2>1. faults \in 0..MaxFaults /\ MaxFaults \in Nat /\ faults < MaxFaults /\ faults' = faults + 1
      BY NotificationAssumption DEF NInv, TypeOK, Restart
    <2>. QED BY <2>1
  <1>2. /\ call' \in [Events -> Call]
        /\ \A e \in Events : /\ call[e].pc = "new" => call'[e] = call[e]
                             /\ call[e].pc # "new" => call'[e] = CallAt("over")
                             /\ call'[e].cur = {}
    <2>1. CallAt("over") \in Call /\ CallAt("over").cur = {}
      BY DEF CallAt, Call, CallPC, Result
    <2>2. \A e \in Events : call[e].pc = "new" => call[e].cur = {}
      BY DEF NInv, CallControl
    <2>. QED BY <1>0, <2>1, <2>2
  <1>3. processor' \in Processor /\ excused' \subseteq Deliveries
    <2>1. \A row \in processor.cur : row.id \in Deliveries
      BY <1>0 DEF Processor, RowCopy
    <2>2. Idle \in Processor
      BY DEF Idle, Processor, Result
    <2>. QED BY <1>0, <2>1, <2>2 DEF Underway
  <1>4. TypeOK'
    BY <1>0, <1>1, <1>2, <1>3 DEF TypeOK
  <1>5. CallControl'
    BY <1>2 DEF NInv, CallControl, CallAt
  <1>6. Covered'
    BY <1>0, <1>2 DEF NInv, Covered, CallAt
  <1>7. Duplicates'
    BY <1>0, <1>2 DEF NInv, Duplicates, HasTwin, CallAt
  <1>8. CopiesControl'
    BY <1>0 DEF CopiesControl, Idle
  <1>9. \A d \in Deliveries : ~ CallHas(d)' /\ ~ CallSent(d)' /\ ~ ProcessorSent(d)'
    BY <1>0, <1>2, DeliveryPairs DEF CallHas, CallSent, ProcessorSent, Idle
  <1>10. SentArrived'
    BY <1>0, <1>9 DEF NInv, SentArrived
  <1>11. \A d \in Deliveries \ excused' : Unexcused(d)'
    <2>. SUFFICES ASSUME NEW d \in Deliveries, d \notin excused'
                  PROVE  Unexcused(d)'
      OBVIOUS
    <2>1. Unexcused(d)
      BY <1>0 DEF NInv
    <2>2. ~ CallSent(d) /\ ~ ProcessorSent(d)
      BY <1>0 DEF CallSent, CallHas, Underway, ProcessorSent
    <2>. QED BY <1>0, <1>9, <2>1, <2>2 DEF Unexcused, Idle
  <1>. QED BY <1>4, <1>5, <1>6, <1>7, <1>8, <1>10, <1>11 DEF NInv

-----------------------------------------------------------------------------
(* Theorems. *)

\* The invariant is inductive: the calls, the processor and the rows agree on what
\* has been sent, but for the deliveries that have an excuse.
THEOREM NotificationsInvariant == Spec => []NInv
  <1>1. ASSUME NInv, [Next]_vars
        PROVE  NInv'
    <2>1. CASE \E e \in Events : StoreEvent(e)
      BY <1>1, <2>1, StoreEventKeeps
    <2>2. CASE \E e \in Events : Deduplicate(e)
      BY <1>1, <2>2, DeduplicateKeeps
    <2>3. CASE \E e \in Events : UpdateEventStatus(e)
      BY <1>1, <2>3, UpdateEventStatusKeeps
    <2>4. CASE \E e \in Events : CreateDelivery(e)
      BY <1>1, <2>4, CreateDeliveryKeeps
    <2>5. CASE \E e \in Events : CallSends(e)
      BY <1>1, <2>5, CallSendsKeeps
    <2>6. CASE \E e \in Events : CallPersists(e)
      BY <1>1, <2>6, CallPersistsKeeps
    <2>7. CASE List
      BY <1>1, <2>7, ListKeeps
    <2>8. CASE ProcessorSends
      BY <1>1, <2>8, ProcessorSendsKeeps
    <2>9. CASE ProcessorPersists
      BY <1>1, <2>9, ProcessorPersistsKeeps
    <2>10. CASE \E d \in Deliveries : FallsDue(d)
      BY <1>1, <2>10, FallsDueKeeps
    <2>11. CASE \E a \in Admins, d \in Deliveries : ReadForRetry(a, d)
      BY <1>1, <2>11, ReadForRetryKeeps
    <2>12. CASE \E a \in Admins : ScheduleRetry(a)
      BY <1>1, <2>12, ScheduleRetryKeeps
    <2>13. CASE Restart
      BY <1>1, <2>13, RestartKeeps
    <2>14. CASE UNCHANGED vars
      <3>1. UNCHANGED <<event, delivery, order, call, processor, admin, copies, excused, twins,
                        bounds>>
        BY <2>14 DEF vars
      <3>2. TypeOK'
        BY <1>1, <3>1 DEF NInv, TypeOK, bounds
      <3>3. CallControl' /\ Covered' /\ Duplicates'
        BY <1>1, <3>1, CoverageStays DEF NInv, CallControl
      <3>4. CopiesControl' /\ SentArrived' /\ \A d \in Deliveries \ excused' : Unexcused(d)'
        BY <1>1, <3>1, OthersStay
      <3>. QED BY <3>2, <3>3, <3>4 DEF NInv
    <2>. QED
      BY <1>1, <2>1, <2>2, <2>3, <2>4, <2>5, <2>6, <2>7, <2>8, <2>9, <2>10, <2>11, <2>12, <2>13,
         <2>14 DEF Next
  <1>. QED BY <1>1, InitNInv, PTL DEF Spec

\* Every variable keeps its type.
THEOREM NotificationsTypes == Spec => []TypeOK
  <1>1. NInv => TypeOK
    BY DEF NInv
  <1>. QED BY <1>1, NotificationsInvariant, PTL

\* A message arrives twice only for one of the named reasons, however the calls, the
\* processor and the administrators interleave (dispatchNotificationDelivery).
THEOREM OneCopy == Spec => []DeliveredOnce
  <1>1. NInv => DeliveredOnce
    <2>. SUFFICES ASSUME NInv, NEW d \in Deliveries, d \notin excused, copies[d] > 1
                  PROVE  FALSE
      BY DEF DeliveredOnce
    <2>1. copies[d] <= 1 /\ copies[d] \in Nat
      BY DEF NInv, Unexcused, TypeOK
    <2>. QED BY <2>1
  <1>. QED BY <1>1, NotificationsInvariant, PTL

\* A row that says sent tells the truth (UpdateNotificationDeliveryStatus).
THEOREM SentArrives == Spec => []SentIsDelivered
  <1>1. NInv => SentIsDelivered
    BY DEF NInv, SentArrived, SentIsDelivered
  <1>. QED BY <1>1, NotificationsInvariant, PTL

\* A delivery that waits has an attempt left (handleNotificationDeliveryFailure,
\* retryNotificationDelivery).
THEOREM AttemptsRemain == Spec => []OpenHasAttempts
  <1>1. NInv => OpenHasAttempts
    BY DEF NInv, Unexcused, OpenHasAttempts
  <1>. QED BY <1>1, NotificationsInvariant, PTL

\* An accepted event has a delivery for each of its routes (processNotificationEvent).
THEOREM AcceptedCovered == Spec => []AcceptedIsCovered
  <1>1. NInv => AcceptedIsCovered
    BY DEF NInv, Covered, AcceptedIsCovered
  <1>. QED BY <1>1, NotificationsInvariant, PTL

\* A routed alert is suppressed only for another event with its key
\* (shouldSuppressDuplicateEvent).
THEOREM SuppressedHasTwin == Spec => []SuppressedForTwin
  <1>1. NInv => SuppressedForTwin
    BY DEF NInv, Duplicates, HasTwin, SuppressedForTwin
  <1>. QED BY <1>1, NotificationsInvariant, PTL
=============================================================================
