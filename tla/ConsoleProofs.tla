---------------------------- MODULE ConsoleProofs ----------------------------
(***************************************************************************)
(* Theorems about Console, for all sets of users, agents, policies and     *)
(* requests, whatever the forms submit: what overlapping requests and      *)
(* failing statements may leave in the tables.                             *)
(***************************************************************************)
EXTENDS Console, FiniteSetTheorems, SequenceTheorems, TLAPS

-----------------------------------------------------------------------------
(* The inductive invariant, in parts. *)

Fields == {"pc", "roles", "todo", "policy", "binding", "result", "admins", "known", "file",
           "left", "cur", "report", "shown", "answer"}

\* The handlers are records of Fields, the submissions do not change.
Handlers ==
  /\ submission \in Workloads
  /\ DOMAIN request = Requests
  /\ \A r \in Requests : DOMAIN request[r] = Fields

\* What a handler has read are rows as they were in their tables.
HandlerOK(r) ==
  /\ request[r].pc \in PCs /\ request[r].answer \in Answers
  /\ request[r].roles \subseteq role /\ request[r].known \subseteq Agents
  /\ request[r].admins \subseteq Users
  /\ \A x \in request[r].policy : IsPolicyRow(x)
  /\ \A item \in request[r].left : IsPolicyRow(item.policy)
  /\ "policies" \in DOMAIN request[r].shown
  /\ Kind(r, {"export"}) => \A x \in request[r].shown.policies : IsPolicyRow(x)

TablesOK ==
  /\ AccessTypeOK
  /\ agents \subseteq Agents
  /\ \A x \in policies : IsPolicyRow(x)
  /\ \A b \in bindings : IsBindingRow(b)
  /\ \A item \in file : IsPolicyRow(item.policy)
  /\ \A t \in tasks : t.agent \in Agents \cup {NoAgent} /\ t.type \in TaskTypes
  /\ raced \in BOOLEAN /\ faults \in 0..MaxFaults

\* A handler is in the part of the code that is for its kind of form.
InLoop(r) == request[r].pc \in {"agent", "policy", "binding", "insert"}
Place(r) ==
  /\ InLoop(r) => Kind(r, {"task"})
  /\ Kind(r, {"task"}) => InLoop(r) \/ request[r].pc \in {"new", "reads", "over"}
  /\ request[r].pc \in {"agents", "import"} => Kind(r, {"import"})
  /\ AtPC(r, "check") => Kind(r, {"status", "roles"})
  /\ AtPC(r, "ensure") => Kind(r, {"roles", "access", "import"})
  /\ request[r].pc \in {"agent", "policy", "binding", "insert", "agents", "import", "check", "write"}
       => Form(r).valid
  /\ AtPC(r, "ensure") /\ Kind(r, {"roles"}) => Form(r).valid

\* A form that takes an administrator's rights away is written after a check that has seen
\* another administrator.
Demotes(r) ==
  \/ Kind(r, {"status"}) /\ ~ Form(r).active
  \/ Kind(r, {"roles"}) /\ ~ IsAdmin(Form(r).roles)
SawAnother(r) ==
  request[r].pc \in {"write", "ensure"} /\ Demotes(r) =>
    request[r].admins \ {Form(r).user} # {} \/ raced

\* What createTask has checked for the agent it is at.
Permits(r) ==
  Kind(r, {"task"}) =>
    /\ request[r].pc \in {"policy", "binding", "insert"} =>
         CanCreateTaskTypeForAgent(request[r].roles, Target(r), Form(r).type)
    /\ \A x \in request[r].policy : HasExecPolicyPermission(request[r].roles, x.id, "use")

MadeAllowed ==
  /\ TaskAllowed
  /\ \A m \in made : m.id[1] \in Requests /\ ~ AtPC(m.id[1], "new") /\ Kind(m.id[1], {"task"})

\* The rows of a request are those of the agents it has left behind.
RowsOf(r) == {m \in made : m.id[1] = r}
Count(r) == Cardinality(RowsOf(r))
Rows(r) ==
  /\ IsFiniteSet(RowsOf(r))
  /\ AtPC(r, "new") => RowsOf(r) = {}
  /\ Kind(r, {"task"}) /\ ~ Form(r).valid => RowsOf(r) = {} /\ request[r].answer # "done"
  /\ AtPC(r, "new") \/ InLoop(r) => request[r].answer = "none"
  /\ Kind(r, {"task"}) /\ AtPC(r, "reads") => request[r].answer = "refused"
  /\ Kind(r, {"task"}) /\ Form(r).valid =>
       /\ \A m \in RowsOf(r) : /\ m.id[2] \in 1..Count(r)
                               /\ m.agent = Form(r).agents[m.id[2]]
       /\ \A i \in 1..Count(r) : \E m \in RowsOf(r) : m.id[2] = i
       /\ InLoop(r) =>
            /\ request[r].todo \in Seq(Agents \cup {NoAgent}) /\ request[r].todo # <<>>
            /\ Count(r) + Len(request[r].todo) = Len(Form(r).agents)
            /\ \A i \in 1..Len(request[r].todo) :
                 request[r].todo[i] = Form(r).agents[Count(r) + i]
       /\ IF request[r].answer = "done" THEN Count(r) = Len(Form(r).agents)
          ELSE Count(r) < Len(Form(r).agents)

\* A directory belongs to a row, or to the row its request would insert next.
InHand(r) == request[r].pc \in {"policy", "binding", "insert"}
OfRow(r, i, whole) == whole /\ i \in 1..Count(r) /\ \E t \in tasks : t.id = <<r, i>>
OfNext(r, i, whole) ==
  /\ i = Count(r) + 1 /\ request[r].answer # "done"
  /\ request[r].pc \in {"policy", "binding", "insert", "reads", "over"}
  /\ ~ whole => AtPC(r, "over")
Directory(d) ==
  \E r \in Requests : \E i \in 1..(Count(r) + 1), whole \in BOOLEAN :
    /\ d = << <<r, i>>, whole>> /\ Kind(r, {"task"})
    /\ OfRow(r, i, whole) \/ OfNext(r, i, whole)
Directories ==
  /\ \A d \in uploads : Directory(d)
  /\ \A t \in tasks :
       /\ \E r \in Requests : \E i \in 1..Count(r) : t.id = <<r, i>> /\ Kind(r, {"task"})
       /\ t.files => <<t.id, TRUE>> \in uploads
  /\ \A r \in Requests : InHand(r) /\ Form(r).files => << <<r, Count(r) + 1>>, TRUE>> \in uploads

\* A binding's id determines its policy, whatever has been overwritten.
Issued(i, p) ==
  \/ \E b \in FirstBindings : b.id = i /\ b.policy = p
  \/ \E r \in Requests : /\ Kind(r, {"binding"}) /\ Form(r).valid
                         /\ Form(r).row.id = i /\ Form(r).row.policy = p
  \/ \E r \in Requests, a \in Agents : i = <<r, p, a>>
PoliciesAgree(r) ==
  Kind(r, {"task"}) =>
    /\ request[r].pc \in {"agent", "policy", "binding"} => request[r].binding = {}
    /\ \A x, y \in request[r].policy : x.id = y.id
    /\ \A b \in request[r].binding :
         Issued(b.id, b.policy) /\ {x.id : x \in request[r].policy} = {b.policy}
References ==
  /\ ReferencesHold
  /\ \A b \in bindings : Issued(b.id, b.policy)
  /\ \A t \in tasks : DOMAIN t = {"id", "agent", "type", "policy", "binding", "files"}

CInv ==
  /\ Handlers /\ TablesOK /\ MadeAllowed /\ Directories /\ References /\ AdministratorRemains
  /\ \A r \in Requests : HandlerOK(r) /\ Place(r) /\ SawAnother(r) /\ Permits(r) /\ Rows(r)
                           /\ PoliciesAgree(r)

-----------------------------------------------------------------------------
(* What a step does to the handlers: one of them changes. *)

Act(r) ==
  \/ Open(r) \/ Fail(r)
  \/ CheckLastAdmin(r) \/ WriteStatus(r) \/ PrepareRoles(r) \/ WriteRoles(r) \/ WriteUser(r)
  \/ WritePolicy(r) \/ WriteBinding(r) \/ RemoveAgent(r)
  \/ StartRow(r) \/ ReadPolicy(r) \/ ReadBinding(r) \/ InsertTask(r)
  \/ Read(r) \/ Detail(r)
  \/ ListAgents(r) \/ ImportPolicy(r) \/ ImportBinding(r) \/ ImportEnds(r)

Others(r) == \A q \in Requests \ {r} : request'[q] = request[q]

\* What the handler keeps of what it has read.
Keeps(r) ==
  LET h == request[r]  g == request'[r] IN
  /\ g.roles = h.roles /\ g.policy = h.policy /\ g.binding = h.binding /\ g.result = h.result
  /\ g.known = h.known /\ g.left = h.left /\ g.shown = h.shown

LEMMA Replaced ==
  ASSUME Handlers, UNCHANGED submission, NEW r \in Requests, NEW h, DOMAIN h = Fields,
         request' = [request EXCEPT ![r] = h]
  PROVE  Handlers' /\ Others(r) /\ request'[r] = h
  BY DEF Handlers, Others

LEMMA GotoEffect ==
  ASSUME Handlers, UNCHANGED submission, NEW r \in Requests, NEW pc, Goto(r, pc)
  PROVE  /\ Handlers' /\ Others(r) /\ Keeps(r)
         /\ request'[r].pc = pc /\ request'[r].answer = request[r].answer
         /\ request'[r].todo = request[r].todo /\ request'[r].admins = request[r].admins
  <1> DEFINE h == [request[r] EXCEPT !.pc = pc]
  <1>1. DOMAIN request[r] = Fields /\ DOMAIN h = Fields
    BY DEF Handlers
  <1>2. request' = [request EXCEPT ![r] = h]
    BY DEF Goto
  <1>3. Handlers' /\ Others(r) /\ request'[r] = h
    BY <1>1, <1>2, Replaced
  <1>. QED BY <1>1, <1>3 DEF Keeps, Fields

LEMMA AnswerEffect ==
  ASSUME Handlers, UNCHANGED submission, NEW r \in Requests, NEW answer, Answer(r, answer)
  PROVE  /\ Handlers' /\ Others(r) /\ Keeps(r)
         /\ request'[r].pc = "over" /\ request'[r].answer = answer
         /\ request'[r].todo = request[r].todo /\ request'[r].admins = request[r].admins
  <1> DEFINE h == [request[r] EXCEPT !.pc = "over", !.answer = answer]
  <1>1. DOMAIN request[r] = Fields /\ DOMAIN h = Fields
    BY DEF Handlers
  <1>2. request' = [request EXCEPT ![r] = h]
    BY DEF Answer, Handlers
  <1>3. Handlers' /\ Others(r) /\ request'[r] = h
    BY <1>1, <1>2, Replaced
  <1>. QED BY <1>1, <1>3 DEF Keeps, Fields

LEMMA RefuseEffect ==
  ASSUME Handlers, UNCHANGED submission, NEW r \in Requests, Refuse(r)
  PROVE  /\ Handlers' /\ Others(r) /\ Keeps(r)
         /\ request'[r].pc = "reads" /\ request'[r].answer = "refused"
         /\ request'[r].todo = Queries("task") /\ request'[r].admins = request[r].admins
  <1> DEFINE h == [request[r] EXCEPT !.pc = "reads", !.answer = "refused", !.todo = Queries("task")]
  <1>1. DOMAIN request[r] = Fields /\ DOMAIN h = Fields
    BY DEF Handlers
  <1>2. request' = [request EXCEPT ![r] = h]
    BY DEF Refuse, Handlers
  <1>3. Handlers' /\ Others(r) /\ request'[r] = h
    BY <1>1, <1>2, Replaced
  <1>. QED BY <1>1, <1>3 DEF Keeps, Fields

\* The first state of a handler, and the one for the next agent of a form.
LEMMA HandlerFields ==
  ASSUME NEW pc, NEW roles, NEW todo, NEW g, g = Handler(pc, roles, todo)
  PROVE  /\ DOMAIN g = Fields
         /\ g.pc = pc /\ g.roles = roles /\ g.todo = todo /\ g.answer = "none"
         /\ g.policy = {} /\ g.binding = {} /\ g.result = {} /\ g.admins = {} /\ g.known = {}
         /\ g.left = {} /\ g.shown = Shown
  BY DEF Handler, Fields, NoRow

LEMMA AnsweredFields ==
  ASSUME NEW pc, NEW roles, NEW todo, NEW answer, NEW g,
         g = [Handler(pc, roles, todo) EXCEPT !.answer = answer]
  PROVE  /\ DOMAIN g = Fields
         /\ g.pc = pc /\ g.roles = roles /\ g.todo = todo /\ g.answer = answer
         /\ g.policy = {} /\ g.binding = {} /\ g.result = {} /\ g.admins = {} /\ g.known = {}
         /\ g.left = {} /\ g.shown = Shown
  <1> DEFINE h == Handler(pc, roles, todo)
  <1>1. /\ DOMAIN h = Fields
        /\ h.pc = pc /\ h.roles = roles /\ h.todo = todo
        /\ h.policy = {} /\ h.binding = {} /\ h.result = {} /\ h.admins = {} /\ h.known = {}
        /\ h.left = {} /\ h.shown = Shown
    BY HandlerFields
  <1>2. g = [h EXCEPT !.answer = answer]
    OBVIOUS
  <1> HIDE DEF h
  <1>. QED BY <1>1, <1>2 DEF Fields

LEMMA OpenEffect ==
  ASSUME Handlers, NEW r \in Requests, Open(r)
  PROVE  /\ Handlers' /\ Others(r)
         /\ \/ /\ Keeps(r) /\ request'[r].pc = "over" /\ request'[r].admins = request[r].admins
               /\ request'[r].answer \in Answers \ {"done", "none"}
            \/ \E roles \in AuthenticateUser(submission[r].user, submission[r].password) :
                 LET form == Form(r) IN
                 /\ Permitted(form, roles)
                 /\ form.valid \/ form.kind \in {"task", "import"}
                 /\ request'[r] = Opened(form, roles)
  <1>0. UNCHANGED submission
    BY DEF Open
  <1>1. ASSUME NEW answer, Answer(r, answer), answer \in Answers \ {"done", "none"}
        PROVE  /\ Handlers' /\ Others(r) /\ Keeps(r) /\ request'[r].pc = "over"
               /\ request'[r].admins = request[r].admins
               /\ request'[r].answer \in Answers \ {"done", "none"}
    BY <1>0, <1>1, AnswerEffect
  <1>2. ASSUME NEW roles, request' = [request EXCEPT ![r] = Opened(Form(r), roles)]
        PROVE  Handlers' /\ Others(r) /\ request'[r] = Opened(Form(r), roles)
    <2> DEFINE h == Opened(Form(r), roles)
    <2>1. \A todo : DOMAIN Handler(Entry(Form(r)), roles, todo) = Fields
      BY HandlerFields
    <2>2. DOMAIN h = Fields
      BY <2>1 DEF Opened
    <2>. QED BY <1>0, <1>2, <2>2, Replaced
  <1>3. {"unauthorized", "forbidden", "refused"} \subseteq Answers \ {"done", "none"}
    BY DEF Answers
  <1>4. CASE AuthenticateUser(submission[r].user, submission[r].password) = {}
    <2>1. Answer(r, "unauthorized")
      BY <1>4 DEF Open
    <2>. QED BY <1>1, <1>3, <2>1
  <1>5. ASSUME AuthenticateUser(submission[r].user, submission[r].password) # {}
        PROVE  \E roles \in AuthenticateUser(submission[r].user, submission[r].password) :
                 IF ~ Permitted(Form(r), roles) THEN Answer(r, "forbidden")
                 ELSE IF ~ Form(r).valid /\ Form(r).kind \notin {"task", "import"} THEN Answer(r, "refused")
                 ELSE request' = [request EXCEPT ![r] = Opened(Form(r), roles)]
    BY <1>5 DEF Open
  <1>. QED BY <1>1, <1>2, <1>3, <1>4, <1>5

LEMMA FailEffect ==
  ASSUME Handlers, NEW r \in Requests, Fail(r)
  PROVE  /\ Handlers' /\ Others(r) /\ Keeps(r) /\ request'[r].admins = request[r].admins
         /\ \/ request'[r].pc = "over" /\ request'[r].answer = "error"
            \/ request'[r].pc = "over" /\ request'[r].answer = "done" /\ Kind(r, {"delete_agent"})
            \/ /\ request[r].pc \in {"policy", "binding"}
               /\ request'[r].pc = "reads" /\ request'[r].answer = "refused"
  <1>0. UNCHANGED submission
    BY DEF Fail
  <1>1. CASE AtPC(r, "policy") \/ AtPC(r, "binding")
    <2>1. Refuse(r)
      BY <1>1 DEF Fail
    <2>. QED BY <1>0, <1>1, <2>1, RefuseEffect DEF AtPC
  <1>2. CASE ~ (AtPC(r, "policy") \/ AtPC(r, "binding"))
    <2>1. Answer(r, IF Kind(r, {"delete_agent"}) THEN "done" ELSE "error")
      BY <1>2 DEF Fail
    <2>. QED BY <1>0, <2>1, AnswerEffect
  <1>. QED BY <1>1, <1>2

LEMMA CheckEffect ==
  ASSUME Handlers, NEW r \in Requests, CheckLastAdmin(r)
  PROVE  /\ Handlers' /\ Others(r) /\ Keeps(r)
         /\ \/ request'[r].pc = "over" /\ request'[r].answer = "refused"
               /\ request'[r].admins = request[r].admins
            \/ /\ ~ IsLastActiveAdmin(Form(r).user)
               /\ request'[r].pc = IF Kind(r, {"roles"}) THEN "ensure" ELSE "write"
               /\ request'[r].answer = request[r].answer
               /\ request'[r].admins = ActiveAdmins
  <1>0. UNCHANGED submission
    BY DEF CheckLastAdmin
  <1>1. CASE IsLastActiveAdmin(Form(r).user)
    <2>1. Answer(r, "refused")
      BY <1>1 DEF CheckLastAdmin
    <2>. QED BY <1>0, <2>1, AnswerEffect
  <1>2. CASE ~ IsLastActiveAdmin(Form(r).user)
    <2> DEFINE h == [request[r] EXCEPT !.pc = IF Kind(r, {"roles"}) THEN "ensure" ELSE "write",
                                       !.admins = ActiveAdmins]
    <2>1. DOMAIN request[r] = Fields /\ DOMAIN h = Fields
      BY DEF Handlers
    <2>2. request' = [request EXCEPT ![r] = h]
      BY <1>2 DEF CheckLastAdmin, Handlers
    <2>3. Handlers' /\ Others(r) /\ request'[r] = h
      BY <1>0, <2>1, <2>2, Replaced
    <2>. QED BY <1>2, <2>1, <2>3 DEF Keeps, Fields
  <1>. QED BY <1>1, <1>2

LEMMA PrepareEffect ==
  ASSUME Handlers, NEW r \in Requests, PrepareRoles(r)
  PROVE  /\ Handlers' /\ Others(r) /\ Keeps(r)
         /\ request'[r].answer = request[r].answer /\ request'[r].admins = request[r].admins
         /\ request'[r].pc = IF Kind(r, {"roles"}) THEN "write" ELSE "reads"
  <1>0. UNCHANGED submission
    BY DEF PrepareRoles
  <1>1. CASE Kind(r, {"roles"})
    <2>1. Goto(r, "write")
      BY <1>1 DEF PrepareRoles
    <2>. QED BY <1>0, <1>1, <2>1, GotoEffect
  <1>2. CASE ~ Kind(r, {"roles"})
    <2> DEFINE h == [request[r] EXCEPT !.pc = "reads", !.todo = Queries("access")]
    <2>1. DOMAIN request[r] = Fields /\ DOMAIN h = Fields
      BY DEF Handlers
    <2>2. request' = [request EXCEPT ![r] = h]
      BY <1>2 DEF PrepareRoles, Handlers
    <2>3. Handlers' /\ Others(r) /\ request'[r] = h
      BY <1>0, <2>1, <2>2, Replaced
    <2>. QED BY <1>2, <2>1, <2>3 DEF Keeps, Fields
  <1>. QED BY <1>1, <1>2

\* The writes of the administrators' forms answer.
Write(r) ==
  \/ WriteStatus(r) \/ WriteRoles(r) \/ WriteUser(r) \/ WritePolicy(r) \/ WriteBinding(r)
  \/ RemoveAgent(r)

LEMMA WriteEffect ==
  ASSUME Handlers, NEW r \in Requests, Write(r)
  PROVE  /\ Handlers' /\ Others(r) /\ Keeps(r) /\ AtPC(r, "write")
         /\ request'[r].pc = "over" /\ request'[r].answer \in {"done", "error"}
         /\ request'[r].admins = request[r].admins
  <1>0. UNCHANGED submission /\ AtPC(r, "write")
    BY DEF Write, WriteStatus, WriteRoles, WriteUser, WritePolicy, WriteBinding, RemoveAgent
  <1>1. Answer(r, "done") \/ Answer(r, "error")
    BY DEF Write, WriteStatus, WriteRoles, WriteUser, WritePolicy, WriteBinding, RemoveAgent
  <1>. QED BY <1>0, <1>1, AnswerEffect

LEMMA StartRowEffect ==
  ASSUME Handlers, NEW r \in Requests, StartRow(r)
  PROVE  /\ Handlers' /\ Others(r) /\ Keeps(r) /\ request'[r].admins = request[r].admins
         /\ \/ request'[r].pc = "reads" /\ request'[r].answer = "refused" /\ UNCHANGED uploads
            \/ /\ ~ CanCreateTaskTypeForAgent(request[r].roles, Target(r), Form(r).type)
               /\ request'[r].pc = "over" /\ request'[r].answer = "forbidden" /\ UNCHANGED uploads
            \/ /\ CanCreateTaskTypeForAgent(request[r].roles, Target(r), Form(r).type)
               /\ request'[r].todo = request[r].todo
               /\ \/ /\ request'[r].pc = Checked(r) /\ request'[r].answer = request[r].answer
                     /\ uploads' = IF Form(r).files THEN uploads \cup {<<TaskId(r), TRUE>>} ELSE uploads
                  \/ /\ request'[r].pc = "over" /\ request'[r].answer = "error"
                     /\ uploads' = uploads \cup {<<TaskId(r), FALSE>>}
  <1>0. UNCHANGED submission
    BY DEF StartRow
  <1>3. CASE Target(r) = NoAgent
    <2>1. Refuse(r) /\ UNCHANGED uploads
      BY <1>3 DEF StartRow
    <2>. QED BY <1>0, <2>1, RefuseEffect
  <1>1. CASE /\ Target(r) # NoAgent
             /\ ~ CanCreateTaskTypeForAgent(request[r].roles, Target(r), Form(r).type)
    <2>1. Answer(r, "forbidden") /\ UNCHANGED uploads
      BY <1>1 DEF StartRow
    <2>. QED BY <1>0, <1>1, <2>1, AnswerEffect
  <1>2. CASE Target(r) # NoAgent /\ CanCreateTaskTypeForAgent(request[r].roles, Target(r), Form(r).type)
    <2>1. \/ /\ Goto(r, Checked(r))
             /\ uploads' = IF Form(r).files THEN uploads \cup {<<TaskId(r), TRUE>>} ELSE uploads
          \/ Answer(r, "error") /\ uploads' = uploads \cup {<<TaskId(r), FALSE>>}
      BY <1>2 DEF StartRow, CopyFails
    <2>. QED BY <1>0, <1>2, <2>1, AnswerEffect, GotoEffect
  <1>. QED BY <1>1, <1>2, <1>3

LEMMA ReadPolicyEffect ==
  ASSUME Handlers, NEW r \in Requests, ReadPolicy(r)
  PROVE  /\ Handlers' /\ Others(r)
         /\ \/ Keeps(r) /\ request'[r].pc = "over" /\ request'[r].answer = "forbidden"
            \/ Keeps(r) /\ request'[r].pc = "reads" /\ request'[r].answer = "refused"
            \/ \E p \in Form(r).policy :
                 LET h == request[r]  g == request'[r] IN
                 /\ HasExecPolicyPermission(h.roles, p, "use")
                 /\ g.policy = {x \in GetExecCommandPolicyByID(p) : x.active} /\ g.policy # {}
                 /\ g.pc = "binding" /\ g.answer = h.answer /\ g.todo = h.todo
                 /\ g.roles = h.roles /\ g.binding = h.binding /\ g.result = h.result
                 /\ g.known = h.known /\ g.left = h.left /\ g.shown = h.shown
         /\ request'[r].admins = request[r].admins
  <1>0. UNCHANGED submission
    BY DEF ReadPolicy
  <1>1. PICK p \in Form(r).policy :
       IF ~ HasExecPolicyPermission(request[r].roles, p, "use") THEN Answer(r, "forbidden")
       ELSE LET found == {x \in GetExecCommandPolicyByID(p) : x.active}
            IN  IF found = {} THEN Refuse(r)
                ELSE request' = [request EXCEPT ![r].pc = "binding", ![r].policy = found]
    BY DEF ReadPolicy
  <1> DEFINE found == {x \in GetExecCommandPolicyByID(p) : x.active}
  <1>2. CASE Answer(r, "forbidden")
    BY <1>0, <1>2, AnswerEffect
  <1>3. CASE Refuse(r)
    BY <1>0, <1>3, RefuseEffect
  <1>4. CASE /\ HasExecPolicyPermission(request[r].roles, p, "use") /\ found # {}
             /\ request' = [request EXCEPT ![r].pc = "binding", ![r].policy = found]
    <2> DEFINE h == [request[r] EXCEPT !.pc = "binding", !.policy = found]
    <2>1. DOMAIN request[r] = Fields /\ DOMAIN h = Fields
      BY DEF Handlers
    <2>2. request' = [request EXCEPT ![r] = h]
      BY <1>4 DEF Handlers
    <2>3. Handlers' /\ Others(r) /\ request'[r] = h
      BY <1>0, <2>1, <2>2, Replaced
    <2> HIDE DEF found
    <2>4. LET g == request'[r]  old == request[r] IN
          /\ g.policy = found
          /\ g.pc = "binding" /\ g.answer = old.answer /\ g.todo = old.todo
          /\ g.roles = old.roles /\ g.binding = old.binding /\ g.result = old.result
          /\ g.known = old.known /\ g.left = old.left /\ g.shown = old.shown /\ g.admins = old.admins
      BY <2>1, <2>3 DEF Fields
    <2>. QED BY <1>4, <2>3, <2>4 DEF found
  <1>. QED BY <1>1, <1>2, <1>3, <1>4

LEMMA ReadBindingEffect ==
  ASSUME Handlers, NEW r \in Requests, ReadBinding(r)
  PROVE  /\ Handlers' /\ Others(r)
         /\ \/ Keeps(r) /\ request'[r].pc = "reads" /\ request'[r].answer = "refused"
            \/ \E policy \in request[r].policy :
                 LET h == request[r]  g == request'[r] IN
                 /\ g.binding = GetExecCommandPolicyBinding(policy.id, Target(r))
                 /\ \E b \in g.binding : \E c \in Resolve(policy, b, Form(r).values) : g.result = {c}
                 /\ g.pc = "insert" /\ g.answer = h.answer /\ g.todo = h.todo
                 /\ g.roles = h.roles /\ g.policy = h.policy /\ g.known = h.known
                 /\ g.left = h.left /\ g.shown = h.shown
         /\ request'[r].admins = request[r].admins
  <1>0. UNCHANGED submission
    BY DEF ReadBinding
  <1> DEFINE Found(policy) == GetExecCommandPolicyBinding(policy.id, Target(r))
             Commands(policy) == UNION {Resolve(policy, b, Form(r).values) : b \in Found(policy)}
             To(policy, c) == [request[r] EXCEPT !.pc = "insert", !.binding = Found(policy),
                                                 !.result = {c}]
  <1>1. PICK policy \in request[r].policy :
          \/ Refuse(r)
          \/ \E c \in Commands(policy) : request' = [request EXCEPT ![r] = To(policy, c)]
    <2>1. PICK policy \in request[r].policy :
            \/ Refuse(r)
            \/ \E c \in Commands(policy) :
                 request' = [request EXCEPT ![r].pc = "insert", ![r].binding = Found(policy),
                                            ![r].result = {c}]
      BY DEF ReadBinding
    <2> HIDE DEF Commands, Found
    <2>2. \A c : [request EXCEPT ![r].pc = "insert", ![r].binding = Found(policy), ![r].result = {c}]
                 = [request EXCEPT ![r] = To(policy, c)]
      BY DEF Handlers
    <2>3. \/ Refuse(r)
          \/ \E c \in Commands(policy) : request' = [request EXCEPT ![r] = To(policy, c)]
      BY <2>1, <2>2
    <2>. QED BY <2>3
  <1>2. CASE Refuse(r)
    BY <1>0, <1>2, RefuseEffect
  <1>3. ASSUME NEW c \in Commands(policy), request' = [request EXCEPT ![r] = To(policy, c)]
        PROVE  /\ Handlers' /\ Others(r)
               /\ LET h == request[r]  g == request'[r] IN
                 /\ g.binding = Found(policy)
                 /\ \E b \in g.binding : \E d \in Resolve(policy, b, Form(r).values) : g.result = {d}
                 /\ g.pc = "insert" /\ g.answer = h.answer /\ g.todo = h.todo
                 /\ g.roles = h.roles /\ g.policy = h.policy /\ g.known = h.known
                 /\ g.left = h.left /\ g.shown = h.shown /\ g.admins = h.admins
    <2> DEFINE h == To(policy, c)
    <2>1. DOMAIN request[r] = Fields /\ DOMAIN h = Fields
      BY DEF Handlers
    <2>2. Handlers' /\ Others(r) /\ request'[r] = h
      BY <1>0, <1>3, <2>1, Replaced
    <2>3. \E b \in Found(policy) : c \in Resolve(policy, b, Form(r).values)
      BY <1>3
    <2> HIDE DEF Found
    <2>4. LET old == request[r] IN
          /\ h.binding = Found(policy) /\ h.result = {c}
          /\ h.pc = "insert" /\ h.answer = old.answer /\ h.todo = old.todo
          /\ h.roles = old.roles /\ h.policy = old.policy /\ h.known = old.known
          /\ h.left = old.left /\ h.shown = old.shown /\ h.admins = old.admins
      BY <2>1 DEF Fields
    <2> HIDE DEF h
    <2>. QED BY <2>2, <2>3, <2>4
  <1> HIDE DEF Commands, To
  <1>. QED BY <1>1, <1>2, <1>3

LEMMA InsertTaskEffect ==
  ASSUME Handlers, NEW r \in Requests, InsertTask(r)
  PROVE  /\ Handlers' /\ Others(r)
         /\ \/ /\ Keeps(r) /\ request'[r].pc = "over" /\ request'[r].answer = "error"
               /\ request'[r].admins = request[r].admins /\ UNCHANGED <<tasks, made>>
            \/ LET g == request'[r]  last == Tail(request[r].todo) = <<>> IN
               /\ g.pc = IF last THEN "over" ELSE "agent"
               /\ g.answer = IF last THEN "done" ELSE "none"
               /\ g.todo = Tail(request[r].todo)
               /\ g.roles = request[r].roles /\ g.policy = {} /\ g.binding = {} /\ g.result = {} /\ g.known = {}
               /\ g.left = {} /\ g.shown = Shown /\ g.admins = {}
               /\ LET row == [id |-> TaskId(r), agent |-> Target(r), type |-> Form(r).type,
                              policy |-> {x.id : x \in request[r].policy},
                              binding |-> {b.id : b \in request[r].binding}, files |-> Form(r).files]
                  IN  /\ CanInsert(row)
                      /\ tasks' = tasks \cup {row}
                      /\ made' = made \cup {[id |-> row.id, agent |-> row.agent, policy |-> request[r].policy,
                                             binding |-> request[r].binding, result |-> request[r].result]}
  <1>0. UNCHANGED submission
    BY DEF InsertTask
  <1>1. CASE Answer(r, "error") /\ UNCHANGED <<tasks, made>>
    BY <1>0, <1>1, AnswerEffect
  <1>2. ASSUME NextAgent(r)
        PROVE  LET g == request'[r]  last == Tail(request[r].todo) = <<>> IN
               /\ Handlers' /\ Others(r)
               /\ g.pc = IF last THEN "over" ELSE "agent"
               /\ g.answer = IF last THEN "done" ELSE "none"
               /\ g.todo = Tail(request[r].todo)
               /\ g.roles = request[r].roles /\ g.policy = {} /\ g.binding = {} /\ g.result = {} /\ g.known = {}
               /\ g.left = {} /\ g.shown = Shown /\ g.admins = {}
    <2> DEFINE rest == Tail(request[r].todo)
               h == IF rest = <<>> THEN [Handler("over", request[r].roles, <<>>) EXCEPT !.answer = "done"]
                    ELSE Handler("agent", request[r].roles, rest)
    <2>1. DOMAIN h = Fields
      BY HandlerFields, AnsweredFields
    <2>2. request' = [request EXCEPT ![r] = h]
      BY <1>2 DEF NextAgent, Handlers
    <2>3. Handlers' /\ Others(r) /\ request'[r] = h
      BY <1>0, <2>1, <2>2, Replaced
    <2> HIDE DEF h
    <2>4. LET g == request'[r] IN
          /\ g.pc = IF rest = <<>> THEN "over" ELSE "agent"
          /\ g.answer = IF rest = <<>> THEN "done" ELSE "none"
          /\ g.todo = rest
          /\ g.roles = request[r].roles /\ g.policy = {} /\ g.binding = {} /\ g.result = {} /\ g.known = {}
          /\ g.left = {} /\ g.shown = Shown /\ g.admins = {}
      <3>1. CASE rest = <<>>
        <4>1. request'[r] = [Handler("over", request[r].roles, <<>>) EXCEPT !.answer = "done"]
          BY <2>3, <3>1 DEF h
        <4>2. LET g == request'[r] IN
              /\ g.pc = "over" /\ g.roles = request[r].roles /\ g.todo = <<>> /\ g.answer = "done"
              /\ g.policy = {} /\ g.binding = {} /\ g.result = {} /\ g.known = {}
              /\ g.left = {} /\ g.shown = Shown /\ g.admins = {}
          BY <4>1 DEF Handler, NoRow
        <4>. QED BY <3>1, <4>2
      <3>2. CASE rest # <<>>
        <4>1. request'[r] = Handler("agent", request[r].roles, rest)
          BY <2>3, <3>2 DEF h
        <4>. QED BY <3>2, <4>1, HandlerFields
      <3>. QED BY <3>1, <3>2
    <2>. QED BY <2>3, <2>4
  <1> DEFINE row == [id |-> TaskId(r), agent |-> Target(r), type |-> Form(r).type,
                     policy |-> {x.id : x \in request[r].policy},
                     binding |-> {b.id : b \in request[r].binding}, files |-> Form(r).files]
  <1>3. CASE CanInsert(row)
    <2>1. NextAgent(r)
      BY <1>3 DEF InsertTask
    <2>2. /\ tasks' = tasks \cup {row}
          /\ made' = made \cup {[id |-> row.id, agent |-> row.agent, policy |-> request[r].policy,
                                 binding |-> request[r].binding, result |-> request[r].result]}
      BY <1>3 DEF InsertTask
    <2> HIDE DEF row
    <2>. QED BY <1>2, <1>3, <2>1, <2>2 DEF row
  <1>4. CASE ~ CanInsert(row)
    <2>1. Answer(r, "error") /\ UNCHANGED <<tasks, made>>
      BY <1>4 DEF InsertTask, InsertFails
    <2>. QED BY <1>1, <2>1
  <1>. QED BY <1>3, <1>4

LEMMA ReadEffect ==
  ASSUME Handlers, NEW r \in Requests, Read(r)
  PROVE  /\ Handlers' /\ Others(r)
         /\ LET h == request[r]  g == request'[r]  last == Tail(h.todo) = <<>> IN
            /\ g.pc = IF last THEN "over" ELSE "reads"
            /\ g.answer = IF last /\ h.answer = "none" THEN "done" ELSE h.answer
            /\ g.shown = [h.shown EXCEPT ![Head(h.todo)] = Visible(r, Head(h.todo))]
            /\ g.roles = h.roles /\ g.policy = h.policy /\ g.binding = h.binding
            /\ g.known = h.known /\ g.left = h.left /\ g.admins = h.admins
  <1>0. UNCHANGED submission
    BY DEF Read
  <1> DEFINE old == request[r]
             shown == [old.shown EXCEPT ![Head(old.todo)] = Visible(r, Head(old.todo))]
             last == Tail(old.todo) = <<>>
             h == [old EXCEPT !.todo = Tail(old.todo), !.shown = shown,
                              !.pc = IF last THEN "over" ELSE "reads",
                              !.answer = IF last /\ @ = "none" THEN "done" ELSE @]
  <1>1. request' = [request EXCEPT ![r] = h]
    BY DEF Read
  <1>2. DOMAIN old = Fields /\ DOMAIN h = Fields
    BY DEF Handlers
  <1>3. Handlers' /\ Others(r) /\ request'[r] = h
    BY <1>0, <1>1, <1>2, Replaced
  <1> HIDE DEF shown, last
  <1>4. /\ h.pc = IF last THEN "over" ELSE "reads"
        /\ h.answer = IF last /\ old.answer = "none" THEN "done" ELSE old.answer
        /\ h.shown = shown
        /\ h.roles = old.roles /\ h.policy = old.policy /\ h.binding = old.binding
        /\ h.known = old.known /\ h.left = old.left /\ h.admins = old.admins
    BY <1>2 DEF Fields
  <1>. QED BY <1>3, <1>4 DEF shown, last

LEMMA DetailEffect ==
  ASSUME Handlers, NEW r \in Requests, Detail(r)
  PROVE  /\ Handlers' /\ Others(r) /\ Keeps(r) /\ request'[r].admins = request[r].admins
         /\ request'[r].pc = "over" /\ request'[r].answer \in Answers
  <1>0. UNCHANGED submission
    BY DEF Detail
  <1>1. \E answer \in Answers : Answer(r, answer)
    BY DEF Detail, Answers
  <1>. QED BY <1>0, <1>1, AnswerEffect

LEMMA ListAgentsEffect ==
  ASSUME Handlers, NEW r \in Requests, ListAgents(r)
  PROVE  /\ Handlers' /\ Others(r)
         /\ LET h == request[r]  g == request'[r] IN
            /\ g.pc = "import" /\ g.known = agents /\ g.left = file
            /\ g.answer = h.answer /\ g.roles = h.roles /\ g.policy = h.policy
            /\ g.shown = h.shown /\ g.admins = h.admins
  <1>0. UNCHANGED submission
    BY DEF ListAgents
  <1> DEFINE h == [request[r] EXCEPT !.pc = "import", !.known = agents, !.file = file, !.left = file]
  <1>1. DOMAIN request[r] = Fields /\ DOMAIN h = Fields
    BY DEF Handlers
  <1>2. request' = [request EXCEPT ![r] = h]
    BY DEF ListAgents, Handlers
  <1>3. Handlers' /\ Others(r) /\ request'[r] = h
    BY <1>0, <1>1, <1>2, Replaced
  <1>. QED BY <1>1, <1>3 DEF Fields

\* The row an imported policy becomes.
Renamed(r, item) == [item.policy EXCEPT !.id = Form(r).ids[item.policy.name]]

LEMMA ImportPolicyEffect ==
  ASSUME Handlers, NEW r \in Requests, ImportPolicy(r)
  PROVE  /\ Handlers' /\ Others(r)
         /\ LET h == request[r]  g == request'[r] IN
            /\ g.pc = h.pc /\ g.known = h.known /\ g.answer = h.answer /\ g.roles = h.roles
            /\ g.shown = h.shown /\ g.admins = h.admins /\ g.left \subseteq h.left
            /\ \E item \in h.left :
                 \/ /\ CreateExecCommandPolicy(Renamed(r, item)) /\ UNCHANGED faults
                    /\ g.policy = {Renamed(r, item)}
                 \/ g.policy = h.policy /\ UNCHANGED policyVars
  <1>0. UNCHANGED submission
    BY DEF ImportPolicy
  <1> DEFINE rest(item) == [request[r] EXCEPT !.left = @ \ {item}]
             stored1(item) == [rest(item) EXCEPT !.cur = item.bindings, !.policy = {Renamed(r, item)}]
  <1>1. \E item \in request[r].left :
          \/ /\ CreateExecCommandPolicy(Renamed(r, item)) /\ UNCHANGED faults
             /\ request' = [request EXCEPT ![r] = Report(stored1(item), "success", <<Renamed(r, item).name>>)]
          \/ /\ UNCHANGED policyVars
             /\ request' = [request EXCEPT ![r] = Report(rest(item), "error", <<Renamed(r, item).name>>)]
    BY DEF ImportPolicy, Renamed
  <1>2. PICK item \in request[r].left :
          \/ /\ CreateExecCommandPolicy(Renamed(r, item)) /\ UNCHANGED faults
             /\ request' = [request EXCEPT ![r] = Report(stored1(item), "success", <<Renamed(r, item).name>>)]
          \/ /\ UNCHANGED policyVars
             /\ request' = [request EXCEPT ![r] = Report(rest(item), "error", <<Renamed(r, item).name>>)]
    BY <1>1
  <1>3. ASSUME NEW h, NEW level, NEW name, DOMAIN h = Fields, request' = [request EXCEPT ![r] = Report(h, level, name)]
        PROVE  /\ Handlers' /\ Others(r)
               /\ LET g == request'[r] IN
                  /\ g.pc = h.pc /\ g.known = h.known /\ g.answer = h.answer /\ g.roles = h.roles
                  /\ g.shown = h.shown /\ g.admins = h.admins /\ g.left = h.left /\ g.policy = h.policy
    <2>1. DOMAIN Report(h, level, name) = Fields
      BY <1>3 DEF Report
    <2>2. Handlers' /\ Others(r) /\ request'[r] = Report(h, level, name)
      BY <1>0, <1>3, <2>1, Replaced
    <2>. QED BY <1>3, <2>2 DEF Report, Fields
  <1>4. DOMAIN request[r] = Fields
    BY DEF Handlers
  <1>5. LET h == request[r]  g == rest(item) IN
        /\ DOMAIN g = Fields
        /\ g.pc = h.pc /\ g.known = h.known /\ g.answer = h.answer /\ g.roles = h.roles
        /\ g.shown = h.shown /\ g.admins = h.admins /\ g.left = h.left \ {item} /\ g.policy = h.policy
    BY <1>4 DEF Fields
  <1> DEFINE old == rest(item)
  <1> HIDE DEF rest
  <1>6. LET h == rest(item)  g == stored1(item) IN
        /\ DOMAIN g = Fields
        /\ g.pc = h.pc /\ g.known = h.known /\ g.answer = h.answer /\ g.roles = h.roles
        /\ g.shown = h.shown /\ g.admins = h.admins /\ g.left = h.left /\ g.policy = {Renamed(r, item)}
    BY <1>5 DEF Fields
  <1> HIDE DEF stored1
  <1>. QED BY <1>2, <1>3, <1>5, <1>6

LEMMA ImportBindingEffect ==
  ASSUME Handlers, NEW r \in Requests, ImportBinding(r)
  PROVE  /\ Handlers' /\ Others(r) /\ Keeps(r)
         /\ request'[r].pc = request[r].pc /\ request'[r].answer = request[r].answer
         /\ request'[r].admins = request[r].admins
         /\ \/ UNCHANGED policyVars
            \/ \E b \in request[r].cur, policy \in request[r].policy : \E a \in Matches(r, b) :
                 /\ CanCreateExecCommandPolicyBinding(BindingRow(r, policy, b, a))
                 /\ CreateExecCommandPolicyBinding(BindingRow(r, policy, b, a))
  <1>0. UNCHANGED submission
    BY DEF ImportBinding
  <1>1. PICK b \in request[r].cur :
          /\ \E level, name : request' = [request EXCEPT ![r] =
                                Report([request[r] EXCEPT !.cur = @ \ {b}], level, name)]
          /\ \/ UNCHANGED policyVars
             \/ \E policy \in request[r].policy : \E a \in Matches(r, b) :
                  /\ CanCreateExecCommandPolicyBinding(BindingRow(r, policy, b, a))
                  /\ CreateExecCommandPolicyBinding(BindingRow(r, policy, b, a))
    BY DEF ImportBinding
  <1>2. PICK level, name : request' = [request EXCEPT ![r] =
                                Report([request[r] EXCEPT !.cur = @ \ {b}], level, name)]
    BY <1>1
  <1> DEFINE h == Report([request[r] EXCEPT !.cur = @ \ {b}], level, name)
  <1>3. DOMAIN request[r] = Fields /\ DOMAIN h = Fields
    BY DEF Handlers, Report
  <1>4. Handlers' /\ Others(r) /\ request'[r] = h
    BY <1>0, <1>2, <1>3, Replaced
  <1>5. /\ Keeps(r) /\ h.pc = request[r].pc /\ h.answer = request[r].answer
        /\ h.admins = request[r].admins
    BY <1>3, <1>4 DEF Keeps, Report, Fields
  <1>. QED BY <1>1, <1>4, <1>5

LEMMA ImportEndsEffect ==
  ASSUME Handlers, NEW r \in Requests, ImportEnds(r)
  PROVE  /\ Handlers' /\ Others(r) /\ Keeps(r)
         /\ request'[r].pc = "ensure" /\ request'[r].answer = request[r].answer
         /\ request'[r].admins = request[r].admins
  BY GotoEffect DEF ImportEnds

LEMMA Frame ==
  ASSUME Handlers, NEW r \in Requests, Act(r)
  PROVE  /\ Handlers' /\ Others(r) /\ UNCHANGED submission
         /\ role \subseteq role' /\ (raced => raced')
         /\ \A q \in Requests \ {r} : RowsOf(q)' = RowsOf(q)
         /\ made' = made \/ InsertTask(r)
         /\ UNCHANGED uploads \/ StartRow(r)
  <1>1. Handlers' /\ Others(r)
    <2>1. CASE Open(r)
      BY <2>1, OpenEffect
    <2>2. CASE Fail(r)
      BY <2>2, FailEffect
    <2>3. CASE CheckLastAdmin(r) \/ PrepareRoles(r)
      BY <2>3, CheckEffect, PrepareEffect
    <2>4. CASE Write(r)
      BY <2>4, WriteEffect
    <2>5. CASE StartRow(r)
      BY <2>5, StartRowEffect
    <2>6. CASE ReadPolicy(r) \/ ReadBinding(r)
      BY <2>6, ReadPolicyEffect, ReadBindingEffect
    <2>7. CASE InsertTask(r)
      BY <2>7, InsertTaskEffect
    <2>8. CASE Read(r) \/ Detail(r) \/ ListAgents(r)
      BY <2>8, ReadEffect, DetailEffect, ListAgentsEffect
    <2>9. CASE ImportPolicy(r) \/ ImportBinding(r) \/ ImportEnds(r)
      BY <2>9, ImportPolicyEffect, ImportBindingEffect, ImportEndsEffect
    <2>. QED BY <2>1, <2>2, <2>3, <2>4, <2>5, <2>6, <2>7, <2>8, <2>9 DEF Act, Write
  <1>2. UNCHANGED submission
    BY DEF Act, Open, Fail, CheckLastAdmin, WriteStatus, PrepareRoles, WriteRoles, WriteUser,
           WritePolicy, WriteBinding, RemoveAgent, StartRow, ReadPolicy, ReadBinding, InsertTask,
           Read, Detail, ListAgents, ImportPolicy, ImportBinding, ImportEnds
  <1>3. role \subseteq role'
    <2>1. UNCHANGED role \/ PrepareRoles(r)
      BY DEF Act, Open, Fail, CheckLastAdmin, WriteStatus, WriteRoles, WriteUser, accessVars,
             WritePolicy, WriteBinding, RemoveAgent, StartRow, ReadPolicy, ReadBinding, InsertTask,
             Read, Detail, ListAgents, ImportPolicy, ImportBinding, ImportEnds
    <2>. QED BY <2>1 DEF PrepareRoles, EnsureRoles
  <1>4. raced => raced'
    <2>1. UNCHANGED raced \/ WriteStatus(r) \/ WriteRoles(r)
      BY DEF Act, Open, Fail, CheckLastAdmin, PrepareRoles, WriteUser,
             WritePolicy, WriteBinding, RemoveAgent, StartRow, ReadPolicy, ReadBinding, InsertTask,
             Read, Detail, ListAgents, ImportPolicy, ImportBinding, ImportEnds
    <2>. QED BY <2>1 DEF WriteStatus, WriteRoles, NoteRace
  <1>5. UNCHANGED made \/ InsertTask(r)
    BY DEF Act, Open, Fail, CheckLastAdmin, WriteStatus, PrepareRoles, WriteRoles, WriteUser,
           WritePolicy, WriteBinding, RemoveAgent, StartRow, ReadPolicy, ReadBinding,
           Read, Detail, ListAgents, ImportPolicy, ImportBinding, ImportEnds
  <1>6. UNCHANGED uploads \/ StartRow(r)
    BY DEF Act, Open, Fail, CheckLastAdmin, WriteStatus, PrepareRoles, WriteRoles, WriteUser,
           WritePolicy, WriteBinding, RemoveAgent, InsertTask, ReadPolicy, ReadBinding,
           Read, Detail, ListAgents, ImportPolicy, ImportBinding, ImportEnds
  <1>7. ASSUME NEW q \in Requests \ {r}
        PROVE  RowsOf(q)' = RowsOf(q)
    <2>1. CASE UNCHANGED made
      BY <2>1 DEF RowsOf
    <2>2. ASSUME NEW m, made' = made \cup {m}, m.id[1] = r
          PROVE  RowsOf(q)' = RowsOf(q)
      BY <2>2 DEF RowsOf
    <2>3. CASE InsertTask(r)
      BY <2>1, <2>2, <2>3, InsertTaskEffect DEF TaskId
    <2>. QED BY <1>5, <2>1, <2>3
  <1>. QED BY <1>1, <1>2, <1>3, <1>4, <1>5, <1>6, <1>7

LEMMA OthersKept ==
  ASSUME NEW r \in Requests, NEW q \in Requests \ {r},
         Others(r), UNCHANGED submission, role \subseteq role', raced => raced', RowsOf(q)' = RowsOf(q),
         HandlerOK(q), Place(q), SawAnother(q), Permits(q), Rows(q), PoliciesAgree(q)
  PROVE  (HandlerOK(q) /\ Place(q) /\ SawAnother(q) /\ Permits(q) /\ Rows(q) /\ PoliciesAgree(q))'
  <1>1. request'[q] = request[q] /\ Form(q)' = Form(q)
    BY DEF Others, Form
  <1>2. (HandlerOK(q) /\ Place(q) /\ SawAnother(q))'
    BY <1>1 DEF HandlerOK, Place, SawAnother, InLoop, AtPC, Kind, Demotes
  <1>3. (Permits(q))'
    BY <1>1 DEF Permits, Kind, Target
  <1>4. (Rows(q))'
    BY <1>1 DEF Rows, Count, InLoop, AtPC, Kind
  <1>5. (PoliciesAgree(q))'
    BY <1>1 DEF PoliciesAgree, Issued, Kind, Form
  <1>. QED BY <1>2, <1>3, <1>4, <1>5

\* The parts of the invariant that are about createTask hold of every other handler that is
\* past its beginning.
LEMMA NotTask ==
  ASSUME NEW r \in Requests, UNCHANGED <<submission, made>>, ~ Kind(r, {"task"}), Rows(r),
         request'[r].pc # "new", ~ InLoop(r)'
  PROVE  (Permits(r) /\ Rows(r) /\ PoliciesAgree(r))'
  BY DEF Permits, Rows, PoliciesAgree, Kind, Form, RowsOf, AtPC, InLoop

-----------------------------------------------------------------------------
(* The handler that moves: what it knows and where it is. *)

LEMMA OpenedFields ==
  ASSUME NEW form, NEW roles, NEW g, g = Opened(form, roles)
  PROVE  /\ g.pc = Entry(form) /\ g.roles = roles
         /\ g.todo = IF Entry(form) = "reads" THEN Queries(form.kind)
                     ELSE IF form.kind = "task" THEN form.agents ELSE <<>>
         /\ g.answer = IF form.kind = "task" /\ ~ form.valid THEN "refused" ELSE "none"
         /\ g.policy = {} /\ g.binding = {} /\ g.result = {} /\ g.admins = {} /\ g.known = {}
         /\ g.left = {} /\ g.shown = Shown
  <1> DEFINE todo == IF Entry(form) = "reads" THEN Queries(form.kind)
                     ELSE IF form.kind = "task" THEN form.agents ELSE <<>>
             answer == IF form.kind = "task" /\ ~ form.valid THEN "refused" ELSE "none"
             h == Handler(Entry(form), roles, todo)
  <1>1. h.answer = "none"
    BY HandlerFields
  <1>2. g = [h EXCEPT !.answer = answer]
    BY <1>1 DEF Opened
  <1> HIDE DEF todo, answer
  <1>3. g.pc = Entry(form) /\ g.roles = roles /\ g.todo = todo /\ g.answer = answer
    BY <1>2 DEF Handler
  <1>4. /\ g.policy = {} /\ g.binding = {} /\ g.result = {} /\ g.admins = {} /\ g.known = {}
        /\ g.left = {} /\ g.shown = Shown
    BY <1>2 DEF Handler, NoRow
  <1>. QED BY <1>3, <1>4 DEF todo, answer

LEMMA FormOK ==
  ASSUME Handlers, NEW r \in Requests
  PROVE  IsForm(Form(r)) /\ submission[r].user \in Users
  BY FormsAssumption DEF Handlers, Form

LEMMA EntryIsPC ==
  ASSUME NEW form
  PROVE  /\ Entry(form) \in PCs \ {"new", "policy", "binding", "insert", "import", "over"}
         /\ Entry(form) = "agent" => form.kind = "task" /\ form.valid
         /\ form.kind = "task" => Entry(form) \in {"agent", "reads"}
         /\ form.kind = "task" /\ form.valid => Entry(form) = "agent"
         /\ form.kind = "task" /\ ~ form.valid => Entry(form) = "reads"
         /\ Entry(form) = "agents" => form.kind = "import" /\ form.valid
         /\ Entry(form) = "check" => form.kind \in {"status", "roles"}
         /\ Entry(form) = "ensure" => form.kind \in {"roles", "access", "import"}
         /\ Entry(form) = "write" => form.kind \notin {"task", "import"}
         /\ Entry(form) = "write" /\ form.kind = "status" => form.active
         /\ Entry(form) = "write" => form.kind # "roles"
         /\ Entry(form) = "ensure" /\ form.kind = "roles" => IsAdmin(form.roles)
  BY DEF Entry, PCs, IsAdmin

LEMMA HandlerKept ==
  ASSUME Handlers, TablesOK, NEW r \in Requests, HandlerOK(r), Place(r), Act(r)
  PROVE  HandlerOK(r)'
  <1>0. UNCHANGED submission /\ role \subseteq role' /\ Kind(r, {"export"})' = Kind(r, {"export"})
    BY Frame DEF Kind, Form
  <1>1. ASSUME Keeps(r), request'[r].admins \subseteq Users, request'[r].pc \in PCs,
               request'[r].answer \in Answers
        PROVE  HandlerOK(r)'
    BY <1>0, <1>1 DEF HandlerOK, Keeps
  <1>a. "over" \in PCs /\ "reads" \in PCs /\ "write" \in PCs /\ "ensure" \in PCs /\ "import" \in PCs
        /\ "binding" \in PCs /\ "insert" \in PCs /\ "agent" \in PCs
    BY DEF PCs
  <1>b. {"error", "done", "none", "refused", "forbidden"} \subseteq Answers
    BY DEF Answers
  <1>c. request[r].admins \subseteq Users /\ request[r].answer \in Answers /\ ActiveAdmins \subseteq Users
        /\ request[r].pc \in PCs
    BY DEF HandlerOK, ActiveAdmins
  <1>2. CASE Open(r)
    <2>1. CASE /\ Keeps(r) /\ request'[r].pc = "over" /\ request'[r].answer \in Answers
               /\ request'[r].admins = request[r].admins
      BY <1>1, <1>a, <1>c, <2>1
    <2>2. ASSUME NEW roles \in AuthenticateUser(submission[r].user, submission[r].password),
                 request'[r] = Opened(Form(r), roles)
          PROVE  HandlerOK(r)'
      <3>1. roles \subseteq role
        <4>1. user[submission[r].user].roles \subseteq role
          BY FormOK DEF TablesOK, AccessTypeOK, Account
        <4>. QED BY <4>1 DEF AuthenticateUser
      <3>2. request'[r].pc \in PCs /\ request'[r].answer \in Answers
        BY <1>b, <2>2, OpenedFields, EntryIsPC
      <3>3. /\ request'[r].roles \subseteq role'
            /\ request'[r].policy = {} /\ request'[r].admins = {} /\ request'[r].known = {}
            /\ request'[r].left = {} /\ request'[r].shown = Shown
        BY <1>0, <2>2, <3>1, OpenedFields
      <3>. QED BY <3>2, <3>3 DEF HandlerOK, Shown
    <2>. QED BY <1>2, <2>1, <2>2, OpenEffect
  <1>3. CASE Fail(r)
    BY <1>1, <1>3, <1>a, <1>b, <1>c, FailEffect
  <1>4. CASE CheckLastAdmin(r)
    BY <1>1, <1>4, <1>a, <1>b, <1>c, CheckEffect
  <1>5. CASE PrepareRoles(r)
    BY <1>1, <1>5, <1>a, <1>b, <1>c, PrepareEffect
  <1>6. CASE Write(r)
    BY <1>1, <1>6, <1>a, <1>b, <1>c, WriteEffect
  <1>7. CASE StartRow(r)
    <2>1. Checked(r) \in PCs
      BY DEF Checked, PCs
    <2>. QED BY <1>1, <1>7, <1>a, <1>b, <1>c, <2>1, StartRowEffect
  <1>8. CASE ReadPolicy(r)
    <2>1. ASSUME NEW p, LET h == request[r]  g == request'[r] IN
                 /\ g.policy = {x \in GetExecCommandPolicyByID(p) : x.active}
                 /\ g.pc = "binding" /\ g.answer = h.answer
                 /\ g.roles = h.roles /\ g.known = h.known /\ g.admins = h.admins
                 /\ g.left = h.left /\ g.shown = h.shown
          PROVE  HandlerOK(r)'
      <3>1. \A x \in GetExecCommandPolicyByID(p) : IsPolicyRow(x)
        BY DEF TablesOK, GetExecCommandPolicyByID
      <3>. QED BY <1>0, <1>a, <2>1, <3>1 DEF HandlerOK
    <2>. QED BY <1>1, <1>8, <1>a, <1>b, <1>c, <2>1, ReadPolicyEffect
  <1>9. CASE ReadBinding(r)
    <2>1. ASSUME LET h == request[r]  g == request'[r] IN
                 /\ g.pc = "insert" /\ g.answer = h.answer
                 /\ g.roles = h.roles /\ g.known = h.known /\ g.admins = h.admins
                 /\ g.left = h.left /\ g.shown = h.shown /\ g.policy = h.policy
          PROVE  HandlerOK(r)'
      BY <1>0, <1>a, <2>1 DEF HandlerOK
    <2>. QED BY <1>1, <1>9, <1>a, <1>b, <1>c, <2>1, ReadBindingEffect
  <1>10. CASE InsertTask(r)
    <2>1. ASSUME LET g == request'[r] IN
                 /\ g.pc \in PCs /\ g.answer \in Answers
                 /\ g.roles = request[r].roles /\ g.policy = {} /\ g.known = {}
                 /\ g.left = {} /\ g.shown = Shown /\ g.admins = {}
          PROVE  HandlerOK(r)'
      BY <1>0, <2>1 DEF HandlerOK, Shown
    <2>. QED BY <1>1, <1>10, <1>a, <1>b, <1>c, <2>1, InsertTaskEffect
  <1>11. CASE Read(r)
    <2> DEFINE h == request[r]  g == request'[r]  table == Head(h.todo)
    <2>1. g.pc \in PCs /\ g.answer \in Answers
      BY <1>11, <1>a, <1>b, <1>c, ReadEffect
    <2>2. "policies" \in DOMAIN g.shown
      BY <1>11, ReadEffect DEF HandlerOK
    <2>3. Kind(r, {"export"}) => \A x \in g.shown.policies : IsPolicyRow(x)
      <3>1. CASE table # "policies"
        <4>1. g.shown.policies = h.shown.policies
          BY <1>11, <3>1, ReadEffect DEF HandlerOK
        <4>. QED BY <4>1 DEF HandlerOK
      <3>2. CASE table = "policies" /\ Kind(r, {"export"})
        <4>1. g.shown.policies = Visible(r, "policies")
          BY <1>11, <3>2, ReadEffect DEF HandlerOK
        <4>2. Visible(r, "policies") = policies
          BY <3>2 DEF Visible, Kind
        <4>. QED BY <4>1, <4>2 DEF TablesOK
      <3>. QED BY <3>1, <3>2
    <2>4. /\ g.roles = h.roles /\ g.policy = h.policy /\ g.known = h.known /\ g.left = h.left
          /\ g.admins = h.admins
      BY <1>11, ReadEffect
    <2>. QED BY <1>0, <2>1, <2>2, <2>3, <2>4 DEF HandlerOK
  <1>12. CASE Detail(r)
    BY <1>1, <1>12, <1>a, <1>c, DetailEffect
  <1>13. CASE ListAgents(r)
    <2>1. /\ \A item \in request'[r].left : IsPolicyRow(item.policy)
          /\ request'[r].known \subseteq Agents
      BY <1>13, ListAgentsEffect DEF TablesOK
    <2>. QED BY <1>0, <1>13, <1>a, <2>1, ListAgentsEffect DEF HandlerOK
  <1>14. CASE ImportPolicy(r)
    <2>0. Form(r).valid /\ Kind(r, {"import"})
      BY <1>14 DEF ImportPolicy, AtPC, Place
    <2>1. ASSUME NEW item \in request[r].left
          PROVE  IsPolicyRow(Renamed(r, item))
      <3>1. IsPolicyRow(item.policy)
        BY DEF HandlerOK
      <3>2. Form(r).ids[item.policy.name] \in Policies
        BY <2>0, <3>1, FormOK DEF IsForm, IsPolicyRow, Kind
      <3>. QED BY <3>1, <3>2 DEF Renamed, IsPolicyRow
    <2>2. \A x \in request'[r].policy : IsPolicyRow(x)
      BY <1>14, <2>1, ImportPolicyEffect DEF HandlerOK
    <2>. QED BY <1>0, <1>14, <2>2, ImportPolicyEffect DEF HandlerOK
  <1>15. CASE ImportBinding(r)
    BY <1>1, <1>15, <1>c, ImportBindingEffect
  <1>16. CASE ImportEnds(r)
    BY <1>1, <1>16, <1>a, <1>c, ImportEndsEffect
  <1>. QED BY <1>2, <1>3, <1>4, <1>5, <1>6, <1>7, <1>8, <1>9, <1>10, <1>11, <1>12, <1>13, <1>14, <1>15,
              <1>16 DEF Act, Write

LEMMA PlaceKept ==
  ASSUME Handlers, NEW r \in Requests, Place(r), Act(r)
  PROVE  Place(r)'
  <1>0. Form(r)' = Form(r)
    BY Frame DEF Form
  <1> DEFINE At(pc) == request'[r].pc = pc
  <1>1. ASSUME At("over") \/ At("reads")
        PROVE  Place(r)'
    BY <1>0, <1>1 DEF Place, InLoop, Kind, AtPC
  <1>2. ASSUME At("agent") \/ At("policy") \/ At("binding") \/ At("insert"), InLoop(r)
        PROVE  Place(r)'
    BY <1>0, <1>2 DEF Place, InLoop, Kind, AtPC
  <1>3. ASSUME At("agents") \/ At("import") \/ At("ensure"), request[r].pc \in {"agents", "import"}
        PROVE  Place(r)'
    BY <1>0, <1>3 DEF Place, InLoop, Kind, AtPC
  <1>4. CASE Open(r)
    <2>1. CASE At("over")
      BY <1>1, <2>1
    <2>2. ASSUME NEW roles, request'[r] = Opened(Form(r), roles),
                 Form(r).valid \/ Form(r).kind \in {"task", "import"}
          PROVE  Place(r)'
      <3>1. At(Entry(Form(r)))
        BY <2>2, OpenedFields
      <3>2. Entry(Form(r)) \in PCs \ {"new", "policy", "binding", "insert", "import", "over"}
        BY EntryIsPC
      <3>3. CASE Form(r).kind = "task"
        <4>1. (At("agent") /\ Form(r).valid) \/ At("reads")
          BY <3>1, <3>3, EntryIsPC, FormOK DEF IsForm
        <4>. QED BY <1>0, <1>1, <3>3, <4>1 DEF Place, InLoop, Kind, AtPC
      <3>4. CASE Form(r).kind # "task"
        <4>1. /\ ~ At("agent")
              /\ At("agents") => Form(r).kind = "import" /\ Form(r).valid
              /\ At("check") => Form(r).kind \in {"status", "roles"}
              /\ At("ensure") => Form(r).kind \in {"roles", "access", "import"}
              /\ At("write") => Form(r).kind # "import"
          BY <3>1, <3>4, EntryIsPC
        <4>. QED BY <1>0, <2>2, <3>1, <3>2, <3>4, <4>1 DEF Place, InLoop, Kind, AtPC
      <3>. QED BY <3>3, <3>4
    <2>. QED BY <1>4, <2>1, <2>2, OpenEffect
  <1>5. CASE Fail(r)
    BY <1>1, <1>5, FailEffect
  <1>6. CASE CheckLastAdmin(r)
    <2>1. /\ At("over") \/ At(IF Kind(r, {"roles"}) THEN "ensure" ELSE "write")
          /\ Form(r).valid
      BY <1>6, CheckEffect DEF CheckLastAdmin, Place, AtPC
    <2>2. Form(r).kind \in {"status", "roles"}
      BY <1>6 DEF CheckLastAdmin, Place, AtPC, Kind
    <2>. QED BY <1>0, <1>1, <2>1, <2>2 DEF Place, InLoop, Kind, AtPC
  <1>7. CASE PrepareRoles(r)
    <2>1. CASE Kind(r, {"roles"})
      <3>1. At("write") /\ Form(r).valid
        BY <1>7, <2>1, PrepareEffect DEF PrepareRoles, Place, AtPC
      <3>. QED BY <1>0, <2>1, <3>1 DEF Place, InLoop, Kind, AtPC
    <2>. QED BY <1>1, <1>7, <2>1, PrepareEffect
  <1>8. CASE Write(r)
    BY <1>1, <1>8, WriteEffect
  <1>9. CASE StartRow(r)
    <2>1. InLoop(r) /\ Checked(r) \in {"policy", "insert"}
      BY <1>9 DEF StartRow, InLoop, AtPC, Checked
    <2>. QED BY <1>1, <1>2, <1>9, <2>1, StartRowEffect
  <1>10. CASE ReadPolicy(r)
    <2>1. InLoop(r)
      BY <1>10 DEF ReadPolicy, InLoop, AtPC
    <2>. QED BY <1>1, <1>2, <1>10, <2>1, ReadPolicyEffect
  <1>11. CASE ReadBinding(r)
    <2>1. InLoop(r)
      BY <1>11 DEF ReadBinding, InLoop, AtPC
    <2>. QED BY <1>1, <1>2, <1>11, <2>1, ReadBindingEffect
  <1>12. CASE InsertTask(r)
    <2>1. InLoop(r)
      BY <1>12 DEF InsertTask, InLoop, AtPC
    <2>. QED BY <1>1, <1>2, <1>12, <2>1, InsertTaskEffect
  <1>13. CASE Read(r) \/ Detail(r)
    BY <1>1, <1>13, ReadEffect, DetailEffect
  <1>14. CASE ListAgents(r) \/ ImportEnds(r)
    BY <1>3, <1>14, ListAgentsEffect, ImportEndsEffect DEF ListAgents, ImportEnds, AtPC
  <1>15. CASE ImportPolicy(r) \/ ImportBinding(r)
    BY <1>3, <1>15, ImportPolicyEffect, ImportBindingEffect DEF ImportPolicy, ImportBinding, AtPC
  <1>. QED BY <1>4, <1>5, <1>6, <1>7, <1>8, <1>9, <1>10, <1>11, <1>12, <1>13, <1>14, <1>15 DEF Act, Write

-----------------------------------------------------------------------------
(* Administrators. *)

LEMMA AdminsFinite == IsFiniteSet(ActiveAdmins)
  <1>1. ActiveAdmins \in SUBSET Users
    BY DEF ActiveAdmins
  <1>. QED BY <1>1, AccountsAssumption, FS_Subset

\* Another administrator than the one a check asks about.
LEMMA AnotherAdmin ==
  ASSUME NEW u, ~ IsLastActiveAdmin(u), ActiveAdmins # {}
  PROVE  ActiveAdmins \ {u} # {}
  <1>1. CASE u \notin ActiveAdmins
    BY <1>1
  <1>2. CASE u \in ActiveAdmins
    <2>1. ~ (Cardinality(ActiveAdmins) <= 1)
      BY <1>2 DEF IsLastActiveAdmin
    <2>3. Cardinality(ActiveAdmins) \in Nat
      BY AdminsFinite, FS_CardinalityType
    <2>2. Cardinality(ActiveAdmins \ {u}) = Cardinality(ActiveAdmins) - 1
      BY <1>2, AdminsFinite, FS_RemoveElement
    <2>. QED BY <2>1, <2>2, <2>3, FS_EmptySet
  <1>. QED BY <1>1, <1>2

\* A check that lets a request go on has seen another administrator; nothing it does before
\* its write changes that.
LEMMA SawAnotherKept ==
  ASSUME Handlers, AdministratorRemains, NEW r \in Requests, Place(r), SawAnother(r), Act(r)
  PROVE  SawAnother(r)'
  <1>0. Form(r)' = Form(r) /\ (raced => raced') /\ (Demotes(r)' <=> Demotes(r))
    BY Frame DEF Form, Demotes, Kind
  <1>1. CASE request'[r].pc \notin {"write", "ensure"}
    BY <1>1 DEF SawAnother
  <1>2. CASE request[r].pc \in {"write", "ensure"} /\ request'[r].admins = request[r].admins
    BY <1>0, <1>2 DEF SawAnother
  <1>3. CASE Kind(r, {"import", "task", "detail", "access", "delete_agent"})
    BY <1>0, <1>3 DEF SawAnother, Demotes, Kind
  <1>4. CASE Open(r)
    <2>1. ASSUME NEW roles, request'[r] = Opened(Form(r), roles)
          PROVE  SawAnother(r)'
      <3>1. request'[r].pc = Entry(Form(r))
        BY <2>1, OpenedFields
      <3>2. request'[r].pc \in {"write", "ensure"} => ~ Demotes(r)
        BY <3>1, EntryIsPC DEF Demotes, Kind
      <3>. QED BY <1>0, <3>2 DEF SawAnother
    <2>. QED BY <1>1, <1>4, <2>1, OpenEffect
  <1>5. CASE CheckLastAdmin(r)
    <2>1. CASE ~ IsLastActiveAdmin(Form(r).user) /\ request'[r].admins = ActiveAdmins
      BY <1>0, <2>1, AnotherAdmin DEF SawAnother, AdministratorRemains
    <2>. QED BY <1>1, <1>5, <2>1, CheckEffect
  <1>6. CASE PrepareRoles(r)
    BY <1>2, <1>6, PrepareEffect DEF PrepareRoles, AtPC
  <1>7. CASE Fail(r) \/ Write(r) \/ Detail(r)
    BY <1>1, <1>7, FailEffect, WriteEffect, DetailEffect
  <1>8. CASE Read(r)
    BY <1>1, <1>8, ReadEffect
  <1>9. CASE StartRow(r) \/ ReadPolicy(r) \/ ReadBinding(r) \/ InsertTask(r)
    BY <1>3, <1>9 DEF StartRow, ReadPolicy, ReadBinding, InsertTask, Place, InLoop, AtPC, Kind
  <1>10. CASE ListAgents(r) \/ ImportPolicy(r) \/ ImportBinding(r) \/ ImportEnds(r)
    BY <1>3, <1>10 DEF ListAgents, ImportPolicy, ImportBinding, ImportEnds, Place, AtPC, Kind
  <1>. QED BY <1>4, <1>5, <1>6, <1>7, <1>8, <1>9, <1>10 DEF Act, Write

\* What a step may do to the table of users.
LEMMA AdministratorKept ==
  ASSUME Handlers, TablesOK, AdministratorRemains, NEW r \in Requests, Place(r), SawAnother(r), Act(r)
  PROVE  AdministratorRemains'
  <1>0. DOMAIN user = Users /\ (\A u \in Users : DOMAIN user[u] = {"exists", "active", "password", "roles"})
        /\ AdminRoles \subseteq role
    BY DEF TablesOK, AccessTypeOK, Account, DefaultManagedRoles
  <1>1. CASE UNCHANGED user
    BY <1>1, Frame DEF AdministratorRemains, ActiveAdmins
  <1>2. ASSUME NEW u \in Users, \A v \in Users \ {u} : user'[v] = user[v],
               u \in ActiveAdmins => u \in ActiveAdmins'
        PROVE  AdministratorRemains'
    BY <1>2, Frame DEF AdministratorRemains, ActiveAdmins
  <1>3. ASSUME NEW u \in Users, \A v \in Users \ {u} : user'[v] = user[v],
               raced' = (raced \/ request[r].admins # ActiveAdmins),
               request[r].admins \ {u} # {} \/ raced
        PROVE  AdministratorRemains'
    BY <1>3 DEF AdministratorRemains, ActiveAdmins
  <1>4. CASE WriteStatus(r)
    <2> DEFINE u == Form(r).user
    <2>1. u \in Users /\ Form(r).active \in BOOLEAN
      BY <1>4, FormOK DEF WriteStatus, Place, AtPC, Kind, IsForm
    <2>2. CASE ~ user[u].exists
      BY <1>1, <1>4, <2>2 DEF WriteStatus, UpdateUserStatus
    <2>3. CASE user[u].exists
      <3>1. user' = [user EXCEPT ![u].active = Form(r).active]
        BY <1>4, <2>3 DEF WriteStatus, UpdateUserStatus
      <3>2. \A v \in Users \ {u} : user'[v] = user[v]
        BY <1>0, <3>1
      <3>3. CASE Form(r).active
        <4>1. user'[u] = [user[u] EXCEPT !.active = TRUE]
          BY <1>0, <2>1, <3>1, <3>3
        <4>2. u \in ActiveAdmins => u \in ActiveAdmins'
          BY <1>0, <2>1, <4>1 DEF ActiveAdmins
        <4>. QED BY <1>2, <2>1, <3>2, <4>2
      <3>4. CASE ~ Form(r).active
        <4>1. raced' = (raced \/ request[r].admins # ActiveAdmins)
          BY <1>4, <3>4 DEF WriteStatus, NoteRace
        <4>2. request[r].admins \ {u} # {} \/ raced
          BY <1>4, <3>4 DEF WriteStatus, SawAnother, AtPC, Demotes
        <4>. QED BY <1>3, <2>1, <3>2, <4>1, <4>2
      <3>. QED BY <2>1, <3>3, <3>4
    <2>. QED BY <2>2, <2>3
  <1>5. CASE WriteRoles(r)
    <2> DEFINE u == Form(r).user  names == Form(r).roles
    <2>1. u \in Users
      BY <1>5, FormOK DEF WriteRoles, Place, AtPC, Kind, IsForm
    <2>2. CASE ~ CanSetUserRoles(u)
      BY <1>1, <1>5, <2>2 DEF WriteRoles
    <2>3. CASE CanSetUserRoles(u)
      <3>1. user' = [user EXCEPT ![u].roles = names \cap role] /\ NoteRace(r, ~ IsAdmin(names))
        BY <1>5, <2>3 DEF WriteRoles, SetUserRoles
      <3>2. \A v \in Users \ {u} : user'[v] = user[v]
        BY <1>0, <3>1
      <3>3. CASE IsAdmin(names)
        <4>1. user'[u] = [user[u] EXCEPT !.roles = names \cap role]
          BY <1>0, <2>1, <3>1
        <4>2. u \in ActiveAdmins => u \in ActiveAdmins'
          BY <1>0, <2>1, <3>3, <4>1 DEF ActiveAdmins, IsAdmin
        <4>. QED BY <1>2, <2>1, <3>2, <4>2
      <3>4. CASE ~ IsAdmin(names)
        <4>1. raced' = (raced \/ request[r].admins # ActiveAdmins)
          BY <3>1, <3>4 DEF NoteRace
        <4>2. request[r].admins \ {u} # {} \/ raced
          BY <1>5, <3>4 DEF WriteRoles, SawAnother, AtPC, Demotes
        <4>. QED BY <1>3, <2>1, <3>2, <4>1, <4>2
      <3>. QED BY <3>3, <3>4
    <2>. QED BY <2>2, <2>3
  <1>6. CASE WriteUser(r)
    <2> DEFINE u == Form(r).user
    <2>1. u \in Users
      BY <1>6, FormOK DEF WriteUser, Place, AtPC, Kind, IsForm
    <2>2. \/ UNCHANGED user
          \/ user' = [user EXCEPT ![u].password = Form(r).password]
          \/ ~ user[u].exists /\ user' = [user EXCEPT ![u] = NewAccount(Form(r).password)]
      BY <1>6 DEF WriteUser, UpdateUserPassword, CanCreateUser, CreateUser
    <2>3. CASE user' = [user EXCEPT ![u].password = Form(r).password]
      <3>1. \A v \in Users \ {u} : user'[v] = user[v]
        BY <1>0, <2>3
      <3>2. user'[u] = [user[u] EXCEPT !.password = Form(r).password]
        BY <1>0, <2>1, <2>3
      <3>3. u \in ActiveAdmins => u \in ActiveAdmins'
        BY <1>0, <2>1, <3>2 DEF ActiveAdmins
      <3>. QED BY <1>2, <2>1, <3>1, <3>3
    <2>4. CASE ~ user[u].exists /\ user' = [user EXCEPT ![u] = NewAccount(Form(r).password)]
      <3>1. \A v \in Users \ {u} : user'[v] = user[v]
        BY <1>0, <2>4
      <3>2. u \notin ActiveAdmins
        BY <2>4 DEF ActiveAdmins
      <3>. QED BY <1>2, <2>1, <3>1, <3>2
    <2>. QED BY <1>1, <2>2, <2>3, <2>4
  <1>7. CASE PrepareRoles(r) \/ WritePolicy(r) \/ WriteBinding(r) \/ RemoveAgent(r)
    BY <1>1, <1>7 DEF PrepareRoles, WritePolicy, WriteBinding, RemoveAgent, accessVars
  <1>8. CASE \/ Open(r) \/ Fail(r) \/ CheckLastAdmin(r) \/ StartRow(r) \/ ReadPolicy(r)
             \/ ReadBinding(r) \/ InsertTask(r) \/ Read(r) \/ Detail(r) \/ ListAgents(r)
             \/ ImportPolicy(r) \/ ImportBinding(r) \/ ImportEnds(r)
    BY <1>1, <1>8 DEF Open, Fail, CheckLastAdmin, StartRow, ReadPolicy, ReadBinding, InsertTask,
                      Read, Detail, ListAgents, ImportPolicy, ImportBinding, ImportEnds, accessVars
  <1>. QED BY <1>4, <1>5, <1>6, <1>7, <1>8 DEF Act

-----------------------------------------------------------------------------
(* The tables. *)

LEMMA AccessKept ==
  ASSUME Handlers, TablesOK, NEW r \in Requests, Place(r), Act(r)
  PROVE  AccessTypeOK'
  <1>1. role \subseteq role' /\ DefaultManagedRoles \subseteq role /\ user \in [Users -> Account]
    BY Frame DEF TablesOK, AccessTypeOK
  <1>2. user \in [Users -> Account']
    <2>1. \A a \in Account : a \in Account'
      BY <1>1 DEF Account
    <2>. QED BY <1>1, <2>1
  <1>3. CASE UNCHANGED user
    BY <1>1, <1>2, <1>3 DEF AccessTypeOK
  <1>4. ASSUME NEW u \in Users, NEW a \in Account', user' = [user EXCEPT ![u] = a]
        PROVE  AccessTypeOK'
    <2>1. user' \in [Users -> Account']
      BY <1>2, <1>4
    <2>. QED BY <1>1, <2>1 DEF AccessTypeOK
  <1>5. CASE WriteStatus(r)
    <2> DEFINE u == Form(r).user
    <2>1. u \in Users /\ Form(r).active \in BOOLEAN
      BY <1>5, FormOK DEF WriteStatus, Place, AtPC, Kind, IsForm
    <2>2. [user[u] EXCEPT !.active = Form(r).active] \in Account'
      <3>1. user[u] \in Account'
        BY <1>2, <2>1
      <3>. QED BY <2>1, <3>1 DEF Account
    <2>3. user' = [user EXCEPT ![u] = [user[u] EXCEPT !.active = Form(r).active]] \/ UNCHANGED user
      BY <1>1, <1>5, <2>1 DEF WriteStatus, UpdateUserStatus
    <2>. QED BY <1>3, <1>4, <2>1, <2>2, <2>3
  <1>6. CASE WriteRoles(r)
    <2> DEFINE u == Form(r).user
    <2>1. u \in Users
      BY <1>6, FormOK DEF WriteRoles, Place, AtPC, Kind, IsForm
    <2>2. [user[u] EXCEPT !.roles = Form(r).roles \cap role] \in Account'
      <3>1. user[u] \in Account' /\ Form(r).roles \cap role \in SUBSET role'
        BY <1>1, <1>2, <2>1
      <3>. QED BY <3>1 DEF Account
    <2>3. user' = [user EXCEPT ![u] = [user[u] EXCEPT !.roles = Form(r).roles \cap role]] \/ UNCHANGED user
      BY <1>1, <1>6, <2>1 DEF WriteRoles, SetUserRoles
    <2>. QED BY <1>3, <1>4, <2>1, <2>2, <2>3
  <1>7. CASE WriteUser(r)
    <2> DEFINE u == Form(r).user  p == Form(r).password
    <2>1. u \in Users /\ p \in Passwords
      BY <1>7, FormOK DEF WriteUser, Place, AtPC, Kind, IsForm
    <2>2. [user[u] EXCEPT !.password = p] \in Account'
      <3>1. user[u] \in Account'
        BY <1>2, <2>1
      <3>. QED BY <2>1, <3>1 DEF Account
    <2>3. NewAccount(p) \in Account'
      BY <2>1 DEF Account, NewAccount
    <2>4. \/ UNCHANGED user
          \/ user' = [user EXCEPT ![u] = [user[u] EXCEPT !.password = p]]
          \/ user' = [user EXCEPT ![u] = NewAccount(p)]
      BY <1>1, <1>7, <2>1 DEF WriteUser, UpdateUserPassword, CreateUser
    <2>. QED BY <1>3, <1>4, <2>1, <2>2, <2>3, <2>4
  <1>8. CASE PrepareRoles(r) \/ WritePolicy(r) \/ WriteBinding(r) \/ RemoveAgent(r)
    BY <1>3, <1>8 DEF PrepareRoles, WritePolicy, WriteBinding, RemoveAgent, accessVars
  <1>9. CASE \/ Open(r) \/ Fail(r) \/ CheckLastAdmin(r) \/ StartRow(r) \/ ReadPolicy(r)
             \/ ReadBinding(r) \/ InsertTask(r) \/ Read(r) \/ Detail(r) \/ ListAgents(r)
             \/ ImportPolicy(r) \/ ImportBinding(r) \/ ImportEnds(r)
    BY <1>3, <1>9 DEF Open, Fail, CheckLastAdmin, StartRow, ReadPolicy, ReadBinding, InsertTask,
                      Read, Detail, ListAgents, ImportPolicy, ImportBinding, ImportEnds, accessVars
  <1>. QED BY <1>5, <1>6, <1>7, <1>8, <1>9 DEF Act

\* The steps that write the tables of policies, bindings and agents.
WritesPolicies(r) ==
  WritePolicy(r) \/ WriteBinding(r) \/ RemoveAgent(r) \/ ImportPolicy(r) \/ ImportBinding(r)

LEMMA PolicyWriters ==
  ASSUME NEW r, Act(r)
  PROVE  /\ UNCHANGED policyVars \/ WritesPolicies(r)
         /\ \/ UNCHANGED tasks \/ InsertTask(r)
            \/ (WritePolicy(r) \/ WriteBinding(r) \/ RemoveAgent(r)) /\ tasks' = {Detach(t) : t \in tasks}
  <1>1. CASE WritesPolicies(r)
    BY <1>1 DEF WritesPolicies, WritePolicy, WriteBinding, RemoveAgent, ImportPolicy, ImportBinding
  <1>2. CASE WriteStatus(r) \/ PrepareRoles(r) \/ WriteRoles(r) \/ WriteUser(r) \/ InsertTask(r)
    BY <1>2 DEF WriteStatus, PrepareRoles, WriteRoles, WriteUser, InsertTask
  <1>3. CASE \/ Open(r) \/ Fail(r) \/ CheckLastAdmin(r) \/ StartRow(r) \/ ReadPolicy(r)
             \/ ReadBinding(r) \/ Read(r) \/ Detail(r) \/ ListAgents(r) \/ ImportEnds(r)
    BY <1>3 DEF Open, Fail, CheckLastAdmin, StartRow, ReadPolicy, ReadBinding,
                Read, Detail, ListAgents, ImportEnds
  <1>. QED BY <1>1, <1>2, <1>3 DEF Act, WritesPolicies

LEMMA RenamedOK ==
  ASSUME Handlers, NEW r \in Requests, HandlerOK(r), Place(r), AtPC(r, "import"),
         NEW item \in request[r].left
  PROVE  IsPolicyRow(Renamed(r, item))
  <1>1. Form(r).valid /\ Kind(r, {"import"}) /\ IsPolicyRow(item.policy)
    BY DEF AtPC, Place, HandlerOK
  <1>2. Form(r).ids[item.policy.name] \in Policies
    BY <1>1, FormOK DEF IsForm, IsPolicyRow, Kind
  <1>. QED BY <1>1, <1>2 DEF Renamed, IsPolicyRow

LEMMA ImportedBindingOK ==
  ASSUME Handlers, NEW r \in Requests, HandlerOK(r), NEW b, NEW policy \in request[r].policy,
         NEW a \in Matches(r, b)
  PROVE  /\ a \in Agents /\ IsBindingRow(BindingRow(r, policy, b, a))
         /\ BindingRow(r, policy, b, a).id = <<r, policy.id, a>>
         /\ BindingRow(r, policy, b, a).policy = policy.id
         /\ BindingRow(r, policy, b, a).agent = a
  <1>1. a \in Agents
    BY DEF Matches, HandlerOK
  <1>2. policy.id \in Policies
    BY DEF HandlerOK, IsPolicyRow
  <1>. QED BY <1>1, <1>2 DEF BindingRow, IsBindingRow

LEMMA PoliciesKept ==
  ASSUME Handlers, TablesOK, NEW r \in Requests, HandlerOK(r), Place(r), Act(r)
  PROVE  (\A x \in policies : IsPolicyRow(x))' /\ (agents \subseteq Agents)'
  <1>0. (\A x \in policies : IsPolicyRow(x)) /\ agents \subseteq Agents
    BY DEF TablesOK
  <1>1. CASE UNCHANGED <<agents, policies>>
    BY <1>0, <1>1
  <1>2. CASE WritePolicy(r)
    <2> DEFINE row == Form(r).row
    <2>1. UNCHANGED agents
      BY <1>2 DEF WritePolicy, CreateExecCommandPolicy, UpdateExecCommandPolicy,
                  DeleteExecCommandPolicy, policyVars
    <2>2. Kind(r, {"policy", "policy_update"}) => IsPolicyRow(row)
      BY <1>2, FormOK DEF WritePolicy, Place, AtPC, Kind, IsForm
    <2>3. \/ policies' \subseteq policies
          \/ policies' = policies \cup {row} /\ Kind(r, {"policy", "policy_update"})
          \/ /\ policies' = {IF y.id = row.id THEN row ELSE y : y \in policies}
             /\ Kind(r, {"policy", "policy_update"})
      BY <1>2 DEF WritePolicy, CreateExecCommandPolicy, UpdateExecCommandPolicy,
                  DeleteExecCommandPolicy, policyVars, Kind
    <2> HIDE DEF row
    <2>. QED BY <1>0, <2>1, <2>2, <2>3
  <1>3. CASE WriteBinding(r)
    BY <1>1, <1>3 DEF WriteBinding, CreateExecCommandPolicyBinding, UpdateExecCommandPolicyBinding,
                      DeleteExecCommandPolicyBinding, policyVars
  <1>4. CASE RemoveAgent(r)
    BY <1>0, <1>4 DEF RemoveAgent, DeleteAgent
  <1>5. CASE ImportPolicy(r)
    <2>1. PICK item \in request[r].left :
             CreateExecCommandPolicy(Renamed(r, item)) \/ UNCHANGED policyVars
      BY <1>5, ImportPolicyEffect
    <2>2. IsPolicyRow(Renamed(r, item))
      BY <1>5, RenamedOK DEF ImportPolicy
    <2>. QED BY <1>0, <2>1, <2>2 DEF CreateExecCommandPolicy, policyVars
  <1>6. CASE ImportBinding(r)
    BY <1>1, <1>6, ImportBindingEffect DEF CreateExecCommandPolicyBinding, policyVars
  <1>. QED BY <1>1, <1>2, <1>3, <1>4, <1>5, <1>6, PolicyWriters DEF WritesPolicies, policyVars

\* What may become of the bindings: some go, one is overwritten, one is new.
LEMMA BindingChanges ==
  ASSUME Handlers, TablesOK, NEW r \in Requests, HandlerOK(r), Place(r), Act(r)
  PROVE  \A b \in bindings' :
           \/ b \in bindings
           \/ /\ IsBindingRow(b) /\ UNCHANGED <<agents, policies>>
              /\ \E c \in bindings : b.id = c.id /\ b.policy = c.policy /\ b.agent = c.agent
           \/ /\ IsBindingRow(b) /\ UNCHANGED <<agents, policies>>
              /\ CanCreateExecCommandPolicyBinding(b)
              /\ \/ Kind(r, {"binding"}) /\ Form(r).valid /\ b = Form(r).row
                 \/ \E a \in Agents : b.id = <<r, b.policy, a>>
  <1>0. \A b \in bindings : IsBindingRow(b)
    BY DEF TablesOK
  <1> DEFINE Fine(b) ==
        \/ b \in bindings
        \/ /\ IsBindingRow(b) /\ UNCHANGED <<agents, policies>>
           /\ \E c \in bindings : b.id = c.id /\ b.policy = c.policy /\ b.agent = c.agent
        \/ /\ IsBindingRow(b) /\ UNCHANGED <<agents, policies>>
           /\ CanCreateExecCommandPolicyBinding(b)
           /\ \/ Kind(r, {"binding"}) /\ Form(r).valid /\ b = Form(r).row
              \/ \E a \in Agents : b.id = <<r, b.policy, a>>
  <1>1. CASE bindings' \subseteq bindings
    BY <1>1
  <1>2. ASSUME NEW row, IsBindingRow(row), CanCreateExecCommandPolicyBinding(row),
               CreateExecCommandPolicyBinding(row),
               \/ Kind(r, {"binding"}) /\ Form(r).valid /\ row = Form(r).row
               \/ \E a \in Agents : row.id = <<r, row.policy, a>>
        PROVE  \A b \in bindings' : Fine(b)
    <2> DEFINE same == {c \in bindings : c.policy = row.policy /\ c.agent = row.agent}
    <2>1. UNCHANGED <<agents, policies>>
      BY <1>2 DEF CreateExecCommandPolicyBinding
    <2>2. SUFFICES ASSUME NEW b \in bindings', b \notin bindings
                   PROVE  Fine(b)
      OBVIOUS
    <2>3. b = row \/ \E c \in same : b = [row EXCEPT !.id = c.id]
      BY <1>2, <2>2 DEF CreateExecCommandPolicyBinding
    <2>4. CASE b = row
      BY <1>2, <2>1, <2>4
    <2>5. ASSUME NEW c \in same, b = [row EXCEPT !.id = c.id]
          PROVE  Fine(b)
      <3>1. b.id = c.id /\ b.policy = row.policy /\ b.agent = row.agent /\ IsBindingRow(b)
        BY <1>2, <2>5 DEF IsBindingRow
      <3>. QED BY <2>1, <2>5, <3>1
    <2>. QED BY <2>3, <2>4, <2>5
  <1>3. CASE WriteBinding(r)
    <2> DEFINE row == Form(r).row
    <2>1. Form(r).valid /\ (Kind(r, {"binding", "binding_update"}) => IsBindingRow(row))
      BY <1>3, FormOK DEF WriteBinding, Place, AtPC, Kind, IsForm
    <2>2. CASE /\ Kind(r, {"binding"}) /\ CanCreateExecCommandPolicyBinding(row)
               /\ CreateExecCommandPolicyBinding(row)
      BY <1>2, <2>1, <2>2 DEF Kind
    <2>3. CASE Kind(r, {"binding_update"}) /\ UpdateExecCommandPolicyBinding(row.id, row)
      <3>1. UNCHANGED <<agents, policies>>
        BY <2>3 DEF UpdateExecCommandPolicyBinding
      <3>2. SUFFICES ASSUME NEW b \in bindings', b \notin bindings
                     PROVE  Fine(b)
        OBVIOUS
      <3>3. PICK c \in bindings : /\ c.id = row.id
                                  /\ b = [row EXCEPT !.id = row.id, !.policy = c.policy, !.agent = c.agent]
        BY <2>3, <3>2 DEF UpdateExecCommandPolicyBinding
      <3>4. DOMAIN row = {"id", "policy", "agent", "command", "args", "values", "active"}
        BY <2>1, <2>3 DEF IsBindingRow, Kind
      <3>5. b.id = c.id /\ b.policy = c.policy /\ b.agent = c.agent /\ DOMAIN b = DOMAIN row
        BY <3>3, <3>4
      <3>6. IsBindingRow(b)
        BY <1>0, <3>4, <3>5 DEF IsBindingRow
      <3>. QED BY <3>1, <3>5, <3>6
    <2>4. \/ bindings' \subseteq bindings
          \/ /\ Kind(r, {"binding"}) /\ CanCreateExecCommandPolicyBinding(row)
             /\ CreateExecCommandPolicyBinding(row)
          \/ Kind(r, {"binding_update"}) /\ UpdateExecCommandPolicyBinding(row.id, row)
      BY <1>3 DEF WriteBinding, DeleteExecCommandPolicyBinding, policyVars
    <2>. QED BY <1>1, <2>2, <2>3, <2>4
  <1>4. CASE WritePolicy(r) \/ RemoveAgent(r)
    BY <1>1, <1>4 DEF WritePolicy, RemoveAgent, CreateExecCommandPolicy, UpdateExecCommandPolicy,
                      DeleteExecCommandPolicy, DeleteAgent, policyVars
  <1>5. CASE ImportPolicy(r)
    BY <1>1, <1>5, ImportPolicyEffect DEF CreateExecCommandPolicy, policyVars
  <1>6. CASE ImportBinding(r)
    <2>1. CASE UNCHANGED policyVars
      BY <1>1, <2>1 DEF policyVars
    <2>2. ASSUME NEW b \in request[r].cur, NEW policy \in request[r].policy, NEW a \in Matches(r, b),
                 CanCreateExecCommandPolicyBinding(BindingRow(r, policy, b, a)),
                 CreateExecCommandPolicyBinding(BindingRow(r, policy, b, a))
          PROVE  \A c \in bindings' : Fine(c)
      <3> DEFINE row == BindingRow(r, policy, b, a)
      <3>1. IsBindingRow(row) /\ a \in Agents /\ row.id = <<r, row.policy, a>>
        BY ImportedBindingOK
      <3>2. CanCreateExecCommandPolicyBinding(row) /\ CreateExecCommandPolicyBinding(row)
        BY <2>2
      <3> HIDE DEF row
      <3>. QED BY <1>2, <3>1, <3>2
    <2>. QED BY <1>6, <2>1, <2>2, ImportBindingEffect
  <1>. QED BY <1>1, <1>3, <1>4, <1>5, <1>6, PolicyWriters DEF WritesPolicies, policyVars

TaskFields == {"id", "agent", "type", "policy", "binding", "files"}

\* A task keeps all but what has been deleted.
LEMMA Detached ==
  ASSUME NEW t, DOMAIN t = TaskFields
  PROVE  /\ DOMAIN Detach(t) = TaskFields
         /\ Detach(t).id = t.id /\ Detach(t).type = t.type /\ Detach(t).files = t.files
         /\ Detach(t).agent = IF t.agent \in agents' THEN t.agent ELSE NoAgent
         /\ Detach(t).policy = {p \in t.policy : \E x \in policies' : x.id = p}
         /\ Detach(t).binding = {i \in t.binding : \E b \in bindings' : b.id = i}
  BY DEF Detach, TaskFields

LEMMA TaskRowsKept ==
  ASSUME Handlers, TablesOK, NEW r \in Requests, Place(r), Act(r),
         \A t \in tasks : DOMAIN t = TaskFields
  PROVE  /\ \A t \in tasks' : /\ DOMAIN t = TaskFields
                              /\ t.agent \in Agents \cup {NoAgent} /\ t.type \in TaskTypes
         /\ ~ InsertTask(r) => /\ \A t \in tasks' : \E u \in tasks : t.id = u.id /\ t.files = u.files
                               /\ \A u \in tasks : \E t \in tasks' : t.id = u.id
  <1>1. CASE UNCHANGED tasks
    BY <1>1 DEF TablesOK
  <1>2. CASE tasks' = {Detach(t) : t \in tasks}
    <2>1. ASSUME NEW t \in tasks
          PROVE  /\ DOMAIN Detach(t) = TaskFields
                 /\ Detach(t).agent \in Agents \cup {NoAgent} /\ Detach(t).type \in TaskTypes
                 /\ Detach(t).id = t.id /\ Detach(t).files = t.files
      BY Detached DEF TablesOK
    <2>. QED BY <1>2, <2>1
  <1>3. CASE InsertTask(r)
    <2>1. Form(r).type \in TaskTypes
      BY <1>3, FormOK DEF InsertTask, AtPC, Place, InLoop, Kind, IsForm
    <2>2. ASSUME NEW row, row = [id |-> TaskId(r), agent |-> Target(r), type |-> Form(r).type,
                                 policy |-> {x.id : x \in request[r].policy},
                                 binding |-> {b.id : b \in request[r].binding}, files |-> Form(r).files],
                 CanInsert(row)
          PROVE  DOMAIN row = TaskFields /\ row.agent \in Agents /\ row.type \in TaskTypes
      BY <2>1, <2>2 DEF TaskFields, CanInsert, TablesOK
    <2>3. \/ UNCHANGED tasks
          \/ \E row : /\ tasks' = tasks \cup {row}
                      /\ DOMAIN row = TaskFields /\ row.agent \in Agents /\ row.type \in TaskTypes
      BY <1>3, <2>2, InsertTaskEffect
    <2>. QED BY <1>1, <1>3, <2>3 DEF TablesOK
  <1>. QED BY <1>1, <1>2, <1>3, PolicyWriters

LEMMA TablesKept ==
  ASSUME Handlers, TablesOK, NEW r \in Requests, HandlerOK(r), Place(r), Act(r),
         \A t \in tasks : DOMAIN t = TaskFields
  PROVE  TablesOK'
  <1>1. AccessTypeOK' /\ (\A x \in policies : IsPolicyRow(x))' /\ (agents \subseteq Agents)'
    BY AccessKept, PoliciesKept
  <1>2. (\A b \in bindings : IsBindingRow(b))'
    <2>1. \A b \in bindings : IsBindingRow(b)
      BY DEF TablesOK
    <2>. QED BY <2>1, BindingChanges
  <1>3. (\A item \in file : IsPolicyRow(item.policy))'
    <2>1. CASE UNCHANGED file
      BY <2>1 DEF TablesOK
    <2>2. CASE Read(r) /\ Kind(r, {"export"}) /\ file' = Bundle(request'[r].shown)
      <3>1. \A x \in request'[r].shown.policies : IsPolicyRow(x)
        <4>1. HandlerOK(r)' /\ Kind(r, {"export"})'
          BY <2>2, HandlerKept, Frame DEF Kind, Form
        <4>. QED BY <4>1 DEF HandlerOK
      <3>2. \A item \in file' : item.policy \in request'[r].shown.policies
        BY <2>2 DEF Bundle
      <3>. QED BY <3>1, <3>2
    <2>3. CASE Read(r)
      <3>1. \/ UNCHANGED file
            \/ /\ Kind(r, {"export"})
               /\ file' = Bundle([request[r].shown EXCEPT ![Head(request[r].todo)] =
                                                    Visible(r, Head(request[r].todo))])
        BY <2>3 DEF Read
      <3>2. request'[r].shown = [request[r].shown EXCEPT ![Head(request[r].todo)] =
                                                    Visible(r, Head(request[r].todo))]
        BY <2>3, ReadEffect
      <3>. QED BY <2>1, <2>2, <2>3, <3>1, <3>2
    <2>4. UNCHANGED file \/ Read(r)
      BY DEF Act, Open, Fail, CheckLastAdmin, WriteStatus, PrepareRoles, WriteRoles, WriteUser,
             WritePolicy, WriteBinding, RemoveAgent, StartRow, ReadPolicy, ReadBinding, InsertTask,
             Detail, ListAgents, ImportPolicy, ImportBinding, ImportEnds
    <2>. QED BY <2>1, <2>3, <2>4
  <1>4. (raced \in BOOLEAN)'
    <2>1. UNCHANGED raced \/ WriteStatus(r) \/ WriteRoles(r)
      BY DEF Act, Open, Fail, CheckLastAdmin, PrepareRoles, WriteUser,
             WritePolicy, WriteBinding, RemoveAgent, StartRow, ReadPolicy, ReadBinding, InsertTask,
             Read, Detail, ListAgents, ImportPolicy, ImportBinding, ImportEnds
    <2>2. UNCHANGED raced \/ raced' \in BOOLEAN
      BY <2>1 DEF WriteStatus, WriteRoles, NoteRace
    <2>. QED BY <2>2 DEF TablesOK
  <1>5. (faults \in 0..MaxFaults)'
    <2>1. UNCHANGED faults \/ Fault
      <3>1. CASE Fail(r) \/ StartRow(r) \/ ImportPolicy(r) \/ ImportBinding(r)
        BY <3>1 DEF Fail, StartRow, ImportPolicy, ImportBinding
      <3>. QED
        BY <3>1
        DEF Act, Open, CheckLastAdmin, WriteStatus, PrepareRoles, WriteRoles, WriteUser,
            WritePolicy, WriteBinding, RemoveAgent, ReadPolicy, ReadBinding, InsertTask, Read,
            Detail, ListAgents, ImportEnds
    <2>. QED BY <2>1, RowsAssumption DEF Fault, TablesOK
  <1>6. (\A t \in tasks : t.agent \in Agents \cup {NoAgent} /\ t.type \in TaskTypes)'
    BY TaskRowsKept
  <1>. QED BY <1>1, <1>2, <1>3, <1>4, <1>5, <1>6 DEF TablesOK

-----------------------------------------------------------------------------
(* References between the rows. *)

LEMMA IssuedOnce ==
  ASSUME Handlers, NEW i, NEW p, NEW q, Issued(i, p), Issued(i, q), p \in Policies, q \in Policies
  PROVE  p = q
  <1> DEFINE w == submission
             new == {n \in Requests : w[n].form.kind = "binding" /\ w[n].form.valid}
             rows == FirstBindings \cup {w[n].form.row : n \in new}
  <1>1. \A b, c \in rows : /\ b.id = c.id => b.policy = c.policy
                           /\ b.id \notin Requests \X Policies \X Agents
    BY FormsAssumption DEF Handlers
  <1>2. \A m : Issued(i, m) => \/ \E b \in rows : b.id = i /\ b.policy = m
                               \/ \E n \in Requests, a \in Agents : i = <<n, m, a>>
    BY DEF Issued, Kind, Form
  <1>. QED BY <1>1, <1>2

LEMMA IssuedKept ==
  ASSUME UNCHANGED submission, NEW i, NEW p, Issued(i, p)
  PROVE  Issued(i, p)'
  BY DEF Issued, Kind, Form

LEMMA BindingsIssued ==
  ASSUME Handlers, TablesOK, NEW r \in Requests, HandlerOK(r), Place(r), Act(r),
         \A b \in bindings : Issued(b.id, b.policy)
  PROVE  (\A b \in bindings : Issued(b.id, b.policy))'
  <1>0. UNCHANGED submission
    BY Frame
  <1>1. ASSUME NEW b \in bindings'
        PROVE  Issued(b.id, b.policy)
    BY BindingChanges DEF Issued
  <1>. QED BY <1>0, <1>1, IssuedKept

LEMMA PoliciesAgreeKept ==
  ASSUME Handlers, TablesOK, NEW r \in Requests, Place(r), Rows(r), PoliciesAgree(r), Act(r),
         \A b \in bindings : Issued(b.id, b.policy)
  PROVE  PoliciesAgree(r)'
  <1>0. UNCHANGED submission /\ (\A k : Kind(r, k)' <=> Kind(r, k))
    BY Frame DEF Kind, Form
  <1>1. CASE ~ Kind(r, {"task"})
    BY <1>0, <1>1 DEF PoliciesAgree
  <1>2. CASE /\ request'[r].policy = request[r].policy /\ request'[r].binding = request[r].binding
             /\ \/ request'[r].pc \notin {"agent", "policy", "binding"}
                \/ request[r].pc \in {"agent", "policy", "binding"}
    BY <1>0, <1>2, IssuedKept DEF PoliciesAgree
  <1>3. CASE request'[r].binding = {} /\ request'[r].policy = {}
    BY <1>0, <1>3 DEF PoliciesAgree
  <1>4. CASE Kind(r, {"task"})
    <2>1. CASE Open(r)
      BY <1>2, <1>3, <2>1, OpenEffect, OpenedFields DEF Keeps
    <2>2. CASE Fail(r)
      BY <1>2, <2>2, FailEffect DEF Keeps
    <2>3. CASE StartRow(r)
      BY <1>2, <2>3, StartRowEffect DEF StartRow, AtPC, Keeps
    <2>4. CASE ReadPolicy(r)
      <3>1. ASSUME NEW p, request'[r].policy = {x \in GetExecCommandPolicyByID(p) : x.active},
                   request'[r].binding = request[r].binding
            PROVE  PoliciesAgree(r)'
        <4>1. request'[r].binding = {}
          BY <1>4, <2>4, <3>1 DEF ReadPolicy, AtPC, PoliciesAgree
        <4>. QED BY <3>1, <4>1 DEF PoliciesAgree, GetExecCommandPolicyByID
      <3>. QED BY <1>2, <2>4, <3>1, ReadPolicyEffect DEF Keeps
    <2>5. CASE ReadBinding(r)
      <3>1. ASSUME NEW policy \in request[r].policy,
                   request'[r].binding = GetExecCommandPolicyBinding(policy.id, Target(r)),
                   request'[r].policy = request[r].policy, request'[r].pc = "insert"
            PROVE  PoliciesAgree(r)'
        <4>1. \A b \in request'[r].binding : Issued(b.id, b.policy) /\ b.policy = policy.id
          BY <3>1 DEF GetExecCommandPolicyBinding
        <4>2. \A x, y \in request[r].policy : x.id = y.id
          BY <1>4 DEF PoliciesAgree
        <4>3. \A b \in request'[r].binding : {x.id : x \in request'[r].policy} = {b.policy}
          BY <3>1, <4>1, <4>2
        <4>. QED BY <1>0, <3>1, <4>1, <4>2, <4>3, IssuedKept DEF PoliciesAgree
      <3>. QED BY <1>2, <2>5, <3>1, ReadBindingEffect DEF Keeps
    <2>6. CASE InsertTask(r)
      BY <1>2, <1>3, <2>6, InsertTaskEffect DEF Keeps
    <2>7. CASE Read(r) \/ Detail(r)
      BY <1>2, <2>7, ReadEffect, DetailEffect DEF Keeps
    <2>8. request[r].pc \notin {"check", "ensure", "write", "agents", "import"}
      BY <1>4 DEF Place, InLoop, AtPC
    <2>. QED
      BY <2>1, <2>2, <2>3, <2>4, <2>5, <2>6, <2>7, <2>8
      DEF Act, CheckLastAdmin, PrepareRoles, WriteStatus, WriteRoles, WriteUser, WritePolicy,
          WriteBinding, RemoveAgent, ListAgents, ImportPolicy, ImportBinding, ImportEnds, AtPC
  <1>. QED BY <1>1, <1>4

\* The rows that refer to each other, where a policy, a binding or an agent may go.
LEMMA ReferencesKept ==
  ASSUME Handlers, TablesOK, References, NEW r \in Requests, HandlerOK(r), Place(r), PoliciesAgree(r),
         Act(r)
  PROVE  References'
  <1>0. ReferencesHold /\ (\A b \in bindings : Issued(b.id, b.policy) /\ IsBindingRow(b))
        /\ (\A t \in tasks : DOMAIN t = TaskFields)
    BY DEF References, TablesOK, TaskFields
  <1>1. (\A b \in bindings : Issued(b.id, b.policy))'
    BY <1>0, BindingsIssued
  <1>2. (\A t \in tasks : DOMAIN t = TaskFields)'
    BY <1>0, TaskRowsKept
  <1>3. \A b \in bindings' : b.agent \in agents' /\ \E x \in policies' : x.id = b.policy
    <2>1. ASSUME NEW b \in bindings', UNCHANGED <<agents, policies>>
          PROVE  b.agent \in agents' /\ \E x \in policies' : x.id = b.policy
      BY <1>0, <2>1, BindingChanges DEF ReferencesHold, CanCreateExecCommandPolicyBinding
    <2>2. CASE WritePolicy(r)
      <3> DEFINE row == Form(r).row
      <3>1. CASE CreateExecCommandPolicy(row)
        BY <1>0, <3>1 DEF CreateExecCommandPolicy, ReferencesHold
      <3>2. CASE UpdateExecCommandPolicy(row)
        <4> HIDE DEF row
        <4>1. \A x \in policies : \E y \in policies' : y.id = x.id
          BY <3>2 DEF UpdateExecCommandPolicy
        <4>. QED BY <1>0, <3>2, <4>1 DEF UpdateExecCommandPolicy, ReferencesHold
      <3>3. CASE DeleteExecCommandPolicy(row.id)
        BY <1>0, <3>3 DEF DeleteExecCommandPolicy, ReferencesHold
      <3>4. CASE UNCHANGED policyVars
        BY <1>0, <3>4 DEF policyVars, ReferencesHold
      <3>. QED BY <2>2, <3>1, <3>2, <3>3, <3>4 DEF WritePolicy
    <2>3. CASE RemoveAgent(r)
      BY <1>0, <2>3 DEF RemoveAgent, DeleteAgent, ReferencesHold
    <2>4. CASE ImportPolicy(r)
      <3>1. \/ UNCHANGED policyVars
            \/ policies \subseteq policies' /\ UNCHANGED <<agents, bindings>>
        BY <2>4, ImportPolicyEffect DEF CreateExecCommandPolicy
      <3>. QED BY <1>0, <3>1 DEF policyVars, ReferencesHold
    <2>5. CASE WriteBinding(r) \/ ImportBinding(r)
      <3>1. UNCHANGED <<agents, policies>>
        BY <2>5, ImportBindingEffect
        DEF WriteBinding, CreateExecCommandPolicyBinding, UpdateExecCommandPolicyBinding,
            DeleteExecCommandPolicyBinding, policyVars
      <3>. QED BY <2>1, <3>1
    <2>. QED BY <2>1, <2>2, <2>3, <2>4, <2>5, PolicyWriters DEF WritesPolicies, policyVars
  <1> DEFINE Sound(t) == /\ t.agent \in agents' \cup {NoAgent}
                         /\ \A p \in t.policy : \E x \in policies' : x.id = p
                         /\ \A i \in t.binding : \E b \in bindings' : b.id = i /\ {b.policy} = t.policy
  <1>4. ASSUME NEW t \in tasks
        PROVE  Sound(Detach(t))
    <2>1. DOMAIN t = TaskFields
      BY <1>0
    <2>2. ASSUME NEW i \in Detach(t).binding
          PROVE  \E b \in bindings' : b.id = i /\ {b.policy} = Detach(t).policy
      <3>1. PICK b \in bindings' : b.id = i
        BY <2>1, <2>2, Detached
      <3>2. PICK c \in bindings : c.id = i /\ {c.policy} = t.policy
        BY <1>0, <2>1, <2>2, Detached DEF ReferencesHold
      <3>3. Issued(i, b.policy) /\ Issued(i, c.policy)
        <4>1. ASSUME NEW d \in bindings'
              PROVE  Issued(d.id, d.policy)
          BY <1>0, BindingChanges DEF Issued
        <4>. QED BY <1>0, <3>1, <3>2, <4>1
      <3>4. b.policy \in Policies /\ c.policy \in Policies
        <4>1. IsBindingRow(b)
          BY <1>0, BindingChanges
        <4>. QED BY <1>0, <4>1 DEF IsBindingRow
      <3>5. b.policy = c.policy
        BY <3>3, <3>4, IssuedOnce
      <3>6. Detach(t).policy = t.policy
        <4>1. \E x \in policies' : x.id = c.policy
          BY <1>3, <3>1, <3>5
        <4>2. t.policy = {c.policy} /\ Detach(t).policy = {p \in t.policy : \E x \in policies' : x.id = p}
          BY <2>1, <3>2, Detached
        <4>. QED BY <4>1, <4>2
      <3>. QED BY <3>1, <3>2, <3>5, <3>6
    <2>. QED BY <2>1, <2>2, Detached
  <1>5. \A t \in tasks' : Sound(t)
    <2>1. CASE tasks' = {Detach(t) : t \in tasks}
      BY <1>4, <2>1
    <2>2. CASE UNCHANGED tasks /\ UNCHANGED policyVars
      BY <1>0, <2>2 DEF ReferencesHold, policyVars
    <2>3. CASE InsertTask(r)
      <3>1. UNCHANGED policyVars
        BY <2>3 DEF InsertTask
      <3>2. ASSUME NEW row, row = [id |-> TaskId(r), agent |-> Target(r), type |-> Form(r).type,
                                   policy |-> {x.id : x \in request[r].policy},
                                   binding |-> {b.id : b \in request[r].binding}, files |-> Form(r).files],
                   CanInsert(row)
            PROVE  Sound(row)
        <4>1. Kind(r, {"task"})
          BY <2>3 DEF InsertTask, AtPC, Place, InLoop
        <4>2. ASSUME NEW i \in row.binding
              PROVE  \E b \in bindings' : b.id = i /\ {b.policy} = row.policy
          <5>1. PICK c \in request[r].binding : c.id = i
            BY <3>2, <4>2
          <5>2. Issued(i, c.policy) /\ row.policy = {c.policy}
            BY <3>2, <4>1, <5>1 DEF PoliciesAgree
          <5>3. PICK b \in bindings : b.id = i
            BY <3>2, <4>2 DEF CanInsert
          <5>4. \E x \in request[r].policy : x.id = c.policy
            BY <3>2, <5>2
          <5>5. b.policy \in Policies /\ c.policy \in Policies
            BY <1>0, <5>3, <5>4 DEF IsBindingRow, HandlerOK, IsPolicyRow
          <5>6. b.policy = c.policy
            BY <1>0, <5>2, <5>3, <5>5, IssuedOnce
          <5>. QED BY <3>1, <5>2, <5>3, <5>6 DEF policyVars
        <4>3. row.agent \in agents /\ \A p \in row.policy : GetExecCommandPolicyByID(p) # {}
          BY <3>2 DEF CanInsert
        <4>. QED BY <3>1, <4>2, <4>3 DEF policyVars, GetExecCommandPolicyByID
      <3>3. CASE UNCHANGED tasks
        BY <2>2, <3>1, <3>3
      <3> HIDE DEF Sound
      <3>4. \/ UNCHANGED tasks
            \/ \E row : Sound(row) /\ tasks' = tasks \cup {row}
        BY <2>3, <3>2, InsertTaskEffect
      <3>5. \A t \in tasks : Sound(t)
        BY <1>0, <3>1 DEF ReferencesHold, policyVars, Sound
      <3>. QED BY <3>4, <3>5
    <2>4. WritesPolicies(r) \/ UNCHANGED policyVars
      BY PolicyWriters
    <2>5. CASE ImportPolicy(r) \/ ImportBinding(r)
      <3>0. UNCHANGED tasks /\ UNCHANGED agents /\ policies \subseteq policies'
        <4>1. CASE ImportPolicy(r)
          BY <4>1, ImportPolicyEffect DEF CreateExecCommandPolicy, policyVars, ImportPolicy
        <4>2. CASE ImportBinding(r)
          BY <4>2, ImportBindingEffect DEF CreateExecCommandPolicyBinding, policyVars, ImportBinding
        <4>. QED BY <2>5, <4>1, <4>2
      <3>1. \A b \in bindings : \E c \in bindings' : b.id = c.id /\ b.policy = c.policy
        <4>1. CASE bindings \subseteq bindings'
          BY <4>1
        <4>2. ASSUME NEW row, CreateExecCommandPolicyBinding(row),
                     IsBindingRow(row)
              PROVE  \A b \in bindings : \E c \in bindings' : b.id = c.id /\ b.policy = c.policy
          <5> DEFINE same == {c \in bindings : c.policy = row.policy /\ c.agent = row.agent}
          <5>1. \A c \in same : /\ [row EXCEPT !.id = c.id].id = c.id
                                /\ [row EXCEPT !.id = c.id].policy = c.policy
            BY <4>2 DEF IsBindingRow
          <5>2. \A c \in same : [row EXCEPT !.id = c.id] \in bindings'
            BY <4>2 DEF CreateExecCommandPolicyBinding
          <5>3. \A c \in bindings \ same : c \in bindings'
            BY <4>2 DEF CreateExecCommandPolicyBinding
          <5>. QED BY <5>1, <5>2, <5>3
        <4>3. CASE ImportPolicy(r)
          BY <4>1, <4>3, ImportPolicyEffect DEF CreateExecCommandPolicy, policyVars
        <4>4. CASE ImportBinding(r)
          <5>1. UNCHANGED policyVars \/ \E row : CreateExecCommandPolicyBinding(row) /\ IsBindingRow(row)
            BY <4>4, ImportBindingEffect, ImportedBindingOK
          <5>. QED BY <4>1, <4>2, <5>1 DEF policyVars
        <4>. QED BY <2>5, <4>3, <4>4
      <3>. QED BY <1>0, <3>0, <3>1 DEF ReferencesHold
    <2>6. WritePolicy(r) \/ WriteBinding(r) \/ RemoveAgent(r) => tasks' = {Detach(t) : t \in tasks}
      BY DEF WritePolicy, WriteBinding, RemoveAgent
    <2>7. UNCHANGED tasks \/ InsertTask(r) \/ WritePolicy(r) \/ WriteBinding(r) \/ RemoveAgent(r)
      BY PolicyWriters
    <2> HIDE DEF Sound
    <2>. QED BY <2>1, <2>2, <2>3, <2>4, <2>5, <2>6, <2>7 DEF WritesPolicies
  <1>. QED BY <1>1, <1>2, <1>3, <1>5 DEF References, ReferencesHold, TaskFields

-----------------------------------------------------------------------------
(* createTask: permissions. *)

\* The steps a handler of createTask can take.
TaskAct(r) ==
  Open(r) \/ Fail(r) \/ StartRow(r) \/ ReadPolicy(r) \/ ReadBinding(r) \/ InsertTask(r) \/ Read(r)

LEMMA TaskSteps ==
  ASSUME NEW r \in Requests, Place(r), Kind(r, {"task"}), Act(r)
  PROVE  TaskAct(r)
  <1>1. request[r].pc \notin {"check", "ensure", "write", "agents", "import", "detail"}
    BY DEF Place, InLoop, AtPC
  <1>. QED
    BY <1>1
    DEF Act, TaskAct, CheckLastAdmin, PrepareRoles, WriteStatus, WriteRoles, WriteUser, WritePolicy,
        WriteBinding, RemoveAgent, Detail, ListAgents, ImportPolicy, ImportBinding, ImportEnds, AtPC

LEMMA PermitsKept ==
  ASSUME Handlers, NEW r \in Requests, Place(r), Permits(r), Act(r)
  PROVE  Permits(r)'
  <1>0. UNCHANGED submission /\ Form(r)' = Form(r) /\ (Kind(r, {"task"})' <=> Kind(r, {"task"}))
    BY Frame DEF Kind, Form
  <1>1. CASE ~ Kind(r, {"task"})
    BY <1>0, <1>1 DEF Permits
  <1>2. CASE Kind(r, {"task"})
    <2> DEFINE h == request[r]  g == request'[r]
    <2>0. \A x \in h.policy : HasExecPolicyPermission(h.roles, x.id, "use")
      BY <1>2 DEF Permits
    <2>1. CASE g.policy = {} /\ g.pc \notin {"policy", "binding", "insert"}
      BY <1>0, <2>1 DEF Permits
    <2>2. CASE Keeps(r) /\ g.pc \notin {"policy", "binding", "insert"}
      BY <1>0, <2>0, <2>2 DEF Permits, Keeps
    <2>3. CASE Open(r)
      <3>1. Entry(Form(r)) \notin {"policy", "binding", "insert"}
        BY EntryIsPC
      <3>. QED BY <2>1, <2>2, <2>3, <3>1, OpenEffect, OpenedFields
    <2>4. CASE Fail(r)
      BY <2>2, <2>4, FailEffect
    <2>5. CASE StartRow(r)
      <3>1. CASE /\ CanCreateTaskTypeForAgent(h.roles, Target(r), Form(r).type)
                 /\ Keeps(r) /\ g.todo = h.todo
        BY <1>0, <2>0, <3>1 DEF Permits, Keeps, Target
      <3>. QED BY <2>2, <2>5, <3>1, StartRowEffect
    <2>6. CASE ReadPolicy(r)
      <3>0. CanCreateTaskTypeForAgent(h.roles, Target(r), Form(r).type)
        BY <1>2, <2>6 DEF ReadPolicy, AtPC, Permits
      <3>1. ASSUME NEW p, HasExecPolicyPermission(h.roles, p, "use"),
                   g.policy = {x \in GetExecCommandPolicyByID(p) : x.active},
                   g.todo = h.todo, g.roles = h.roles
            PROVE  Permits(r)'
        BY <1>0, <3>0, <3>1 DEF Permits, Target, GetExecCommandPolicyByID
      <3>. QED BY <2>2, <2>6, <3>1, ReadPolicyEffect
    <2>7. CASE ReadBinding(r)
      <3>0. CanCreateTaskTypeForAgent(h.roles, Target(r), Form(r).type)
        BY <1>2, <2>7 DEF ReadBinding, AtPC, Permits
      <3>1. CASE g.policy = h.policy /\ g.todo = h.todo /\ g.roles = h.roles
        BY <1>0, <2>0, <3>0, <3>1 DEF Permits, Target
      <3>. QED BY <2>2, <2>7, <3>1, ReadBindingEffect
    <2>8. CASE InsertTask(r)
      BY <2>1, <2>2, <2>8, InsertTaskEffect
    <2>9. CASE Read(r)
      <3>1. g.policy = h.policy /\ g.roles = h.roles /\ g.pc \notin {"policy", "binding", "insert"}
        BY <2>9, ReadEffect
      <3>. QED BY <1>0, <2>0, <3>1 DEF Permits
    <2>. QED BY <1>2, <2>3, <2>4, <2>5, <2>6, <2>7, <2>8, <2>9, TaskSteps DEF TaskAct
  <1>. QED BY <1>1, <1>2

\* An insert makes the row of the agent it is at, or gives up.
LEMMA Inserted ==
  ASSUME Handlers, NEW r \in Requests, InsertTask(r)
  PROVE  \/ /\ request'[r].pc = "over" /\ request'[r].answer = "error"
            /\ UNCHANGED <<tasks, made>>
         \/ LET last == Tail(request[r].todo) = <<>> IN
            /\ request'[r].pc = IF last THEN "over" ELSE "agent"
            /\ request'[r].answer = IF last THEN "done" ELSE "none"
            /\ request'[r].todo = Tail(request[r].todo)
            /\ \E m : /\ made' = made \cup {m} /\ m.id = TaskId(r) /\ m.agent = Target(r)
                      /\ m.policy = request[r].policy
            /\ \E t : tasks' = tasks \cup {t} /\ t.id = TaskId(r) /\ t.files = Form(r).files
  <1>1. CASE UNCHANGED <<tasks, made>> /\ request'[r].pc = "over" /\ request'[r].answer = "error"
    BY <1>1
  <1> DEFINE row == [id |-> TaskId(r), agent |-> Target(r), type |-> Form(r).type,
                     policy |-> {x.id : x \in request[r].policy},
                     binding |-> {b.id : b \in request[r].binding}, files |-> Form(r).files]
             m == [id |-> row.id, agent |-> row.agent, policy |-> request[r].policy,
                   binding |-> request[r].binding, result |-> request[r].result]
  <1>2. /\ row.id = TaskId(r) /\ row.files = Form(r).files
        /\ m.id = TaskId(r) /\ m.agent = Target(r) /\ m.policy = request[r].policy
    OBVIOUS
  <1>3. CASE /\ tasks' = tasks \cup {row} /\ made' = made \cup {m}
             /\ LET last == Tail(request[r].todo) = <<>> IN
                /\ request'[r].pc = IF last THEN "over" ELSE "agent"
                /\ request'[r].answer = IF last THEN "done" ELSE "none"
                /\ request'[r].todo = Tail(request[r].todo)
    <2> HIDE DEF row, m
    <2>. QED BY <1>2, <1>3
  <1>. QED BY <1>1, <1>3, InsertTaskEffect

\* The roles of a request are those it was authenticated with.
LEMMA RolesKept ==
  ASSUME Handlers, NEW r \in Requests, ~ AtPC(r, "new"), Place(r), Kind(r, {"task"}), Act(r)
  PROVE  request'[r].roles = request[r].roles /\ request'[r].pc # "new"
  <1>1. CASE Fail(r)
    BY <1>1, FailEffect DEF Keeps
  <1>2. CASE StartRow(r)
    <2>1. Checked(r) # "new"
      BY DEF Checked
    <2>. QED BY <1>2, <2>1, StartRowEffect DEF Keeps
  <1>3. CASE ReadPolicy(r)
    BY <1>3, ReadPolicyEffect DEF Keeps
  <1>4. CASE ReadBinding(r)
    BY <1>4, ReadBindingEffect DEF Keeps
  <1>5. CASE InsertTask(r)
    BY <1>5, InsertTaskEffect DEF Keeps
  <1>6. CASE Read(r)
    BY <1>6, ReadEffect
  <1>. QED BY <1>1, <1>2, <1>3, <1>4, <1>5, <1>6, TaskSteps DEF TaskAct, Open

LEMMA MadeAllowedKept ==
  ASSUME Handlers, MadeAllowed, NEW r \in Requests, Place(r), Permits(r), Act(r)
  PROVE  MadeAllowed'
  <1>0. UNCHANGED submission /\ Others(r) /\ (\A q : Form(q)' = Form(q))
    BY Frame DEF Form
  <1> DEFINE Fine(m) ==
        LET q == m.id[1]  roles == request[q].roles IN
        /\ \/ IsAdmin(roles)
           \/ /\ RoleForTaskType(Form(q).type) \in roles
              /\ \E n \in roles : n \in {RoleForAgent(m.agent), RoleForAgentPermission(m.agent, "task_create")}
              /\ \A x \in m.policy : RoleForExecPolicy(x.id, "use") \in roles
        /\ q \in Requests /\ ~ AtPC(q, "new") /\ Kind(q, {"task"})
  <1>1. \A m \in made : Fine(m)
    BY DEF MadeAllowed, TaskAllowed
  <1>2. ASSUME NEW m, Fine(m)
        PROVE  Fine(m)'
    <2> DEFINE q == m.id[1]
    <2>1. request'[q].roles = request[q].roles /\ request'[q].pc # "new"
      <3>1. CASE q = r
        BY <1>2, <3>1, RolesKept
      <3>2. CASE q # r
        BY <1>0, <1>2, <3>2 DEF Others, AtPC
      <3>. QED BY <3>1, <3>2
    <2>. QED BY <1>0, <1>2, <2>1 DEF AtPC, Kind
  <1>3. CASE InsertTask(r)
    <2>1. ~ AtPC(r, "new") /\ Kind(r, {"task"})
      BY <1>3 DEF InsertTask, AtPC, Place, InLoop
    <2>2. CanCreateTaskTypeForAgent(request[r].roles, Target(r), Form(r).type)
      BY <1>3, <2>1 DEF InsertTask, AtPC, Permits
    <2>3. \A x \in request[r].policy : HasExecPolicyPermission(request[r].roles, x.id, "use")
      BY <2>1 DEF Permits
    <2>4. ASSUME NEW m, m.id = TaskId(r), m.agent = Target(r), m.policy = request[r].policy
          PROVE  Fine(m)
      <3>1. m.id[1] = r
        BY <2>4 DEF TaskId
      <3>. QED BY <2>1, <2>2, <2>3, <2>4, <3>1
           DEF CanCreateTaskTypeForAgent, CanRunTaskType, HasAgentPermission, HasExecPolicyPermission
    <2>5. UNCHANGED made \/ \E m : made' = made \cup {m} /\ m.id = TaskId(r) /\ m.agent = Target(r)
                                    /\ m.policy = request[r].policy
      BY <1>3, Inserted
    <2> HIDE DEF Fine
    <2>6. \A m \in made' : Fine(m)
      BY <1>1, <2>4, <2>5
    <2>7. \A m \in made' : Fine(m)'
      BY <1>2, <2>6
    <2>. QED BY <2>7 DEF Fine, MadeAllowed, TaskAllowed
  <1>4. CASE UNCHANGED made
    <2> HIDE DEF Fine
    <2>1. \A m \in made' : Fine(m)'
      BY <1>1, <1>2, <1>4
    <2>. QED BY <2>1 DEF Fine, MadeAllowed, TaskAllowed
  <1>. QED BY <1>3, <1>4, Frame

-----------------------------------------------------------------------------
(* createTask: the rows of a form. *)

LEMMA NeverNew ==
  ASSUME Handlers, NEW r \in Requests, Act(r)
  PROVE  request'[r].pc # "new"
  <1>1. CASE Open(r)
    BY <1>1, OpenEffect, OpenedFields, EntryIsPC
  <1>2. CASE Fail(r) \/ CheckLastAdmin(r) \/ PrepareRoles(r)
    BY <1>2, FailEffect, CheckEffect, PrepareEffect
  <1>3. CASE Write(r) \/ Detail(r)
    BY <1>3, WriteEffect, DetailEffect
  <1>4. CASE StartRow(r)
    <2>1. Checked(r) # "new"
      BY DEF Checked
    <2>. QED BY <1>4, <2>1, StartRowEffect
  <1>5. CASE ReadPolicy(r) \/ ReadBinding(r)
    BY <1>5, ReadPolicyEffect, ReadBindingEffect
  <1>6. CASE InsertTask(r) \/ Read(r)
    BY <1>6, Inserted, ReadEffect
  <1>7. CASE ListAgents(r) \/ ImportPolicy(r) \/ ImportBinding(r) \/ ImportEnds(r)
    BY <1>7, ListAgentsEffect, ImportPolicyEffect, ImportBindingEffect, ImportEndsEffect
    DEF ImportPolicy, ImportBinding, AtPC
  <1>. QED BY <1>1, <1>2, <1>3, <1>4, <1>5, <1>6, <1>7 DEF Act, Write

\* The rows there are, without what the handler knows of them.
Numbered(r) ==
  /\ \A m \in RowsOf(r) : m.id[2] \in 1..Count(r) /\ m.agent = Form(r).agents[m.id[2]]
  /\ \A i \in 1..Count(r) : \E m \in RowsOf(r) : m.id[2] = i
Ahead(r) ==
  /\ request[r].todo \in Seq(Agents \cup {NoAgent}) /\ request[r].todo # <<>>
  /\ Count(r) + Len(request[r].todo) = Len(Form(r).agents)
  /\ \A i \in 1..Len(request[r].todo) : request[r].todo[i] = Form(r).agents[Count(r) + i]

LEMMA TailFacts ==
  ASSUME NEW S, NEW s \in Seq(S), s # <<>>
  PROVE  /\ Tail(s) \in Seq(S) /\ Len(s) \in Nat \ {0} /\ Len(Tail(s)) = Len(s) - 1
         /\ \A i \in 1..Len(Tail(s)) : Tail(s)[i] = s[i + 1]
         /\ Tail(s) = <<>> <=> Len(s) = 1
  <1>1. /\ Tail(s) \in Seq(S) /\ Len(Tail(s)) = Len(s) - 1
        /\ \A i \in 1..Len(Tail(s)) : Tail(s)[i] = s[i + 1]
    BY HeadTailProperties
  <1>2. Len(s) \in Nat \ {0}
    OBVIOUS
  <1>3. Tail(s) = <<>> <=> Len(Tail(s)) = 0
    BY <1>1
  <1>. QED BY <1>1, <1>2, <1>3

\* A row more, for the agent the handler is at.
LEMMA RowInserted ==
  ASSUME UNCHANGED submission, NEW r \in Requests, IsFiniteSet(RowsOf(r)), Numbered(r), Ahead(r),
         Form(r).agents \in Seq(Agents \cup {NoAgent}),
         NEW m, made' = made \cup {m}, m.id = TaskId(r), m.agent = Target(r)
  PROVE  /\ IsFiniteSet(RowsOf(r)') /\ Count(r)' = Count(r) + 1 /\ Numbered(r)'
         /\ Index(r) = Count(r) + 1
  <1> DEFINE todo == request[r].todo  agents_ == Form(r).agents
  <1>1. Form(r)' = Form(r)
    BY DEF Form
  <1>2. Count(r) \in Nat
    BY FS_CardinalityType DEF Count
  <1>3. Len(todo) \in Nat /\ Len(agents_) \in Nat /\ Len(todo) > 0
    BY DEF Ahead
  <1>4. Index(r) = Count(r) + 1
    <2>1. Count(r) + Len(todo) = Len(agents_)
      BY DEF Ahead
    <2>2. \A c, t, l \in Nat : c + t = l => l - t + 1 = c + 1
      OBVIOUS
    <2>3. Len(agents_) - Len(todo) + 1 = Count(r) + 1
      BY <1>2, <1>3, <2>1, <2>2
    <2>. QED BY <2>3 DEF Index
  <1>5. m.id[1] = r /\ m.id[2] = Count(r) + 1
    BY <1>4 DEF TaskId
  <1>6. RowsOf(r)' = RowsOf(r) \cup {m}
    BY <1>5 DEF RowsOf
  <1>7. m \notin RowsOf(r)
    BY <1>2, <1>5 DEF Numbered
  <1>8. IsFiniteSet(RowsOf(r)') /\ Count(r)' = Count(r) + 1
    BY <1>6, <1>7, FS_AddElement DEF Count
  <1>9. m.agent = agents_[Count(r) + 1]
    <2>1. Target(r) = todo[1]
      BY DEF Target, Ahead
    <2>2. todo[1] = agents_[Count(r) + 1]
      BY <1>3 DEF Ahead
    <2>. QED BY <2>1, <2>2
  <1>10. \A n \in RowsOf(r)' : n.id[2] \in 1..(Count(r) + 1) /\ n.agent = agents_[n.id[2]]
    <2>1. ASSUME NEW n \in RowsOf(r)
          PROVE  n.id[2] \in 1..(Count(r) + 1) /\ n.agent = agents_[n.id[2]]
      BY <1>2 DEF Numbered
    <2>. QED BY <1>2, <1>5, <1>6, <1>9, <2>1
  <1>11. \A i \in 1..(Count(r) + 1) : \E n \in RowsOf(r)' : n.id[2] = i
    <2>1. ASSUME NEW i \in 1..Count(r)
          PROVE  \E n \in RowsOf(r)' : n.id[2] = i
      BY <1>6 DEF Numbered
    <2>. QED BY <1>2, <1>5, <1>6, <2>1
  <1>12. Numbered(r)'
    BY <1>1, <1>8, <1>10, <1>11 DEF Numbered
  <1>. QED BY <1>4, <1>8, <1>12

LEMMA RowsKept ==
  ASSUME Handlers, NEW r \in Requests, Place(r), Permits(r), Rows(r), PoliciesAgree(r), Act(r)
  PROVE  Rows(r)'
  <1>0. /\ UNCHANGED submission /\ Form(r)' = Form(r) /\ (Kind(r, {"task"})' <=> Kind(r, {"task"}))
        /\ Place(r)' /\ request'[r].pc # "new" /\ (UNCHANGED made \/ InsertTask(r))
    BY Frame, PlaceKept, NeverNew DEF Kind, Form
  <1>1. CASE ~ Kind(r, {"task"})
    <2>1. ~ InLoop(r)' /\ ~ InsertTask(r)
      BY <1>0, <1>1 DEF Place, InsertTask, AtPC, InLoop
    <2>. QED BY <1>0, <1>1, <2>1, NotTask
  <1>2. CASE Kind(r, {"task"})
    <2> DEFINE h == request[r]  g == request'[r]
    <2>0. Form(r).valid => Form(r).agents \in Seq(Agents \cup {NoAgent}) /\ Form(r).agents # <<>>
      BY <1>2, FormOK DEF IsForm, Kind
    <2>1. ASSUME UNCHANGED made, g.pc \in {"over", "reads"}, g.answer # "done",
                 g.pc = "reads" => g.answer = "refused", h.answer # "done"
          PROVE  Rows(r)'
      BY <1>0, <1>2, <2>1 DEF Rows, RowsOf, Count, AtPC, InLoop
    <2>2. ASSUME UNCHANGED made, InLoop(r), InLoop(r)', g.todo = h.todo, g.answer = h.answer
          PROVE  Rows(r)'
      BY <1>0, <1>2, <2>2 DEF Rows, RowsOf, Count, AtPC, InLoop
    <2>3. (InLoop(r) \/ AtPC(r, "new") => h.answer = "none") /\ (AtPC(r, "reads") => h.answer = "refused")
      BY <1>2 DEF Rows
    <2>4. CASE Open(r)
      <3>1. AtPC(r, "new") /\ UNCHANGED made
        BY <2>4 DEF Open
      <3>2. RowsOf(r) = {} /\ RowsOf(r)' = {}
        BY <3>1 DEF Rows, RowsOf
      <3>3. CASE g.pc = "over" /\ g.answer # "done"
        BY <2>1, <2>3, <3>1, <3>3
      <3>4. ASSUME NEW roles, g = Opened(Form(r), roles)
            PROVE  Rows(r)'
        <4>1. CASE ~ Form(r).valid
          <5>1. g.pc = "reads" /\ g.answer = "refused"
            BY <1>2, <3>4, <4>1, OpenedFields, EntryIsPC DEF Kind
          <5>. QED BY <2>1, <2>3, <3>1, <5>1
        <4>2. CASE Form(r).valid
          <5>1. g.pc = "agent" /\ g.answer = "none" /\ g.todo = Form(r).agents
            BY <1>2, <3>4, <4>2, OpenedFields, EntryIsPC DEF Kind
          <5>2. IsFiniteSet(RowsOf(r)') /\ Count(r)' = 0
            BY <3>2, FS_EmptySet DEF Count
          <5>3. Len(Form(r).agents) > 0
            BY <2>0, <4>2
          <5>. QED BY <1>0, <2>0, <3>2, <4>2, <5>1, <5>2, <5>3 DEF Rows, AtPC, InLoop
        <4>. QED BY <4>1, <4>2, FormOK DEF IsForm
      <3>. QED BY <2>4, <3>3, <3>4, OpenEffect
    <2>5. CASE Fail(r)
      <3>1. UNCHANGED made /\ request[r].pc \notin {"new", "over"}
        BY <2>5 DEF Fail
      <3>2. h.answer # "done"
        BY <1>2, <2>3, <3>1 DEF Place, AtPC
      <3>. QED BY <1>2, <2>1, <2>5, <3>1, <3>2, FailEffect DEF Kind
    <2>6. CASE StartRow(r)
      <3>1. UNCHANGED made /\ InLoop(r) /\ Checked(r) \in {"policy", "insert"}
        BY <2>6 DEF StartRow, InLoop, AtPC, Checked
      <3>2. \/ g.pc = "over" /\ g.answer \in {"forbidden", "error"}
            \/ g.pc = "reads" /\ g.answer = "refused"
            \/ g.pc = Checked(r) /\ g.answer = h.answer /\ g.todo = h.todo
        BY <2>6, StartRowEffect
      <3>. QED BY <2>1, <2>2, <2>3, <3>1, <3>2 DEF InLoop
    <2>7. CASE ReadPolicy(r)
      <3>1. UNCHANGED made /\ InLoop(r)
        BY <2>7 DEF ReadPolicy, InLoop, AtPC
      <3>. QED BY <2>1, <2>2, <2>3, <2>7, <3>1, ReadPolicyEffect DEF InLoop
    <2>8. CASE ReadBinding(r)
      <3>1. UNCHANGED made /\ InLoop(r)
        BY <2>8 DEF ReadBinding, InLoop, AtPC
      <3>. QED BY <2>1, <2>2, <2>3, <2>8, <3>1, ReadBindingEffect DEF InLoop
    <2>9. CASE Read(r)
      <3>1. UNCHANGED made /\ h.answer = "refused"
        BY <2>3, <2>9 DEF Read
      <3>. QED BY <2>1, <2>9, <3>1, ReadEffect
    <2>10. CASE InsertTask(r)
      <3>1. InLoop(r) /\ Form(r).valid
        BY <2>10 DEF InsertTask, InLoop, AtPC, Place
      <3>2. CASE UNCHANGED made /\ g.pc = "over" /\ g.answer = "error"
        BY <2>1, <2>3, <3>1, <3>2
      <3>3. ASSUME NEW m, made' = made \cup {m}, m.id = TaskId(r), m.agent = Target(r),
                   g.pc = IF Tail(h.todo) = <<>> THEN "over" ELSE "agent",
                   g.answer = IF Tail(h.todo) = <<>> THEN "done" ELSE "none",
                   g.todo = Tail(h.todo)
            PROVE  Rows(r)'
        <4>1. IsFiniteSet(RowsOf(r)) /\ Numbered(r) /\ Ahead(r)
          BY <1>2, <3>1 DEF Rows, Numbered, Ahead
        <4>2. IsFiniteSet(RowsOf(r)') /\ Count(r)' = Count(r) + 1 /\ Numbered(r)'
          BY <1>0, <2>0, <3>1, <3>3, <4>1, RowInserted
        <4>3. Count(r) \in Nat /\ Len(Form(r).agents) \in Nat
          BY <2>0, <3>1, <4>1, FS_CardinalityType DEF Count
        <4>4. /\ Tail(h.todo) \in Seq(Agents \cup {NoAgent}) /\ Len(Tail(h.todo)) = Len(h.todo) - 1
              /\ \A i \in 1..Len(Tail(h.todo)) : Tail(h.todo)[i] = h.todo[i + 1]
              /\ Len(h.todo) \in Nat \ {0}
              /\ Tail(h.todo) = <<>> <=> Len(h.todo) = 1
          BY <4>1, TailFacts DEF Ahead
        <4>5. Count(r) + 1 + Len(Tail(h.todo)) = Len(Form(r).agents)
          <5>1. Count(r) + Len(h.todo) = Len(Form(r).agents)
            BY <4>1 DEF Ahead
          <5>2. \A c, t, l \in Nat : t # 0 /\ c + t = l => c + 1 + (t - 1) = l
            OBVIOUS
          <5>. QED BY <4>3, <4>4, <5>1, <5>2
        <4>6. \A i \in 1..Len(Tail(h.todo)) : Tail(h.todo)[i] = Form(r).agents[Count(r) + 1 + i]
          <5>1. SUFFICES ASSUME NEW i \in 1..Len(Tail(h.todo))
                         PROVE  h.todo[i + 1] = Form(r).agents[Count(r) + 1 + i]
            BY <4>4
          <5>2. i + 1 \in 1..Len(h.todo) /\ Count(r) + (i + 1) = Count(r) + 1 + i
            <6>1. \A c, l \in Nat : l # 0 => \A j \in 1..(l - 1) : j + 1 \in 1..l /\ c + (j + 1) = c + 1 + j
              OBVIOUS
            <6>2. Len(h.todo) \in Nat /\ Len(h.todo) # 0 /\ i \in 1..(Len(h.todo) - 1)
              BY <4>4
            <6>. QED BY <4>3, <6>1, <6>2
          <5>. QED BY <4>1, <5>2 DEF Ahead
        <4>7. Tail(h.todo) # <<>> => Ahead(r)'
          BY <1>0, <3>3, <4>2, <4>4, <4>5, <4>6 DEF Ahead
        <4>8. IF g.answer = "done" THEN Count(r)' = Len(Form(r).agents)
              ELSE Count(r)' < Len(Form(r).agents)
          <5>1. \A c, t, l \in Nat : c + 1 + t = l => IF t = 0 THEN c + 1 = l ELSE c + 1 < l
            OBVIOUS
          <5>2. Len(Tail(h.todo)) \in Nat /\ (Tail(h.todo) = <<>> <=> Len(Tail(h.todo)) = 0)
            BY <4>4
          <5>3. IF Tail(h.todo) = <<>> THEN Count(r) + 1 = Len(Form(r).agents)
                ELSE Count(r) + 1 < Len(Form(r).agents)
            BY <4>3, <4>5, <5>1, <5>2
          <5>. QED BY <3>3, <4>2, <5>3
        <4>. QED BY <1>0, <3>1, <3>3, <4>2, <4>7, <4>8 DEF Rows, Numbered, Ahead, AtPC, InLoop
      <3>. QED BY <2>10, <3>2, <3>3, Inserted
    <2>. QED BY <1>2, <2>4, <2>5, <2>6, <2>7, <2>8, <2>9, <2>10, TaskSteps DEF TaskAct
  <1>. QED BY <1>1, <1>2

-----------------------------------------------------------------------------
(* createTask: the directories of files. *)

\* A task handler that does not insert a row keeps what it has in hand.
LEMMA HandOver ==
  ASSUME Handlers, NEW r \in Requests, Place(r), Rows(r), Rows(r)', Kind(r, {"task"}), Act(r),
         ~ StartRow(r), ~ InsertTask(r)
  PROVE  /\ request[r].pc \notin {"agent", "over"}
         /\ InHand(r)' => InHand(r)
         /\ ~ AtPC(r, "new") => /\ request'[r].pc \in {"policy", "binding", "insert", "reads", "over"}
                                /\ request'[r].answer # "done"
  <1>1. Open(r) \/ Fail(r) \/ ReadPolicy(r) \/ ReadBinding(r) \/ Read(r)
    BY TaskSteps DEF TaskAct
  <1>2. CASE Open(r)
    <2>1. AtPC(r, "new")
      BY <1>2 DEF Open
    <2>2. request'[r].pc \in {"over", Entry(Form(r))}
      BY <1>2, OpenEffect, OpenedFields
    <2>. QED BY <2>1, <2>2, EntryIsPC DEF AtPC, InHand
  <1>3. CASE Fail(r)
    <2>1. request[r].pc \notin {"new", "agent", "over"}
      BY <1>3 DEF Fail
    <2>. QED BY <1>3, <2>1, FailEffect DEF Kind, InHand
  <1>4. CASE ReadPolicy(r)
    <2>1. AtPC(r, "policy") /\ request[r].answer = "none"
      BY <1>4 DEF ReadPolicy, Rows, InLoop, AtPC
    <2>. QED BY <1>4, <2>1, ReadPolicyEffect DEF InHand, AtPC
  <1>5. CASE ReadBinding(r)
    <2>1. AtPC(r, "binding") /\ request[r].answer = "none"
      BY <1>5 DEF ReadBinding, Rows, InLoop, AtPC
    <2>. QED BY <1>5, <2>1, ReadBindingEffect DEF InHand, AtPC
  <1>6. CASE Read(r)
    <2>1. AtPC(r, "reads") /\ request[r].answer = "refused"
      BY <1>6 DEF Read, Rows
    <2>. QED BY <1>6, <2>1, ReadEffect DEF InHand, AtPC
  <1>. QED BY <1>1, <1>2, <1>3, <1>4, <1>5, <1>6

LEMMA DirectoriesKept ==
  ASSUME Handlers, TablesOK, Directories, NEW r \in Requests, Act(r), Place(r),
         \A q \in Requests : Rows(q) /\ Rows(q)',
         \A t \in tasks : DOMAIN t = TaskFields
  PROVE  Directories'
  <1>0. UNCHANGED submission /\ (\A q : (Kind(q, {"task"})' <=> Kind(q, {"task"})) /\ Form(q)' = Form(q))
    BY Frame DEF Kind, Form
  <1>1. \A q \in Requests : Count(q) \in Nat /\ Count(q)' \in Nat
    <2>1. \A q \in Requests : IsFiniteSet(RowsOf(q)) /\ IsFiniteSet(RowsOf(q)')
      BY DEF Rows
    <2>. QED BY <2>1, FS_CardinalityType DEF Count
  <1>2. \A q \in Requests \ {r} : Count(q)' = Count(q) /\ request'[q] = request[q]
    BY Frame DEF Others, Count
  <1>3. ~ InsertTask(r) => /\ \A t \in tasks' : \E u \in tasks : t.id = u.id /\ t.files = u.files
                           /\ \A u \in tasks : \E t \in tasks' : t.id = u.id
    BY TaskRowsKept
  <1>4. ~ InsertTask(r) => \A q \in Requests : Count(q)' = Count(q)
    BY Frame DEF Count, RowsOf
  <1>5. ASSUME NEW q \in Requests, NEW i \in 1..(Count(q)' + 1), NEW whole \in BOOLEAN,
               Kind(q, {"task"}), OfRow(q, i, whole)' \/ OfNext(q, i, whole)'
        PROVE  Directory(<< <<q, i>>, whole>>)'
    BY <1>0, <1>5 DEF Directory
  <1>6. ASSUME NEW d \in uploads
        PROVE  \E q \in Requests : \E i \in 1..(Count(q) + 1), whole \in BOOLEAN :
                 /\ d = << <<q, i>>, whole>> /\ Kind(q, {"task"})
                 /\ OfRow(q, i, whole) \/ OfNext(q, i, whole)
    BY DEF Directories, Directory
  <1>7. ASSUME NEW q \in Requests, NEW i, NEW whole \in BOOLEAN, Kind(q, {"task"}),
               i \in 1..(Count(q) + 1), q # r \/ ~ InsertTask(r), OfRow(q, i, whole)
        PROVE  Directory(<< <<q, i>>, whole>>)'
    <2>1. Count(q)' = Count(q)
      BY <1>2, <1>4, <1>7
    <2>2. \E t \in tasks' : t.id = <<q, i>>
      <3>1. CASE ~ InsertTask(r)
        BY <1>3, <1>7, <3>1 DEF OfRow
      <3>2. CASE InsertTask(r)
        BY <1>7, <3>2, Inserted DEF OfRow
      <3>. QED BY <3>1, <3>2
    <2>3. OfRow(q, i, whole)'
      BY <1>7, <2>1, <2>2 DEF OfRow
    <2>. QED BY <1>5, <1>7, <2>1, <2>3
  <1>8. ASSUME NEW q \in Requests \ {r}, NEW i, NEW whole \in BOOLEAN, Kind(q, {"task"}),
               i \in 1..(Count(q) + 1), OfNext(q, i, whole)
        PROVE  Directory(<< <<q, i>>, whole>>)'
    <2>1. OfNext(q, i, whole)' /\ i \in 1..(Count(q)' + 1)
      BY <1>2, <1>8 DEF OfNext, AtPC
    <2>. QED BY <1>5, <1>8, <2>1
  <1>9. ASSUME NEW q \in Requests \ {r}, InHand(q)', Form(q)'.files, uploads \subseteq uploads'
        PROVE  << <<q, Count(q)' + 1>>, TRUE>> \in uploads'
    BY <1>0, <1>2, <1>9 DEF Directories, InHand
  <1>10. ASSUME ~ InsertTask(r), uploads \subseteq uploads'
         PROVE  \A t \in tasks' :
                  /\ \E q \in Requests : \E i \in 1..Count(q)' : t.id = <<q, i>> /\ Kind(q, {"task"})'
                  /\ t.files => <<t.id, TRUE>> \in uploads'
    <2>1. SUFFICES ASSUME NEW t \in tasks'
                   PROVE  /\ \E q \in Requests : \E i \in 1..Count(q)' : t.id = <<q, i>> /\ Kind(q, {"task"})'
                          /\ t.files => <<t.id, TRUE>> \in uploads'
      OBVIOUS
    <2>2. PICK u \in tasks : t.id = u.id /\ t.files = u.files
      BY <1>3, <1>10
    <2>3. PICK q \in Requests : \E i \in 1..Count(q) : u.id = <<q, i>> /\ Kind(q, {"task"})
      BY DEF Directories
    <2>4. \E i \in 1..Count(q)' : t.id = <<q, i>> /\ Kind(q, {"task"})'
      BY <1>0, <1>4, <1>10, <2>2, <2>3
    <2>5. t.files => <<t.id, TRUE>> \in uploads'
      BY <1>10, <2>2 DEF Directories
    <2>. QED BY <2>4, <2>5
  <1>11. CASE ~ StartRow(r) /\ ~ InsertTask(r)
    <2>1. UNCHANGED uploads
      BY <1>11, Frame
    <2>2. Count(r)' = Count(r) /\ Place(r)'
      BY <1>4, <1>11, PlaceKept
    <2>3. ASSUME NEW i, NEW whole \in BOOLEAN, Kind(r, {"task"}), i \in 1..(Count(r) + 1), OfNext(r, i, whole)
          PROVE  Directory(<< <<r, i>>, whole>>)'
      <3>1. /\ request[r].pc # "over" /\ ~ AtPC(r, "new")
            /\ request'[r].pc \in {"policy", "binding", "insert", "reads", "over"}
            /\ request'[r].answer # "done"
        BY <1>11, <2>3, HandOver DEF OfNext, AtPC
      <3>2. OfNext(r, i, whole)' /\ i \in 1..(Count(r)' + 1)
        BY <2>2, <2>3, <3>1 DEF OfNext, AtPC
      <3>. QED BY <1>5, <2>3, <3>2
    <2>4. \A d \in uploads' : Directory(d)'
      BY <1>6, <1>7, <1>8, <1>11, <2>1, <2>3
    <2>5. InHand(r)' /\ Form(r)'.files => << <<r, Count(r)' + 1>>, TRUE>> \in uploads'
      <3>1. InHand(r)' => Kind(r, {"task"})
        BY <1>0, <2>2 DEF Place, InLoop, InHand
      <3>2. InHand(r)' => InHand(r)
        BY <1>11, <3>1, HandOver
      <3>. QED BY <1>0, <2>1, <2>2, <3>2 DEF Directories
    <2>6. \A q \in Requests : InHand(q)' /\ Form(q)'.files => << <<q, Count(q)' + 1>>, TRUE>> \in uploads'
      BY <1>9, <2>1, <2>5
    <2>. QED BY <1>10, <1>11, <2>1, <2>4, <2>6 DEF Directories
  <1>12. CASE StartRow(r)
    <2>0. AtPC(r, "agent") /\ Kind(r, {"task"}) /\ Form(r).valid /\ ~ InsertTask(r)
      BY <1>12 DEF StartRow, InsertTask, Place, InLoop, AtPC
    <2>1. Count(r)' = Count(r)
      BY <1>4, <2>0
    <2>2. TaskId(r) = <<r, Count(r) + 1>>
      <3>1. Ahead(r) /\ Form(r).agents \in Seq(Agents \cup {NoAgent})
        BY <2>0, FormOK DEF Rows, Ahead, InLoop, AtPC, IsForm, Kind
      <3>2. /\ Count(r) + Len(request[r].todo) = Len(Form(r).agents)
            /\ Len(request[r].todo) \in Nat /\ Len(Form(r).agents) \in Nat
        BY <3>1 DEF Ahead
      <3>3. \A c, t, l \in Nat : c + t = l => l - t + 1 = c + 1
        OBVIOUS
      <3>4. Len(Form(r).agents) - Len(request[r].todo) + 1 = Count(r) + 1
        BY <1>1, <3>2, <3>3
      <3>. QED BY <3>4 DEF TaskId, Index
    <2>3. \A d \in uploads : Directory(d)'
      <3>1. \A i, whole : ~ OfNext(r, i, whole)
        BY <2>0 DEF OfNext, AtPC
      <3>. QED BY <1>6, <1>7, <1>8, <2>0, <3>1
    <2>4. \/ /\ request'[r].pc \in {"over", "reads"} /\ request'[r].answer \in {"forbidden", "refused"}
             /\ UNCHANGED uploads
          \/ /\ request'[r].pc \in {"policy", "insert"}
             /\ uploads' = IF Form(r).files THEN uploads \cup {<<TaskId(r), TRUE>>} ELSE uploads
          \/ /\ request'[r].pc = "over" /\ request'[r].answer = "error"
             /\ uploads' = uploads \cup {<<TaskId(r), FALSE>>}
      <3>1. Checked(r) \in {"policy", "insert"}
        BY DEF Checked
      <3>. QED BY <1>12, <3>1, StartRowEffect
    <2>5. request'[r].pc \in {"policy", "insert"} => request'[r].answer = "none"
      BY DEF Rows, InLoop
    <2>6. ASSUME NEW whole \in BOOLEAN, request'[r].answer # "done",
                 request'[r].pc \in {"policy", "insert", "over"}, ~ whole => request'[r].pc = "over"
          PROVE  \A d : d = <<TaskId(r), whole>> => Directory(d)'
      <3>1. PICK i \in 1..(Count(r)' + 1) : i = Count(r) + 1
        BY <1>1, <2>1
      <3>2. OfNext(r, i, whole)'
        BY <2>1, <2>6, <3>1 DEF OfNext, AtPC
      <3>3. Directory(<< <<r, i>>, whole>>)'
        BY <1>5, <2>0, <3>1, <3>2
      <3>. QED BY <2>2, <3>1, <3>3
    <2>7. \A d \in uploads' : Directory(d)'
      <3>1. CASE UNCHANGED uploads
        BY <2>3, <3>1
      <3>2. CASE uploads' = uploads \cup {<<TaskId(r), TRUE>>} /\ request'[r].pc \in {"policy", "insert"}
        BY <2>3, <2>5, <2>6, <3>2
      <3>3. CASE /\ uploads' = uploads \cup {<<TaskId(r), FALSE>>}
                 /\ request'[r].pc = "over" /\ request'[r].answer = "error"
        BY <2>3, <2>6, <3>3
      <3>. QED BY <2>4, <3>1, <3>2, <3>3
    <2>8. uploads \subseteq uploads'
      BY <2>4
    <2>9. InHand(r)' /\ Form(r)'.files => << <<r, Count(r)' + 1>>, TRUE>> \in uploads'
      BY <1>0, <2>1, <2>2, <2>4 DEF InHand
    <2>10. \A q \in Requests : InHand(q)' /\ Form(q)'.files => << <<q, Count(q)' + 1>>, TRUE>> \in uploads'
      BY <1>9, <2>8, <2>9
    <2>. QED BY <1>10, <2>0, <2>7, <2>8, <2>10 DEF Directories
  <1>13. CASE InsertTask(r)
    <2>0. /\ AtPC(r, "insert") /\ Kind(r, {"task"}) /\ Form(r).valid /\ InHand(r) /\ ~ StartRow(r)
          /\ request[r].pc = "insert"
      BY <1>13 DEF StartRow, InsertTask, Place, InLoop, AtPC, InHand
    <2>1. UNCHANGED uploads
      BY <2>0, Frame
    <2>2. CASE UNCHANGED <<tasks, made>> /\ request'[r].pc = "over" /\ request'[r].answer = "error"
      <3>1. \A q \in Requests : Count(q)' = Count(q)
        BY <2>2 DEF Count, RowsOf
      <3>2. ASSUME NEW i, NEW whole \in BOOLEAN, i \in 1..(Count(r) + 1),
                   OfRow(r, i, whole) \/ OfNext(r, i, whole)
            PROVE  Directory(<< <<r, i>>, whole>>)'
        <4>1. OfRow(r, i, whole)' \/ OfNext(r, i, whole)'
          BY <2>2, <3>1, <3>2 DEF OfRow, OfNext, AtPC
        <4>. QED BY <1>5, <2>0, <3>1, <3>2, <4>1
      <3>3. \A d \in uploads' : Directory(d)'
        BY <1>6, <1>7, <1>8, <2>1, <3>2
      <3>4. \A q \in Requests : InHand(q)' /\ Form(q)'.files => << <<q, Count(q)' + 1>>, TRUE>> \in uploads'
        <4>1. ~ InHand(r)'
          BY <2>2 DEF InHand
        <4>. QED BY <1>9, <2>1, <4>1
      <3>5. \A t \in tasks' :
              /\ \E q \in Requests : \E i \in 1..Count(q)' : t.id = <<q, i>> /\ Kind(q, {"task"})'
              /\ t.files => <<t.id, TRUE>> \in uploads'
        BY <1>0, <2>1, <2>2, <3>1 DEF Directories
      <3>. QED BY <3>3, <3>4, <3>5 DEF Directories
    <2>3. ASSUME NEW m, made' = made \cup {m}, m.id = TaskId(r), m.agent = Target(r),
                 NEW t, tasks' = tasks \cup {t}, t.id = TaskId(r), t.files = Form(r).files,
                 request'[r].pc \in {"over", "agent"}
          PROVE  Directories'
      <3>1. IsFiniteSet(RowsOf(r)) /\ Numbered(r) /\ Ahead(r) /\ Form(r).agents \in Seq(Agents \cup {NoAgent})
        BY <2>0, FormOK DEF Rows, Numbered, Ahead, InLoop, IsForm, Kind
      <3>2. Count(r)' = Count(r) + 1 /\ Index(r) = Count(r) + 1
        BY <1>0, <2>3, <3>1, RowInserted
      <3>3. TaskId(r) = <<r, Count(r) + 1>>
        BY <3>2 DEF TaskId
      <3>4. ASSUME NEW i, NEW whole \in BOOLEAN, i \in 1..(Count(r) + 1),
                   OfRow(r, i, whole) \/ OfNext(r, i, whole)
            PROVE  Directory(<< <<r, i>>, whole>>)'
        <4>1. whole
          BY <2>0, <3>4 DEF OfRow, OfNext, AtPC
        <4>2. \E u \in tasks' : u.id = <<r, i>>
          BY <2>3, <3>3, <3>4 DEF OfRow, OfNext
        <4>3. i \in 1..Count(r)' /\ i \in 1..(Count(r)' + 1)
          BY <1>1, <3>2, <3>4
        <4>4. OfRow(r, i, whole)'
          BY <4>1, <4>2, <4>3 DEF OfRow
        <4>. QED BY <1>5, <2>0, <4>3, <4>4
      <3>5. \A d \in uploads' : Directory(d)'
        BY <1>6, <1>7, <1>8, <2>1, <3>4
      <3>6. \A q \in Requests : InHand(q)' /\ Form(q)'.files => << <<q, Count(q)' + 1>>, TRUE>> \in uploads'
        <4>1. ~ InHand(r)'
          BY <2>3 DEF InHand
        <4>. QED BY <1>9, <2>1, <4>1
      <3>7. ASSUME NEW u \in tasks
            PROVE  \E q \in Requests : \E i \in 1..Count(q)' : u.id = <<q, i>> /\ Kind(q, {"task"})'
        <4>1. PICK q \in Requests : \E i \in 1..Count(q) : u.id = <<q, i>> /\ Kind(q, {"task"})
          BY DEF Directories
        <4>2. PICK i \in 1..Count(q) : u.id = <<q, i>>
          BY <4>1
        <4>3. i \in 1..Count(q)'
          BY <1>1, <1>2, <3>2, <4>2
        <4>. QED BY <1>0, <4>1, <4>2, <4>3
      <3>8. \E q \in Requests : \E i \in 1..Count(q)' : t.id = <<q, i>> /\ Kind(q, {"task"})'
        <4>1. Count(r) + 1 \in 1..Count(r)'
          BY <1>1, <3>2
        <4>. QED BY <1>0, <2>0, <2>3, <3>3, <4>1
      <3>9. t.files => <<t.id, TRUE>> \in uploads'
        BY <2>0, <2>1, <2>3, <3>3 DEF Directories
      <3>10. \A u \in tasks' : u.files => <<u.id, TRUE>> \in uploads'
        BY <2>1, <2>3, <3>9 DEF Directories
      <3>. QED BY <2>3, <3>5, <3>6, <3>7, <3>8, <3>10 DEF Directories
    <2>. QED BY <1>13, <2>2, <2>3, Inserted
  <1>. QED BY <1>11, <1>12, <1>13

-----------------------------------------------------------------------------
(* The invariant holds at the start and is kept. *)

LEMMA CInvInit ==
  ASSUME ConsoleInit
  PROVE  CInv
  <1>1. /\ user = Accounts /\ role = DefaultManagedRoles \cup UNION {Accounts[u].roles : u \in Users}
        /\ agents = FirstAgents /\ policies = FirstPolicies /\ bindings = FirstBindings
        /\ submission \in Workloads /\ request = [r \in Requests |-> Handler("new", {}, <<>>)]
        /\ tasks = {} /\ uploads = {} /\ file = FirstFile
        /\ made = {} /\ raced = FALSE /\ faults = 0
    BY DEF ConsoleInit, AccessInit
  <1>2. \A r \in Requests :
          LET h == request[r] IN
          /\ DOMAIN h = Fields
          /\ h.pc = "new" /\ h.roles = {} /\ h.answer = "none"
          /\ h.policy = {} /\ h.binding = {} /\ h.admins = {} /\ h.known = {}
          /\ h.left = {} /\ h.shown = Shown
    BY <1>1, HandlerFields
  <1>3. Handlers
    BY <1>1, <1>2 DEF Handlers
  <1>4. TablesOK
    <2>1. AccessTypeOK
      BY <1>1, AccountsAssumption DEF AccessTypeOK, Account
    <2>2. agents \subseteq Agents /\ raced \in BOOLEAN /\ faults \in 0..MaxFaults /\ tasks = {}
      <3>1. MaxFaults \in Nat /\ FirstAgents \subseteq Agents
        BY RowsAssumption
      <3>2. \A n \in Nat : 0 \in 0..n
        OBVIOUS
      <3>3. faults \in 0..MaxFaults
        BY <1>1, <3>1, <3>2
      <3>. QED BY <1>1, <3>1, <3>3
    <2>3. (\A x \in policies : IsPolicyRow(x)) /\ (\A item \in file : IsPolicyRow(item.policy))
      BY <1>1, RowsAssumption DEF IsBundle
    <2>4. \A b \in bindings : IsBindingRow(b)
      BY <1>1, RowsAssumption
    <2>. QED BY <2>1, <2>2, <2>3, <2>4 DEF TablesOK
  <1>5. MadeAllowed /\ Directories
    BY <1>1, <1>2 DEF MadeAllowed, TaskAllowed, Directories, InHand
  <1>6. References
    BY <1>1, RowsAssumption DEF References, ReferencesHold, Issued
  <1>7. AdministratorRemains
    BY <1>1, AccountsAssumption DEF AdministratorRemains, ActiveAdmins
  <1>8. ASSUME NEW r \in Requests
        PROVE  HandlerOK(r) /\ Place(r) /\ SawAnother(r) /\ Permits(r) /\ PoliciesAgree(r)
    <2>1. HandlerOK(r)
      BY <1>2 DEF HandlerOK, PCs, Answers, Shown
    <2>. QED BY <1>2, <2>1 DEF Place, SawAnother, Permits, PoliciesAgree, InLoop, AtPC
  <1>9. ASSUME NEW r \in Requests
        PROVE  Rows(r)
    <2>1. RowsOf(r) = {} /\ IsFiniteSet(RowsOf(r)) /\ Count(r) = 0
      BY <1>1, FS_EmptySet DEF RowsOf, Count
    <2>2. request[r].pc = "new" /\ request[r].answer = "none"
      BY <1>2
    <2>3. ~ InLoop(r) /\ ~ AtPC(r, "reads")
      BY <2>2 DEF InLoop, AtPC
    <2>4. ASSUME Kind(r, {"task"}), Form(r).valid
          PROVE  Count(r) < Len(Form(r).agents)
      <3>1. Form(r).agents \in Seq(Agents \cup {NoAgent}) /\ Form(r).agents # <<>>
        BY <1>3, <2>4, FormOK DEF IsForm, Kind
      <3>. QED BY <2>1, <3>1
    <2>. QED BY <2>1, <2>2, <2>3, <2>4 DEF Rows
  <1>. QED BY <1>3, <1>4, <1>5, <1>6, <1>7, <1>8, <1>9 DEF CInv

LEMMA CInvAct ==
  ASSUME CInv, NEW r \in Requests, Act(r)
  PROVE  CInv'
  <1>1. /\ Handlers /\ TablesOK /\ MadeAllowed /\ Directories /\ References /\ AdministratorRemains
        /\ HandlerOK(r) /\ Place(r) /\ SawAnother(r) /\ Permits(r) /\ Rows(r) /\ PoliciesAgree(r)
    BY DEF CInv
  <1>2. (\A t \in tasks : DOMAIN t = TaskFields) /\ (\A b \in bindings : Issued(b.id, b.policy))
    BY <1>1 DEF References, TaskFields
  <1>3. (HandlerOK(r) /\ Place(r) /\ SawAnother(r) /\ Permits(r) /\ Rows(r) /\ PoliciesAgree(r))'
    <2>1. HandlerOK(r)'
      BY <1>1, HandlerKept
    <2>2. Place(r)'
      BY <1>1, PlaceKept
    <2>3. SawAnother(r)'
      BY <1>1, SawAnotherKept
    <2>4. Permits(r)'
      BY <1>1, PermitsKept
    <2>5. Rows(r)'
      BY <1>1, RowsKept
    <2>6. PoliciesAgree(r)'
      BY <1>1, <1>2, PoliciesAgreeKept
    <2>. QED BY <2>1, <2>2, <2>3, <2>4, <2>5, <2>6
  <1>4. ASSUME NEW q \in Requests \ {r}
        PROVE  (HandlerOK(q) /\ Place(q) /\ SawAnother(q) /\ Permits(q) /\ Rows(q) /\ PoliciesAgree(q))'
    <2>1. /\ Others(r) /\ UNCHANGED submission /\ role \subseteq role' /\ (raced => raced')
          /\ RowsOf(q)' = RowsOf(q)
      BY <1>1, Frame
    <2>2. HandlerOK(q) /\ Place(q) /\ SawAnother(q) /\ Permits(q) /\ Rows(q) /\ PoliciesAgree(q)
      BY DEF CInv
    <2>. QED BY <2>1, <2>2, OthersKept
  <1>5. \A q \in Requests :
          (HandlerOK(q) /\ Place(q) /\ SawAnother(q) /\ Permits(q) /\ Rows(q) /\ PoliciesAgree(q))'
    BY <1>3, <1>4
  <1>6. Handlers'
    BY <1>1, Frame
  <1>7. TablesOK'
    BY <1>1, <1>2, TablesKept
  <1>8. MadeAllowed'
    BY <1>1, MadeAllowedKept
  <1>9. References'
    BY <1>1, ReferencesKept
  <1>10. AdministratorRemains'
    BY <1>1, AdministratorKept
  <1>11. Directories'
    <2>1. \A q \in Requests : Rows(q) /\ Rows(q)'
      BY <1>5 DEF CInv
    <2>. QED BY <1>1, <1>2, <2>1, DirectoriesKept
  <1>. QED BY <1>5, <1>6, <1>7, <1>8, <1>9, <1>10, <1>11 DEF CInv

LEMMA CInvStutter ==
  ASSUME CInv, UNCHANGED vars
  PROVE  CInv'
  <1>1. /\ UNCHANGED <<user, role, agents, policies, bindings>>
        /\ UNCHANGED <<submission, request, tasks, uploads, file, made, raced, faults>>
    BY DEF vars, accessVars, policyVars, consoleVars
  <1>2. (Handlers /\ MadeAllowed /\ AdministratorRemains)'
    BY <1>1 DEF CInv, Handlers, MadeAllowed, TaskAllowed, AdministratorRemains, ActiveAdmins,
                Form, Kind, AtPC
  <1>3. TablesOK'
    <2>1. AccessTypeOK'
      BY <1>1 DEF CInv, TablesOK, AccessTypeOK, Account
    <2>. QED BY <1>1, <2>1 DEF CInv, TablesOK
  <1>4. Directories'
    <2>1. \A r \in Requests : /\ Count(r)' = Count(r) /\ (InHand(r)' <=> InHand(r))
                             /\ Form(r)' = Form(r) /\ (Kind(r, {"task"})' <=> Kind(r, {"task"}))
      BY <1>1 DEF Count, RowsOf, InHand, Form, Kind
    <2>2. \A r \in Requests : \A i, whole : /\ OfRow(r, i, whole)' <=> OfRow(r, i, whole)
                                            /\ OfNext(r, i, whole)' <=> OfNext(r, i, whole)
      BY <1>1, <2>1 DEF OfRow, OfNext, AtPC
    <2>3. \A d : Directory(d) => Directory(d)'
      BY <2>1, <2>2 DEF Directory
    <2>. QED BY <1>1, <2>1, <2>3 DEF CInv, Directories
  <1>5. References'
    BY <1>1 DEF CInv, References, ReferencesHold, Issued, Form, Kind
  <1>6. ASSUME NEW r \in Requests
        PROVE  (HandlerOK(r) /\ Place(r) /\ SawAnother(r) /\ Permits(r) /\ Rows(r) /\ PoliciesAgree(r))'
    <2>1. (HandlerOK(r) /\ Place(r) /\ SawAnother(r))'
      BY <1>1 DEF CInv, HandlerOK, Place, SawAnother, Demotes, InLoop, Form, Kind, AtPC
    <2>2. (Permits(r) /\ PoliciesAgree(r))'
      BY <1>1 DEF CInv, Permits, PoliciesAgree, Target, Issued, Form, Kind
    <2>3. Rows(r)'
      <3>1. Rows(r) /\ RowsOf(r)' = RowsOf(r) /\ Count(r)' = Count(r)
        BY <1>1 DEF CInv, RowsOf, Count
      <3>2. /\ Form(r)' = Form(r) /\ (Kind(r, {"task"})' <=> Kind(r, {"task"}))
            /\ (InLoop(r)' <=> InLoop(r)) /\ request' = request
        BY <1>1 DEF Form, Kind, InLoop
      <3>. QED BY <3>1, <3>2 DEF Rows, AtPC
    <2>. QED BY <2>1, <2>2, <2>3
  <1>. QED BY <1>2, <1>3, <1>4, <1>5, <1>6 DEF CInv

LEMMA CInvAlways == ConsoleSpec => []CInv
  <1>1. ConsoleInit => CInv
    BY CInvInit
  <1>2. CInv /\ [ConsoleNext]_vars => CInv'
    <2>1. ConsoleNext => \E r \in Requests : Act(r)
      BY DEF ConsoleNext, Act
    <2>. QED BY <2>1, CInvAct, CInvStutter
  <1>. QED BY <1>1, <1>2, PTL DEF ConsoleSpec

-----------------------------------------------------------------------------
(* The theorems. *)

\* The tables of the console and what its handlers have read of them are of their types:
\* a handler's roles are rows of "roles", what it read of a policy or of the hosts is a row.
THEOREM ConsoleTypes == ConsoleSpec => []ConsoleTypeOK
  <1>1. CInv => ConsoleTypeOK
    BY DEF CInv, TablesOK, HandlerOK, ConsoleTypeOK
  <1>. QED BY <1>1, CInvAlways, PTL

\* isLastActiveAdmin and the writes behind it: an active administrator is left, for any
\* number of requests and users, unless two requests that take rights away overlapped.
THEOREM AdministratorAlwaysRemains == ConsoleSpec => []AdministratorRemains
  <1>1. CInv => AdministratorRemains
    BY DEF CInv
  <1>. QED BY <1>1, CInvAlways, PTL

\* createTask: no row of the "tasks" table was made without the roles for its agent, its type
\* and its policy, however many agents the form names and whatever changes in between.
THEOREM TasksAllowed == ConsoleSpec => []TaskAllowed
  <1>1. CInv => TaskAllowed
    BY DEF CInv, MadeAllowed
  <1>. QED BY <1>1, CInvAlways, PTL

\* createTask: wherever the loop over the agents stops, the rows are those of a prefix of the
\* form, and the browser is told "done" exactly when the prefix is the whole form.
THEOREM BatchesArePrefixes == ConsoleSpec => []BatchIsPrefix
  <1>1. ASSUME CInv, NEW r \in Requests, Kind(r, {"task"})
        PROVE  /\ \A m \in RowsOf(r) : /\ m.agent = Form(r).agents[m.id[2]]
                                       /\ \A i \in 1..m.id[2] : \E n \in RowsOf(r) : n.id[2] = i
               /\ request[r].answer = "done" <=> Form(r).valid /\ Count(r) = Len(Form(r).agents)
    <2>1. Rows(r) /\ Handlers
      BY <1>1 DEF CInv
    <2>2. CASE ~ Form(r).valid
      BY <1>1, <2>1, <2>2 DEF Rows
    <2>3. CASE Form(r).valid
      <3>1. Count(r) \in Nat
        BY <2>1, FS_CardinalityType DEF Rows, Count
      <3>2. Len(Form(r).agents) \in Nat
        <4>1. Form(r).agents \in Seq(Agents \cup {NoAgent})
          BY <1>1, <2>1, <2>3, FormOK DEF IsForm, Kind
        <4>. QED BY <4>1
      <3>3. ASSUME NEW m \in RowsOf(r), NEW i \in 1..m.id[2]
            PROVE  \E n \in RowsOf(r) : n.id[2] = i
        <4>1. m.id[2] \in 1..Count(r) /\ \A j \in 1..Count(r) : \E n \in RowsOf(r) : n.id[2] = j
          BY <1>1, <2>1, <2>3 DEF Rows
        <4>2. i \in 1..Count(r)
          BY <3>1, <4>1
        <4>. QED BY <4>1, <4>2
      <3>4. \A m \in RowsOf(r) : m.agent = Form(r).agents[m.id[2]]
        BY <1>1, <2>1, <2>3 DEF Rows
      <3>5. request[r].answer = "done" <=> Count(r) = Len(Form(r).agents)
        <4>1. IF request[r].answer = "done" THEN Count(r) = Len(Form(r).agents)
              ELSE Count(r) < Len(Form(r).agents)
          BY <1>1, <2>1, <2>3 DEF Rows
        <4>2. \A c, l \in Nat : c < l => c # l
          OBVIOUS
        <4>. QED BY <3>1, <3>2, <4>1, <4>2
      <3>. QED BY <2>3, <3>3, <3>4, <3>5
    <2>. QED BY <2>2, <2>3
  <1>2. CInv => BatchIsPrefix
    BY <1>1 DEF BatchIsPrefix, RowsOf, Count
  <1>. QED BY <1>2, CInvAlways, PTL

\* createTask: a row with files has all of them in its directory, whatever statement failed,
\* and a directory without a row was left by a request that has not been told "done".
THEOREM UploadsAlwaysMatch == ConsoleSpec => []UploadsMatchRows
  <1>1. ASSUME CInv, NEW t \in tasks, t.files
        PROVE  <<t.id, TRUE>> \in uploads /\ <<t.id, FALSE>> \notin uploads
    <2>1. <<t.id, TRUE>> \in uploads
      BY <1>1 DEF CInv, Directories
    <2>2. PICK q \in Requests : \E i \in 1..Count(q) : t.id = <<q, i>>
      BY <1>1 DEF CInv, Directories
    <2>3. PICK i \in 1..Count(q) : t.id = <<q, i>>
      BY <2>2
    <2>4. Count(q) \in Nat
      BY <1>1, FS_CardinalityType DEF CInv, Rows, Count
    <2>5. ASSUME <<t.id, FALSE>> \in uploads
          PROVE  FALSE
      <3>1. PICK r \in Requests :
              \E j \in 1..(Count(r) + 1), whole \in BOOLEAN :
                /\ <<t.id, FALSE>> = << <<r, j>>, whole>>
                /\ OfRow(r, j, whole) \/ OfNext(r, j, whole)
        <4>1. Directory(<<t.id, FALSE>>)
          BY <1>1, <2>5 DEF CInv, Directories
        <4>. QED BY <4>1 DEF Directory
      <3>2. PICK j \in 1..(Count(r) + 1) :
              <<q, i>> = <<r, j>> /\ (OfRow(r, j, FALSE) \/ OfNext(r, j, FALSE))
        BY <2>3, <3>1
      <3>3. r = q /\ j = i
        BY <3>2
      <3>4. i = Count(q) + 1
        BY <3>2, <3>3 DEF OfRow, OfNext
      <3>. QED BY <2>3, <2>4, <3>4
    <2>. QED BY <2>1, <2>5
  <1>2. ASSUME CInv, NEW d \in uploads
        PROVE  (\E t \in tasks : t.id = d[1]) \/ request[d[1][1]].answer # "done"
    <2>1. PICK r \in Requests :
            \E j \in 1..(Count(r) + 1), whole \in BOOLEAN :
              /\ d = << <<r, j>>, whole>>
              /\ OfRow(r, j, whole) \/ OfNext(r, j, whole)
      BY <1>2 DEF CInv, Directories, Directory
    <2>. QED BY <2>1 DEF OfRow, OfNext
  <1>3. CInv => UploadsMatchRows
    BY <1>1, <1>2 DEF UploadsMatchRows
  <1>. QED BY <1>3, CInvAlways, PTL

\* The foreign keys of the migrations hold for any number of policies, agents and requests:
\* deletes cascade to the bindings and clear or keep the tasks, and nothing that was read
\* before a delete is inserted after it.
THEOREM ReferencesAlwaysHold == ConsoleSpec => []ReferencesHold
  <1>1. CInv => ReferencesHold
    BY DEF CInv, References
  <1>. QED BY <1>1, CInvAlways, PTL
=============================================================================
