------------------------------- MODULE Console -------------------------------
(***************************************************************************)
(* The web console (server/internal/web/handlers.go): requests that are    *)
(* under way at once on the tables of Access and ExecPolicy and on the     *)
(* tasks they create.  A request is authenticated once; what its handler   *)
(* may do is decided by the roles of that moment.  Every statement of a    *)
(* handler is a step, so that the checks of one request and the writes of  *)
(* another interleave, and any statement may fail.                         *)
(***************************************************************************)
EXTENDS ExecPolicy

CONSTANTS
  Requests,    \* requests that may be under way
  Workloads,   \* what each of them submits, in the runs to consider
  Hostname,    \* of each agent
  FirstAgents, FirstPolicies, FirstBindings,  \* the rows there are at the start
  FirstFile,   \* an exported file from earlier
  PolicyNames, \* the names a policy is ever given
  MaxFaults    \* bound on failed statements and files

VARIABLES
  submission,  \* user, password and form of each request
  request,     \* the handler of each request
  tasks,       \* the rows of "tasks"
  uploads,     \* directories of uploaded files, as pairs task and whether complete
  file,        \* the file of the last export
  made,        \* history: the task rows as they were inserted, with what they were made of
  stored,      \* history: the rows each import inserted
  raced,       \* history: the administrators changed between a check and its write
  faults       \* how much of the bound is used

consoleVars == <<submission, request, tasks, uploads, file, made, stored, raced, faults>>
vars == <<accessVars, policyVars, consoleVars>>

-----------------------------------------------------------------------------
(* Forms and handlers. *)

AdminKinds == {"status", "roles", "user", "password", "policy", "policy_update",
               "policy_delete", "binding", "binding_update", "binding_delete",
               "export", "import", "access"}

NoRow == {}
Shown == [agents |-> {}, tasks |-> {}, policies |-> {}, bindings |-> {}, users |-> {}]

Handler(pc, roles, todo) ==
  [pc |-> pc, roles |-> roles, todo |-> todo, policy |-> NoRow, binding |-> NoRow,
   result |-> NoRow, admins |-> {}, known |-> {}, file |-> {}, left |-> {}, cur |-> {},
   report |-> {}, shown |-> Shown, answer |-> "none"]

PCs == {"new", "check", "ensure", "write", "agent", "policy", "binding", "insert", "reads",
        "detail", "agents", "import", "over"}
Answers == {"none", "unauthorized", "forbidden", "refused", "error", "done", "not_found"}

\* The queries of a page, in their order.
Queries(kind) ==
  CASE kind = "agents"   -> <<"agents">>
    [] kind = "tasks"    -> <<"tasks", "agents">>
    [] kind = "new_task" -> <<"agents", "tasks", "policies">>
    [] kind \in {"access", "import"} -> <<"users", "agents", "policies", "bindings">>
    [] kind = "export"   -> <<"policies", "bindings", "agents">>
    [] kind = "task"     -> <<"agents", "tasks", "policies">>  \* the form again, with an error

Form(r) == submission[r].form
AtPC(r, pc) == request[r].pc = pc
Kind(r, kinds) == Form(r).kind \in kinds

Goto(r, pc) == request' = [request EXCEPT ![r].pc = pc]
Answer(r, answer) == request' = [request EXCEPT ![r].pc = "over", ![r].answer = answer]

\* showNewTaskForm with an error.
Refuse(r) == request' = [request EXCEPT ![r].pc = "reads", ![r].answer = "refused",
                                        ![r].todo = Queries("task")]

Fault == faults < MaxFaults /\ faults' = faults + 1

-----------------------------------------------------------------------------
(* What the constants are. *)

IsPolicyRow(x) ==
  /\ DOMAIN x = {"id", "name", "active", "command", "args", "params"}
  /\ x.id \in Policies /\ x.name \in PolicyNames /\ x.active \in BOOLEAN
  /\ IsFiniteSet(x.params) /\ \A d \in x.params : IsText(d.default)

\* Values of parameters, from a form or a binding.
IsValues(values) == IsFiniteSet(DOMAIN values) /\ \A n \in DOMAIN values : IsText(values[n])

IsBindingRow(b) ==
  /\ DOMAIN b = {"id", "policy", "agent", "command", "args", "values", "active"}
  /\ b.policy \in Policies /\ b.agent \in Agents

\* An exported file: names are unique in the table of policies, pairs in that of bindings.
IsBundle(items) ==
  \A x, y \in items :
    /\ IsPolicyRow(x.policy)
    /\ x.policy.name = y.policy.name => x = y
    /\ \A b \in x.bindings : IsValues(b.values)
    /\ \A b, c \in x.bindings : b.agent = c.agent => b = c

\* The fields of a form that parses; the ids an import gives are new (uuid.New).
IsForm(form) ==
  /\ form.valid \in BOOLEAN
  /\ form.valid =>
     /\ form.kind \in {"status", "roles", "user", "password"} => form.user \in Users
     /\ form.kind = "status" => form.active \in BOOLEAN
     /\ form.kind \in {"user", "password"} => form.password \in Passwords
     /\ form.kind \in {"policy", "policy_update"} => IsPolicyRow(form.row)
     /\ form.kind \in {"binding", "binding_update"} =>
          IsBindingRow(form.row) /\ IsValues(form.row.values)
     /\ form.kind = "task" => /\ form.agents \in Seq(Agents \cup {NoAgent}) /\ form.agents # <<>>
                              /\ form.type \in TaskTypes /\ form.files \in BOOLEAN
                              /\ \/ form.policy = {}
                                 \/ IsValues(form.values) /\ \E p \in Policies : form.policy = {p}
     /\ form.kind = "import" => /\ form.ids \in [PolicyNames -> Policies]
                                /\ \A m, n \in PolicyNames : form.ids[m] = form.ids[n] => m = n

\* The users of the start are typed, and one of them can administer.
ASSUME AccountsAssumption ==
  /\ IsFiniteSet(Users)
  /\ Accounts \in [Users -> [exists : BOOLEAN, active : BOOLEAN, password : Passwords,
                            roles : SUBSET UNION {Accounts[u].roles : u \in Users}]]
  /\ \E u \in Users : Accounts[u].exists /\ Accounts[u].active /\ IsAdmin(Accounts[u].roles)

\* The rows of the start refer to each other, the file of an earlier export is one.
ASSUME RowsAssumption ==
  /\ MaxFaults \in Nat
  /\ FirstAgents \subseteq Agents /\ NoAgent \notin Agents
  /\ \A x, y \in FirstPolicies : /\ IsPolicyRow(x)
                                 /\ x.id = y.id \/ x.name = y.name => x = y
  /\ \A b \in FirstBindings : /\ IsBindingRow(b) /\ IsValues(b.values) /\ b.agent \in FirstAgents
                              /\ \E x \in FirstPolicies : x.id = b.policy
  /\ \A b, c \in FirstBindings : b.policy = c.policy /\ b.agent = c.agent => b = c
  /\ IsBundle(FirstFile)

\* A new binding gets an id that no other has (uuid.New).
ASSUME FormsAssumption ==
  \A w \in Workloads :
    /\ \A r \in Requests : /\ w[r].user \in Users
                           /\ IsForm(w[r].form)
    /\ LET new == {q \in Requests : w[q].form.kind = "binding" /\ w[q].form.valid}
           rows == FirstBindings \cup {w[q].form.row : q \in new}
       IN  \A b, c \in rows : /\ b.id = c.id => b.policy = c.policy
                              /\ b.id \notin Requests \X Policies \X Agents

ConsoleTypeOK ==
  /\ AccessTypeOK
  /\ agents \subseteq Agents
  /\ \A x \in policies : IsPolicyRow(x)
  /\ \A b \in bindings : IsBindingRow(b)
  /\ \A r \in Requests :
       /\ request[r].pc \in PCs /\ request[r].answer \in Answers
       /\ request[r].roles \subseteq role /\ request[r].known \subseteq Agents
       /\ request[r].admins \subseteq Users
  /\ \A t \in tasks : t.agent \in Agents \cup {NoAgent} /\ t.type \in TaskTypes
  /\ raced \in BOOLEAN /\ faults \in 0..MaxFaults

ConsoleInit ==
  /\ AccessInit
  /\ agents = FirstAgents /\ policies = FirstPolicies /\ bindings = FirstBindings
  /\ submission \in Workloads
  /\ request = [r \in Requests |-> Handler("new", {}, <<>>)]
  /\ tasks = {} /\ uploads = {} /\ file = FirstFile
  /\ made = {} /\ stored = {} /\ raced = FALSE /\ faults = 0

-----------------------------------------------------------------------------
(* The beginning of every handler: authentication, the checks that need no *)
(* query, and where it goes on.                                            *)

Entry(form) ==
  CASE form.kind = "status"   -> IF form.active THEN "write" ELSE "check"
    [] form.kind = "roles"    -> IF form.roles \cap AdminRoles # {} THEN "ensure" ELSE "check"
    [] form.kind = "task"     -> IF form.valid THEN "agent" ELSE "reads"
    [] form.kind = "import"   -> IF form.valid THEN "agents" ELSE "ensure"
    [] form.kind = "access"   -> "ensure"
    [] form.kind = "detail"   -> "detail"
    [] form.kind \in {"agents", "tasks", "new_task", "export"} -> "reads"
    [] OTHER                  -> "write"

Permitted(form, roles) ==
  /\ form.kind \in AdminKinds => IsAdmin(roles)
  /\ form.kind = "task" => CanRunTaskType(roles, form.type)
  /\ form.kind = "delete_agent" => HasAgentPermission(roles, form.agent, "delete")
  /\ form.kind = "tasks" /\ form.agent # NoAgent => HasAgentPermission(roles, form.agent, "task_view")

\* valid: names are given and the JSON of the form parses.  A task or an import that is not
\* valid gets a page with the error.
Opened(form, roles) ==
  LET refused == form.kind = "task" /\ ~ form.valid
      todo == IF Entry(form) = "reads" THEN Queries(form.kind)
              ELSE IF form.kind = "task" THEN form.agents ELSE <<>>
  IN  [Handler(Entry(form), roles, todo) EXCEPT !.answer = IF refused THEN "refused" ELSE @]

Open(r) ==
  /\ AtPC(r, "new")
  /\ LET form == Form(r)
         principal == AuthenticateUser(submission[r].user, submission[r].password)
     IN  IF principal = {} THEN Answer(r, "unauthorized")
         ELSE \E roles \in principal :
           IF ~ Permitted(form, roles) THEN Answer(r, "forbidden")
           ELSE IF ~ form.valid /\ form.kind \notin {"task", "import"} THEN Answer(r, "refused")
           ELSE request' = [request EXCEPT ![r] = Opened(form, roles)]
  /\ UNCHANGED <<accessVars, policyVars, submission, tasks, uploads, file, made, stored, raced, faults>>

\* A statement fails, or the browser has gone: the handler gives up where it is (deleteAgent
\* does not look at the error).  An import goes on, see ImportPolicy.
Fail(r) ==
  /\ request[r].pc \in PCs \ {"new", "agent", "import", "over"}
  /\ Fault
  /\ IF AtPC(r, "policy") \/ AtPC(r, "binding") THEN Refuse(r)
     ELSE Answer(r, IF Kind(r, {"delete_agent"}) THEN "done" ELSE "error")
  /\ UNCHANGED <<accessVars, policyVars, submission, tasks, uploads, file, made, stored, raced>>

-----------------------------------------------------------------------------
(* Users. *)

\* ListUsers and isLastActiveAdmin.
CheckLastAdmin(r) ==
  /\ AtPC(r, "check")
  /\ IF IsLastActiveAdmin(Form(r).user) THEN Answer(r, "refused")
     ELSE request' = [request EXCEPT ![r].pc = IF Kind(r, {"roles"}) THEN "ensure" ELSE "write",
                                     ![r].admins = ActiveAdmins]
  /\ UNCHANGED <<accessVars, policyVars, submission, tasks, uploads, file, made, stored, raced, faults>>

\* A write that takes an administrator's rights away relies on what its check has seen.
NoteRace(r, demotes) == raced' = (raced \/ (demotes /\ request[r].admins # ActiveAdmins))

WriteStatus(r) ==
  /\ AtPC(r, "write") /\ Kind(r, {"status"})
  /\ UpdateUserStatus(Form(r).user, Form(r).active)
  /\ NoteRace(r, ~ Form(r).active)
  /\ Answer(r, "done")
  /\ UNCHANGED <<role, policyVars, submission, tasks, uploads, file, made, stored, faults>>

\* Also the beginning of the access page, for an import as well.
PrepareRoles(r) ==
  /\ AtPC(r, "ensure")
  /\ IF Kind(r, {"roles"})
     THEN /\ EnsureRoles(DefaultManagedRoles \cup GrantsOf(Form(r).roles))
          /\ Goto(r, "write")
     ELSE /\ EnsureRoles(DefaultManagedRoles)
          /\ request' = [request EXCEPT ![r].pc = "reads", ![r].todo = Queries("access")]
  /\ UNCHANGED <<user, policyVars, submission, tasks, uploads, file, made, stored, raced, faults>>

WriteRoles(r) ==
  /\ AtPC(r, "write") /\ Kind(r, {"roles"})
  /\ LET names == Form(r).roles IN
     IF CanSetUserRoles(Form(r).user)
     THEN SetUserRoles(Form(r).user, names) /\ NoteRace(r, ~ IsAdmin(names)) /\ Answer(r, "done")
     ELSE Answer(r, "error") /\ UNCHANGED <<user, raced>>
  /\ UNCHANGED <<role, policyVars, submission, tasks, uploads, file, made, stored, faults>>

WriteUser(r) ==
  /\ AtPC(r, "write") /\ Kind(r, {"user", "password"})
  /\ IF Kind(r, {"password"})
     THEN UpdateUserPassword(Form(r).user, Form(r).password) /\ Answer(r, "done")
     ELSE IF CanCreateUser(Form(r).user)
     THEN CreateUser(Form(r).user, Form(r).password) /\ Answer(r, "done")
     ELSE Answer(r, "error") /\ UNCHANGED user
  /\ UNCHANGED <<role, policyVars, submission, tasks, uploads, file, made, stored, raced, faults>>

-----------------------------------------------------------------------------
(* Policies, bindings and agents.  A task row whose policy, binding or      *)
(* agent is deleted stays without it (ON DELETE SET NULL).                  *)

Detach(t) ==
  [t EXCEPT !.agent = IF @ \in agents' THEN @ ELSE NoAgent,
            !.policy = {p \in @ : \E x \in policies' : x.id = p},
            !.binding = {i \in @ : \E b \in bindings' : b.id = i}]

WritePolicy(r) ==
  /\ AtPC(r, "write") /\ Kind(r, {"policy", "policy_update", "policy_delete"})
  /\ LET row == Form(r).row IN
     \/ /\ Kind(r, {"policy"}) /\ CanCreateExecCommandPolicy(row)
        /\ CreateExecCommandPolicy(row) /\ Answer(r, "done")
     \/ /\ Kind(r, {"policy_update"}) /\ CanUpdateExecCommandPolicy(row)
        /\ UpdateExecCommandPolicy(row) /\ Answer(r, "done")
     \/ /\ Kind(r, {"policy_delete"})
        /\ DeleteExecCommandPolicy(row.id) /\ Answer(r, "done")
     \/ /\ \/ Kind(r, {"policy"}) /\ ~ CanCreateExecCommandPolicy(row)
           \/ Kind(r, {"policy_update"}) /\ ~ CanUpdateExecCommandPolicy(row)
        /\ Answer(r, "error") /\ UNCHANGED policyVars
  /\ tasks' = {Detach(t) : t \in tasks}
  /\ UNCHANGED <<accessVars, submission, uploads, file, made, stored, raced, faults>>

WriteBinding(r) ==
  /\ AtPC(r, "write") /\ Kind(r, {"binding", "binding_update", "binding_delete"})
  /\ LET row == Form(r).row IN
     \/ /\ Kind(r, {"binding"}) /\ CanCreateExecCommandPolicyBinding(row)
        /\ CreateExecCommandPolicyBinding(row) /\ Answer(r, "done")
     \/ /\ Kind(r, {"binding"}) /\ ~ CanCreateExecCommandPolicyBinding(row)
        /\ Answer(r, "error") /\ UNCHANGED policyVars
     \/ /\ Kind(r, {"binding_update"})
        /\ UpdateExecCommandPolicyBinding(row.id, row) /\ Answer(r, "done")
     \/ /\ Kind(r, {"binding_delete"})
        /\ DeleteExecCommandPolicyBinding(row.id) /\ Answer(r, "done")
  /\ tasks' = {Detach(t) : t \in tasks}
  /\ UNCHANGED <<accessVars, submission, uploads, file, made, stored, raced, faults>>

RemoveAgent(r) ==
  /\ AtPC(r, "write") /\ Kind(r, {"delete_agent"})
  /\ DeleteAgent(Form(r).agent)
  /\ tasks' = {Detach(t) : t \in tasks}
  /\ Answer(r, "done")
  /\ UNCHANGED <<accessVars, submission, uploads, file, made, stored, raced, faults>>

-----------------------------------------------------------------------------
(* createTask: one row after the other, for each agent of the form.         *)

Index(r) == Len(Form(r).agents) - Len(request[r].todo) + 1
TaskId(r) == <<r, Index(r)>>
Target(r) == Head(request[r].todo)

Checked(r) == IF Form(r).policy # NoRow THEN "policy" ELSE "insert"

CopyFails_Ignored(r) == Goto(r, Checked(r))

CopyFails(r) == Answer(r, "error")

\* The checks for one agent, whose id may be none at all, and its copies of the files.
StartRow(r) ==
  /\ AtPC(r, "agent")
  /\ IF Target(r) = NoAgent THEN Refuse(r) /\ UNCHANGED <<uploads, faults>>
     ELSE IF ~ CanCreateTaskTypeForAgent(request[r].roles, Target(r), Form(r).type)
     THEN Answer(r, "forbidden") /\ UNCHANGED <<uploads, faults>>
     ELSE IF ~ Form(r).files THEN Goto(r, Checked(r)) /\ UNCHANGED <<uploads, faults>>
     ELSE \/ /\ uploads' = uploads \cup {<<TaskId(r), TRUE>>}
             /\ Goto(r, Checked(r))
             /\ UNCHANGED faults
          \/ /\ Fault
             /\ uploads' = uploads \cup {<<TaskId(r), FALSE>>}
             /\ CopyFails(r)
  /\ UNCHANGED <<accessVars, policyVars, submission, tasks, file, made, stored, raced>>

\* resolveExecPolicyTask: permission and policy.
ReadPolicy(r) ==
  /\ AtPC(r, "policy")
  /\ \E p \in Form(r).policy :
       IF ~ HasExecPolicyPermission(request[r].roles, p, "use") THEN Answer(r, "forbidden")
       ELSE LET found == {x \in GetExecCommandPolicyByID(p) : x.active}
            IN  IF found = {} THEN Refuse(r)
                ELSE request' = [request EXCEPT ![r].pc = "binding", ![r].policy = found]
  /\ UNCHANGED <<accessVars, policyVars, submission, tasks, uploads, file, made, stored, raced, faults>>

\* resolveExecPolicyTask: binding and command.
ReadBinding(r) ==
  /\ AtPC(r, "binding")
  /\ \E policy \in request[r].policy :
       LET found == GetExecCommandPolicyBinding(policy.id, Target(r))
           commands == UNION {Resolve(policy, b, Form(r).values) : b \in found}
       IN  IF commands = {} THEN Refuse(r)
           ELSE \E c \in commands :
                  request' = [request EXCEPT ![r].pc = "insert", ![r].binding = found,
                                             ![r].result = {c}]
  /\ UNCHANGED <<accessVars, policyVars, submission, tasks, uploads, file, made, stored, raced, faults>>

\* Agent, policy and binding are foreign keys.
CanInsert(row) ==
  /\ row.agent \in agents
  /\ \A p \in row.policy : GetExecCommandPolicyByID(p) # {}
  /\ \A i \in row.binding : \E b \in bindings : b.id = i

NextAgent(r) ==
  LET rest == Tail(request[r].todo) IN
  request' = [request EXCEPT ![r] =
    IF rest = <<>> THEN [Handler("over", @.roles, <<>>) EXCEPT !.answer = "done"]
    ELSE Handler("agent", @.roles, rest)]

InsertFails_NextAgent(r) == NextAgent(r)

InsertFails(r) == Answer(r, "error")

InsertTask(r) ==
  /\ AtPC(r, "insert")
  /\ LET row == [id |-> TaskId(r), agent |-> Target(r), type |-> Form(r).type,
                 policy |-> {x.id : x \in request[r].policy},
                 binding |-> {b.id : b \in request[r].binding}, files |-> Form(r).files]
     IN  IF ~ CanInsert(row) THEN InsertFails(r) /\ UNCHANGED <<tasks, made>>
         ELSE /\ tasks' = tasks \cup {row}
              /\ made' = made \cup {[id |-> row.id, agent |-> row.agent, policy |-> request[r].policy,
                                     binding |-> request[r].binding, result |-> request[r].result]}
              /\ NextAgent(r)
  /\ UNCHANGED <<accessVars, policyVars, submission, uploads, file, stored, raced, faults>>

-----------------------------------------------------------------------------
(* Pages and the export: one query after the other.                         *)

AnyAgents(roles) == {a \in agents : HasAnyAgentPermission(roles, a)}
AgentsForTask(roles) == {a \in agents : HasAgentPermission(roles, a, "task_create")}
TasksFor(roles) == {t \in tasks : HasAgentPermission(roles, t.agent, "task_view")}
TasksOfPage(roles, agent) == {t \in TasksFor(roles) : agent \in {NoAgent, t.agent}}
AccessibleExecPolicies(roles) ==
  {x \in policies : x.active /\ HasExecPolicyPermission(roles, x.id, "use")}

\* What the principal is shown of a table; administrators' pages show all of it.
Visible(r, table) ==
  LET roles == request[r].roles
      all == Kind(r, {"access", "export", "import"})
  IN CASE table = "agents" /\ Kind(r, {"new_task", "task"}) -> AgentsForTask(roles)
       [] table = "agents" /\ Kind(r, {"agents", "tasks"}) -> AnyAgents(roles)
       [] table = "agents" /\ all -> agents
       [] table = "tasks" /\ Kind(r, {"tasks"}) -> TasksOfPage(roles, Form(r).agent)
       [] table = "tasks" /\ ~ Kind(r, {"tasks"}) -> TasksFor(roles)
       [] table = "policies" -> IF all THEN policies ELSE AccessibleExecPolicies(roles)
       [] table = "bindings" -> bindings
       [] table = "users" -> {u \in Users : user[u].exists}

\* A binding names its agent by id and by host name, if the agent was listed.
Exported(b, listed) ==
  [agent |-> b.agent, host |-> {Hostname[b.agent] : a \in {b.agent} \cap listed},
   command |-> b.command, args |-> b.args, values |-> b.values, active |-> b.active]

Bundle(shown) ==
  {[policy |-> x, bindings |-> {Exported(b, shown.agents) :
                                  b \in {c \in shown.bindings : c.policy = x.id}}] :
     x \in shown.policies}

Read(r) ==
  /\ AtPC(r, "reads")
  /\ LET h == request[r]
         table == Head(h.todo)
         shown == [h.shown EXCEPT ![table] = Visible(r, table)]
         last == Tail(h.todo) = <<>>
     IN  /\ request' = [request EXCEPT ![r] =
              [h EXCEPT !.todo = Tail(h.todo), !.shown = shown,
                        !.pc = IF last THEN "over" ELSE "reads",
                        !.answer = IF last /\ @ = "none" THEN "done" ELSE @]]
         /\ file' = IF last /\ Kind(r, {"export"}) THEN Bundle(shown) ELSE file
  /\ UNCHANGED <<accessVars, policyVars, submission, tasks, uploads, made, stored, raced, faults>>

OfTask(task) == {t.agent : t \in {u \in tasks : u.id = task}}
OfMetrics(agent) == {agent} \cap agents

\* A page about one row: a task, the form of its schedule, the metrics of an agent.
Detail(r) ==
  /\ AtPC(r, "detail")
  /\ LET form == Form(r)
         found == IF form.permission = "metrics_view" THEN OfMetrics(form.agent) ELSE OfTask(form.task)
     IN  IF found = {} THEN Answer(r, "not_found")
         ELSE \E a \in found :
           IF HasAgentPermission(request[r].roles, a, form.permission) THEN Answer(r, "done")
           ELSE Answer(r, "forbidden")
  /\ UNCHANGED <<accessVars, policyVars, submission, tasks, uploads, file, made, stored, raced, faults>>

-----------------------------------------------------------------------------
(* importExecPolicies: every policy and binding of the file on its own.     *)

ListAgents(r) ==
  /\ AtPC(r, "agents")
  /\ request' = [request EXCEPT ![r].pc = "import", ![r].known = agents,
                                  ![r].file = file, ![r].left = file]
  /\ UNCHANGED <<accessVars, policyVars, submission, tasks, uploads, file, made, stored, raced, faults>>

Report(h, level, item) == [h EXCEPT !.report = @ \cup {<<level, item>>}]

\* A policy gets a new id; its bindings come next, unless it could not be stored.
ImportPolicy(r) ==
  /\ AtPC(r, "import") /\ request[r].cur = {}
  /\ \E item \in request[r].left :
       LET h == [request[r] EXCEPT !.left = @ \ {item}]
           row == [item.policy EXCEPT !.id = Form(r).ids[item.policy.name]]
       IN  \/ /\ CanCreateExecCommandPolicy(row)
              /\ CreateExecCommandPolicy(row)
              /\ stored' = stored \cup {<<r, "policy", row>>}
              /\ request' = [request EXCEPT ![r] =
                   Report([h EXCEPT !.cur = item.bindings, !.policy = {row}], "success", <<row.name>>)]
              /\ UNCHANGED faults
           \/ /\ IF CanCreateExecCommandPolicy(row) THEN Fault ELSE UNCHANGED faults
              /\ request' = [request EXCEPT ![r] = Report(h, "error", <<row.name>>)]
              /\ UNCHANGED <<policyVars, stored>>
  /\ UNCHANGED <<accessVars, submission, tasks, uploads, file, made, raced>>

\* The agent of a binding: by id, else by host name; which one of several agents with the
\* name is the last of the list.
Matches(r, b) ==
  IF b.agent \in request[r].known THEN {b.agent}
  ELSE {a \in request[r].known : Hostname[a] \in b.host}

BindingRow_Active(r, policy, b, a) ==
  [id |-> <<r, policy.id, a>>, policy |-> policy.id, agent |-> a, command |-> b.command,
   args |-> b.args, values |-> b.values, active |-> TRUE]

BindingRow(r, policy, b, a) ==
  [id |-> <<r, policy.id, a>>, policy |-> policy.id, agent |-> a, command |-> b.command,
   args |-> b.args, values |-> b.values, active |-> b.active]

ImportBinding(r) ==
  /\ AtPC(r, "import")
  /\ \E b \in request[r].cur, policy \in request[r].policy :
       LET h == [request[r] EXCEPT !.cur = @ \ {b}]
           item == <<policy.name, b.agent>>
       IN  IF Matches(r, b) = {}
           THEN /\ request' = [request EXCEPT ![r] = Report(h, "warning", item)]
                /\ UNCHANGED <<policyVars, stored, faults>>
           ELSE \E a \in Matches(r, b) :
             LET row == BindingRow(r, policy, b, a)
             IN  \/ /\ CanCreateExecCommandPolicyBinding(row)
                    /\ CreateExecCommandPolicyBinding(row)
                    /\ stored' = stored \cup {<<r, "binding", row>>}
                    /\ request' = [request EXCEPT ![r] = Report(h, "success", item)]
                    /\ UNCHANGED faults
                 \/ /\ IF CanCreateExecCommandPolicyBinding(row) THEN Fault ELSE UNCHANGED faults
                    /\ request' = [request EXCEPT ![r] = Report(h, "error", item)]
                    /\ UNCHANGED <<policyVars, stored>>
  /\ UNCHANGED <<accessVars, submission, tasks, uploads, file, made, raced>>

\* The access page with the report.
ImportEnds(r) ==
  /\ AtPC(r, "import") /\ request[r].left = {} /\ request[r].cur = {}
  /\ Goto(r, "ensure")
  /\ UNCHANGED <<accessVars, policyVars, submission, tasks, uploads, file, made, stored, raced, faults>>

ConsoleNext ==
  \E r \in Requests :
    \/ Open(r) \/ Fail(r)
    \/ CheckLastAdmin(r) \/ WriteStatus(r) \/ PrepareRoles(r) \/ WriteRoles(r) \/ WriteUser(r)
    \/ WritePolicy(r) \/ WriteBinding(r) \/ RemoveAgent(r)
    \/ StartRow(r) \/ ReadPolicy(r) \/ ReadBinding(r) \/ InsertTask(r)
    \/ Read(r) \/ Detail(r)
    \/ ListAgents(r) \/ ImportPolicy(r) \/ ImportBinding(r) \/ ImportEnds(r)

ConsoleSpec == ConsoleInit /\ [][ConsoleNext]_vars

-----------------------------------------------------------------------------
(* Properties. *)

\* "Cannot disable the last active administrator" (handlers.go): whatever forms are sent,
\* somebody can still administer the console - unless two requests that take rights away
\* have overlapped, each relying on the administrator the other removed.
AdministratorRemains == ActiveAdmins # {} \/ raced

\* createTask: every row was permitted, for its agent and its type, by the roles its
\* creator had, at whatever place of the form the agent stands; so was the policy.
TaskAllowed ==
  \A m \in made :
    LET r == m.id[1]  roles == request[r].roles IN
    \/ IsAdmin(roles)
    \/ /\ RoleForTaskType(Form(r).type) \in roles
       /\ \E n \in roles : n \in {RoleForAgent(m.agent), RoleForAgentPermission(m.agent, "task_create")}
       /\ \A x \in m.policy : RoleForExecPolicy(x.id, "use") \in roles

\* createTask, with no transaction around the loop: the rows that are there belong to the
\* first agents of the form, without a gap, and all of them are there exactly when the
\* browser is sent to the list of tasks.
BatchIsPrefix ==
  \A r \in Requests : Kind(r, {"task"}) =>
    LET rows == {m \in made : m.id[1] = r} IN
    /\ \A m \in rows : /\ m.agent = Form(r).agents[m.id[2]]
                       /\ \A i \in 1..m.id[2] : \E n \in rows : n.id[2] = i
    /\ request[r].answer = "done" <=> Form(r).valid /\ Cardinality(rows) = Len(Form(r).agents)

\* createTask saves files before it inserts the row: a row with files has all of them, and
\* a directory without a row belongs to a request that is under way or has failed.
UploadsMatchRows ==
  /\ \A t \in tasks : t.files => <<t.id, TRUE>> \in uploads /\ <<t.id, FALSE>> \notin uploads
  /\ \A d \in uploads : \/ \E t \in tasks : t.id = d[1]
                        \/ request[d[1][1]].answer # "done"

\* The value a parameter ought to have: the user's if the user may edit it, else that of
\* the binding, else the default.
Edited(def, given) == def.editable /\ def.name \in DOMAIN given
Due(def, binding, given) ==
  IF Edited(def, given) THEN given[def.name]
  ELSE IF def.name \in DOMAIN binding.values THEN binding.values[def.name] ELSE def.default
HasDue(def, binding, given) ==
  Edited(def, given) \/ def.name \in DOMAIN binding.values \/ def.default # <<>>

ValueChecked(def, binding, given) ==
  LET value == TrimSpace(Due(def, binding, given)) IN
  /\ def.required => value # <<>>
  /\ value # <<>> /\ (def.editable \/ def.name \in DOMAIN binding.values) =>
       /\ def.allowed # {} => value \in def.allowed
       /\ def.matching # {} => value \in def.matching

\* What becomes of a word of the template that is the placeholder of a parameter.
Plain(text) == \A i \in DOMAIN text : text[i][1] # "ref"
Placed(template, text, def, binding, given) ==
  template = <<Ref(def.name)>> =>
    IF HasDue(def, binding, given)
    THEN Plain(Due(def, binding, given)) => text = Due(def, binding, given)
    ELSE text = template

\* What a command has to do with its policy, its binding and the values of the form; nothing
\* checks that the parameters of a policy have different names.
Conforms(x, b, c, given) ==
  LET args == IF b.args = <<>> THEN x.args ELSE b.args
      command == IF TrimSpace(b.command) = <<>> THEN x.command ELSE b.command
  IN  /\ DOMAIN c.args = DOMAIN args
      /\ (\A d, e \in x.params : d.name = e.name => d = e) =>
           \A d \in x.params :
             /\ ValueChecked(d, b, given)
             /\ Placed(command, c.command, d, b, given)
             /\ \A i \in DOMAIN args : Placed(args[i], c.args[i], d, b, given)

\* resolveExecPolicyTask: a row of a form with a policy has a command of that policy, and
\* policy and binding were active when they were read, and for this agent; no required parameter
\* is blank in it; a value the user or the binding gave is one the policy allows, and the user
\* gave none that is not editable; a word that stands for one parameter becomes the value of
\* that parameter, unless the value itself contains a placeholder, and stays as it is if there
\* is none.
PolicyTaskConforms ==
  \A m \in made :
    LET form == Form(m.id[1]) IN
    /\ form.policy # {} => m.policy # {} /\ m.binding # {} /\ m.result # {}
    /\ \A x \in m.policy, b \in m.binding, c \in m.result :
         /\ x.active /\ b.active /\ {x.id} = form.policy
         /\ b.policy = x.id /\ b.agent = m.agent
         /\ Conforms(x, b, c, form.values)

\* The foreign keys (migrations 001 and 012): whatever is deleted between the read of a
\* policy or binding and the insert of a task, an import or a later update, no row refers to
\* a row that is gone.
ReferencesHold ==
  /\ \A b \in bindings : b.agent \in agents /\ \E x \in policies : x.id = b.policy
  /\ \A t \in tasks : /\ t.agent \in agents \cup {NoAgent}
                      /\ \A p \in t.policy : \E x \in policies : x.id = p
                      /\ \A i \in t.binding : \E b \in bindings : b.id = i /\ {b.policy} = t.policy

\* importExecPolicies: when the report is shown, every policy of the file has been stored as
\* it was exported, or is reported as an error; a binding of a stored policy has been stored
\* with what was exported for it, or is reported as missing or failed.  Two bindings of the
\* file become one row, the later over the earlier and both reported as stored, only when one
\* of them names an agent that is gone and was matched by its host name.
Accounted(r, item) ==
  LET rows(table) == {s[3] : s \in {q \in stored : q[1] = r /\ q[2] = table}}
      copies == rows("policy") \cap {[item.policy EXCEPT !.id = Form(r).ids[item.policy.name]]}
      report == request[r].report
  IN  IF <<"error", <<item.policy.name>>>> \in report THEN copies = {}
      ELSE /\ copies # {} /\ <<"success", <<item.policy.name>>>> \in report
           /\ \A b \in item.bindings :
                LET name == <<item.policy.name, b.agent>> IN
                \/ \E l \in {"warning", "error"} : <<l, name>> \in report
                \/ /\ <<"success", name>> \in report
                   /\ \E x \in copies, c \in rows("binding") :
                        /\ c.id = <<r, x.id, c.agent>>
                        /\ c.agent = b.agent \/ Hostname[c.agent] \in b.host
                        /\ <<c.command, c.args, c.values, c.active>> =
                             <<b.command, b.args, b.values, b.active>>
           /\ \A x \in copies, c, d \in rows("binding") :
                c.policy = x.id /\ c.id = d.id /\ c # d =>
                  \E b \in item.bindings : b.agent \notin request[r].known /\ Hostname[c.agent] \in b.host
ImportAccounted ==
  \A r \in Requests :
    Kind(r, {"import"}) /\ request[r].pc \in {"ensure", "reads", "over"} =>
      \A item \in request[r].file : Accounted(r, item)
=============================================================================
