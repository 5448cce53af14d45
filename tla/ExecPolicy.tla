----------------------------- MODULE ExecPolicy -----------------------------
(***************************************************************************)
(* Command policies: the tables "exec_command_policies" and                *)
(* "exec_command_policy_bindings" with their foreign keys (server/         *)
(* internal/storage/postgres.go, db/migrations/012), and how a policy, its *)
(* binding to an agent and the values of a form become a command (server/  *)
(* internal/web/exec_policies.go).                                         *)
(*                                                                         *)
(* A text is a sequence of tokens: a literal word, Space, or Ref(n), the   *)
(* placeholder {{n}} of the parameter n.  A template is a text, and so is  *)
(* a value, since nothing keeps a placeholder out of one.                  *)
(***************************************************************************)
EXTENDS Access, SequencesExt

VARIABLES
  agents,      \* the rows of "agents": their ids
  policies,    \* the rows of "exec_command_policies"
  bindings     \* the rows of "exec_command_policy_bindings"

policyVars == <<agents, policies, bindings>>

-----------------------------------------------------------------------------
(* Texts. *)

Space == <<"space">>
Word(w) == <<"word", w>>
Ref(n) == <<"ref", n>>
IsText(text) == text \in Seq({text[i] : i \in DOMAIN text})

TrimSpace(text) ==
  LET kept == {i \in DOMAIN text : text[i] # Space}
  IN  IF kept = {} THEN <<>>
      ELSE SubSeq(text, CHOOSE i \in kept : \A j \in kept : i <= j,
                        CHOOSE i \in kept : \A j \in kept : i >= j)

Substitute(text, n, value) ==
  FlattenSeq([i \in DOMAIN text |-> IF text[i] = Ref(n) THEN value ELSE <<text[i]>>])

\* The parameters are replaced one after the other, in the order of a Go map: a
\* placeholder in a value is replaced too if its own turn comes later.
InterpolateExecTemplate(text, values) ==
  {FoldLeft(LAMBDA t, n : Substitute(t, n, values[n]), text, order) :
     order \in SetToSeqs(DOMAIN values)}

-----------------------------------------------------------------------------
(* Values.  A definition of a parameter has a set of values it allows and  *)
(* a set its regular expression matches; {} is a definition without.       *)

ValueOf(values, n) == IF n \in DOMAIN values THEN values[n] ELSE <<>>

\* The checks look at the trimmed value, the command gets it as it is.
Acceptable(def, value) ==
  LET v == TrimSpace(value) IN
  IF v = <<>> THEN ~ def.required
  ELSE /\ def.matching = {} \/ v \in def.matching
       /\ def.allowed = {} \/ v \in def.allowed

ValidateExecPolicyValues(defs, values, userInputOnly) ==
  \A def \in defs : (userInputOnly => def.editable) => Acceptable(def, ValueOf(values, def.name))

MergeExecPolicyValues_NotOnlyEditable(defs, bindingValues, userValues) ==
  LET defaults == {def \in defs : def.default # <<>>}
      names == {def.name : def \in defaults} \cup DOMAIN bindingValues \cup DOMAIN userValues
  IN  [n \in names |-> IF n \in DOMAIN userValues THEN userValues[n]
                       ELSE IF n \in DOMAIN bindingValues THEN bindingValues[n]
                       ELSE (CHOOSE def \in defaults : def.name = n).default]

\* Defaults first, then the binding, then what the user may edit.
MergeExecPolicyValues(defs, bindingValues, userValues) ==
  LET defaults == {def \in defs : def.default # <<>>}
      edited == {def.name : def \in {d \in defs : d.editable}} \cap DOMAIN userValues
      names == {def.name : def \in defaults} \cup DOMAIN bindingValues \cup edited
  IN  [n \in names |-> IF n \in edited THEN userValues[n]
                       ELSE IF n \in DOMAIN bindingValues THEN bindingValues[n]
                       ELSE (CHOOSE def \in defaults : def.name = n).default]

\* A blank command or an empty list does not override.
CommandTemplate(policy, binding) ==
  IF TrimSpace(binding.command) # <<>> THEN binding.command ELSE policy.command
ArgsTemplate(policy, binding) ==
  IF binding.args # <<>> THEN binding.args ELSE policy.args

\* The commands that resolveExecPolicyTask may make of a policy and a binding it has
\* read; none when it refuses.
Resolve(policy, binding, userValues) ==
  LET defs == policy.params
      merged == MergeExecPolicyValues(defs, binding.values, userValues)
      args == ArgsTemplate(policy, binding)
  IN  IF /\ ValidateExecPolicyValues(defs, binding.values, FALSE)
         /\ ValidateExecPolicyValues(defs, userValues, TRUE)
         /\ ValidateExecPolicyValues(defs, merged, TRUE)
      THEN {c \in [command : InterpolateExecTemplate(CommandTemplate(policy, binding), merged),
                   args : [DOMAIN args -> UNION {InterpolateExecTemplate(args[i], merged) :
                                                   i \in DOMAIN args}]] :
              \A i \in DOMAIN args : c.args[i] \in InterpolateExecTemplate(args[i], merged)}
      ELSE {}

-----------------------------------------------------------------------------
(* The tables. *)

GetExecCommandPolicyByID(p) == {x \in policies : x.id = p}

\* Only an active binding is found.
GetExecCommandPolicyBinding(p, a) ==
  {b \in bindings : b.policy = p /\ b.agent = a /\ b.active}

\* Ids and names are unique.
CanCreateExecCommandPolicy(x) == \A y \in policies : y.id # x.id /\ y.name # x.name
CreateExecCommandPolicy(x) ==
  /\ policies' = policies \cup {x}
  /\ UNCHANGED <<agents, bindings>>

CanUpdateExecCommandPolicy(x) ==
  (\E y \in policies : y.id = x.id) => \A y \in policies : y.name = x.name => y.id = x.id
UpdateExecCommandPolicy(x) ==
  /\ policies' = {IF y.id = x.id THEN x ELSE y : y \in policies}
  /\ UNCHANGED <<agents, bindings>>

\* ON DELETE CASCADE
DeleteExecCommandPolicy(p) ==
  /\ policies' = {x \in policies : x.id # p}
  /\ bindings' = {b \in bindings : b.policy # p}
  /\ UNCHANGED agents

\* A second binding of the same pair overwrites the first and keeps its id.
CanCreateExecCommandPolicyBinding(b) ==
  b.agent \in agents /\ \E x \in policies : x.id = b.policy
CreateExecCommandPolicyBinding(b) ==
  LET same == {c \in bindings : c.policy = b.policy /\ c.agent = b.agent}
  IN  /\ bindings' = (bindings \ same) \cup
                     (IF same = {} THEN {b} ELSE {[b EXCEPT !.id = c.id] : c \in same})
      /\ UNCHANGED <<agents, policies>>

\* Policy and agent stay; an id that is gone is no error.
UpdateExecCommandPolicyBinding(id, content) ==
  /\ bindings' = {IF b.id = id THEN [content EXCEPT !.id = id, !.policy = b.policy,
                                                    !.agent = b.agent] ELSE b : b \in bindings}
  /\ UNCHANGED <<agents, policies>>

DeleteExecCommandPolicyBinding(id) ==
  /\ bindings' = {b \in bindings : b.id # id}
  /\ UNCHANGED <<agents, policies>>

DeleteAgent_KeepBindings(a) ==
  /\ agents' = agents \ {a}
  /\ UNCHANGED <<bindings, policies>>

\* ON DELETE CASCADE
DeleteAgent(a) ==
  /\ agents' = agents \ {a}
  /\ bindings' = {b \in bindings : b.agent # a}
  /\ UNCHANGED policies
=============================================================================
