------------------------------- MODULE Access -------------------------------
(***************************************************************************)
(* Who may do what in the web console: the tables "users", "user_roles"    *)
(* and "roles" with the operations on them (server/internal/storage/       *)
(* postgres.go), and the permissions a set of role names gives             *)
(* (server/internal/auth/auth.go).  Every operation is one statement or    *)
(* one transaction, so it is one indivisible update here.  A role name is  *)
(* a tuple of its parts; a principal is the set of role names that a user  *)
(* had when the request was authenticated.                                 *)
(***************************************************************************)
EXTENDS FiniteSets, Naturals, Sequences

CONSTANTS
  Users,       \* user names
  Passwords,
  Agents,      \* the ids of the agents that are ever registered
  NoAgent,     \* a NULL agent id
  Policies,    \* the ids of the policies that are ever created
  TaskTypes,
  Accounts     \* the accounts the console starts with

VARIABLES
  user,        \* the rows of "users" with the roles of each
  role         \* the names in "roles"

accessVars == <<user, role>>

-----------------------------------------------------------------------------
(* Role names. *)

AdminRoles == {<<"admin">>, <<"full_access">>}

RoleForTaskType(type) == <<"action", type>>
RoleForAgent(a) == <<"agent", a>>
RoleForAgentPermission(a, permission) == <<"agent", a, permission>>
RoleForExecPolicy(p, permission) == <<"exec_policy", p, permission>>

DefaultManagedRoles == AdminRoles \cup {RoleForTaskType(type) : type \in TaskTypes}

\* The names a form may introduce; any other name has to be in the table.
GrantsOf(names) == {n \in names : n[1] \in {"agent", "exec_policy"}}

-----------------------------------------------------------------------------
(* What a principal with these roles may do. *)

IsAdmin(roles) == roles \cap AdminRoles # {}

CanRunTaskType(roles, type) == IsAdmin(roles) \/ RoleForTaskType(type) \in roles

\* A role for the agent as a whole, or any permission on it.
HasAnyAgentPermission(roles, a) ==
  IsAdmin(roles) \/ \E n \in roles : n[1] = "agent" /\ n[2] = a

HasAgentPermission(roles, a, permission) ==
  \/ IsAdmin(roles)
  \/ {RoleForAgent(a), RoleForAgentPermission(a, permission)} \cap roles # {}

HasExecPolicyPermission(roles, p, permission) ==
  IsAdmin(roles) \/ RoleForExecPolicy(p, permission) \in roles

CanCreateTaskTypeForAgent_TypeOnly(roles, a, type) == CanRunTaskType(roles, type)

CanCreateTaskTypeForAgent(roles, a, type) ==
  CanRunTaskType(roles, type) /\ HasAgentPermission(roles, a, "task_create")

-----------------------------------------------------------------------------
(* The tables. *)

Account == [exists : BOOLEAN, active : BOOLEAN, password : Passwords,
            roles : SUBSET role]

NewAccount(password) ==
  [exists |-> TRUE, active |-> TRUE, password |-> password, roles |-> {}]

AccessTypeOK ==
  /\ DefaultManagedRoles \subseteq role
  /\ user \in [Users -> Account]

AccessInit ==
  /\ user = Accounts
  /\ role = DefaultManagedRoles \cup UNION {Accounts[u].roles : u \in Users}

\* The roles of the user, or nothing for a wrong password or a disabled account.
AuthenticateUser(u, password) ==
  IF user[u].exists /\ user[u].active /\ user[u].password = password
  THEN {user[u].roles} ELSE {}

ActiveAdmins == {u \in Users : user[u].exists /\ user[u].active /\ IsAdmin(user[u].roles)}

IsLastActiveAdmin_AnyStatus(u) ==
  LET admins == {v \in Users : user[v].exists /\ IsAdmin(user[v].roles)}
  IN  u \in admins /\ Cardinality(admins) <= 1

IsLastActiveAdmin(u) == u \in ActiveAdmins /\ Cardinality(ActiveAdmins) <= 1

\* Names are unique.
CanCreateUser(u) == ~ user[u].exists
CreateUser(u, password) == user' = [user EXCEPT ![u] = NewAccount(password)]

\* No error when there is no such user: an UPDATE of no row.
UpdateUserPassword(u, password) ==
  user' = IF user[u].exists THEN [user EXCEPT ![u].password = password] ELSE user

UpdateUserStatus(u, active) ==
  user' = IF user[u].exists THEN [user EXCEPT ![u].active = active] ELSE user

EnsureRoles(names) == role' = role \cup names

CanSetUserRoles(u) == user[u].exists

\* Replaces all roles of the user; a name that is not in the table is dropped.
SetUserRoles_AnyName(u, names) == user' = [user EXCEPT ![u].roles = names]

SetUserRoles(u, names) == user' = [user EXCEPT ![u].roles = names \cap role]
=============================================================================
