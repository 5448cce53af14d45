------------------------------ MODULE MCConsole ------------------------------
(* Console on small instances: what the three requests submit. *)
EXTENDS Console, TLC

CONSTANTS a1, a2, a3, p1, p2, p3, p4, u1, u2, u3, u4, r1, r2, r3

(* Two administrators, an operator of the agent a1, a name that is free. *)

Operator == {<<"action", "EXEC_COMMAND">>, <<"agent", a1, "task_create">>,
             <<"agent", a1, "task_view">>, <<"exec_policy", p1, "use">>}
An(active, roles) == [exists |-> TRUE, active |-> active, password |-> "old", roles |-> roles]
People == (u1 :> An(TRUE, {<<"admin">>})) @@ (u2 :> An(TRUE, {<<"full_access">>}))
          @@ (u3 :> An(TRUE, Operator)) @@ (u4 :> [An(FALSE, {}) EXCEPT !.exists = FALSE])

(* A policy with a parameter of the binding, a choice, a free text and one  *)
(* without a value.  a3 is an agent that was reinstalled as a1: the same    *)
(* host name, another id.                                                   *)

Names == (a1 :> "host1") @@ (a2 :> "host2") @@ (a3 :> "host1")

Fast == <<Word("fast")>>
Slow == <<Word("slow")>>
Param(name, required, editable, allowed, default) ==
  [name |-> name, required |-> required, editable |-> editable, matching |-> {},
   allowed |-> allowed, default |-> default]
Ping == [id |-> p1, name |-> "ping", active |-> TRUE, command |-> <<Word("ping")>>,
         args |-> << <<Ref("mode")>>, <<Ref("target")>>, <<Ref("note")>> >>,
         params |-> {Param("target", TRUE, FALSE, {}, <<>>),
                     Param("mode", TRUE, TRUE, {Fast, Slow}, Fast),
                     Param("note", FALSE, TRUE, {}, <<Word("hi")>>),
                     Param("extra", FALSE, FALSE, {}, <<>>)}]
Bind(id, policy, agent, active, args) ==
  [id |-> id, policy |-> policy, agent |-> agent, active |-> active, command |-> <<Space>>,
   args |-> args, values |-> [n \in {"target", "mode"} |-> IF n = "mode" THEN Slow ELSE <<Word("db")>>]]
OnA1 == Bind(<<"b1">>, p1, a1, TRUE, <<>>)
OnA2 == Bind(<<"b2">>, p1, a2, TRUE, << <<Ref("target")>>, <<Ref("extra")>> >>)

Kept(agent, host, active) ==
  [agent |-> agent, host |-> {host}, command |-> <<>>, args |-> <<>>, values |-> OnA1.values,
   active |-> active]
OldFile == {[policy |-> [Ping EXCEPT !.name = "probe"],
             bindings |-> {Kept(a3, "host1", FALSE), Kept(a1, "host1", TRUE)}],
            [policy |-> Ping, bindings |-> {Kept(a2, "host2", TRUE)}]}

OnePolicy == {Ping}
TwoBindings == {OnA1, OnA2}

(* Submissions. *)

By(u, form) == [user |-> u, password |-> "old", form |-> form]
Status(u, active) == [kind |-> "status", valid |-> TRUE, user |-> u, active |-> active]
Roles(u, roles) == [kind |-> "roles", valid |-> TRUE, user |-> u, roles |-> roles]
Account4(kind, u) == [kind |-> kind, valid |-> TRUE, user |-> u, password |-> "new"]
Row(kind, row) == [kind |-> kind, valid |-> TRUE, row |-> row]
Simple(kind) == [kind |-> kind, valid |-> TRUE]
TasksOf(a) == [kind |-> "tasks", valid |-> TRUE, agent |-> a]
About(permission, a, t) ==
  [kind |-> "detail", valid |-> TRUE, permission |-> permission, agent |-> a, task |-> t]
NewTask(seq, policy, files, mode, note) ==
  [kind |-> "task", valid |-> TRUE, agents |-> seq, type |-> "EXEC_COMMAND", policy |-> policy,
   files |-> files, values |-> [n \in {"mode", "note", "target"} |->
     IF n = "mode" THEN mode ELSE IF n = "note" THEN note ELSE <<Word("other")>>]]
Removal(a) == [kind |-> "delete_agent", valid |-> TRUE, agent |-> a]
Import == [kind |-> "import", valid |-> TRUE, ids |-> [n \in {"probe", "ping"} |-> IF n = "ping" THEN p2 ELSE p3]]

Demotions == {By(u1, Status(u2, FALSE)), By(u2, Status(u1, FALSE)), By(u1, Roles(u2, Operator)),
              By(u2, Roles(u1, {<<"typo">>})), By(u1, Roles(u1, {}))}
Accounting == Demotions \cup
  {By(u1, Status(u2, TRUE)), By(u1, Roles(u3, {<<"full_access">>, <<"agent", a2>>})),
   By(u1, Account4("user", u4)), By(u1, Account4("user", u3)), By(u1, Account4("password", u3)),
   By(u2, Roles(u4, {<<"admin">>}))}
Changes ==
  {By(u1, Row("policy_update", [Ping EXCEPT !.active = FALSE])),
   By(u1, Row("policy_update", [Ping EXCEPT !.id = p2])),
   By(u1, Row("policy", [Ping EXCEPT !.id = p4])),
   By(u1, Row("policy", [Ping EXCEPT !.id = p4, !.name = "probe"])),
   By(u1, Row("policy_delete", Ping)),
   By(u1, Row("binding", Bind(<<"b3">>, p1, a1, FALSE, <<>>))),
   By(u1, Row("binding_update", Bind(<<"b1">>, p1, a1, FALSE, <<>>))),
   By(u1, Row("binding_delete", OnA1)), By(u1, Removal(a1))}
Creations ==
  {By(u3, NewTask(<<a1>>, {p1}, FALSE, Fast, <<>>)),
   By(u3, NewTask(<<a1, a2>>, {}, TRUE, Fast, <<>>)),
   By(u1, NewTask(<<a2, a1>>, {p1}, TRUE, <<Space, Word("fast")>>, <<Ref("target")>>)),
   By(u1, NewTask(<<a1>>, {p1}, FALSE, <<Word("odd")>>, <<>>)),
   By(u1, NewTask(<<a1, NoAgent, a2>>, {}, TRUE, Fast, <<>>)),
   By(u3, NewTask(<<a1>>, {p2}, FALSE, Fast, <<>>)),
   By(u3, [NewTask(<<a1>>, {}, FALSE, Fast, <<>>) EXCEPT !.type = "PUSH_FILE"]),
   By(u3, [NewTask(<<>>, {}, TRUE, Fast, <<>>) EXCEPT !.valid = FALSE])}
Pages == {By(u3, Simple("agents")), By(u3, TasksOf(NoAgent)), By(u3, TasksOf(a2)),
          By(u3, Simple("new_task")), By(u1, Simple("access")),
          By(u3, About("task_view", NoAgent, <<r1, 1>>)), By(u3, About("metrics_view", a1, <<r1, 1>>))}
Transfers == {By(u1, Simple("export")), By(u1, Import), By(u1, [Import EXCEPT !.valid = FALSE]),
              By(u1, [Simple("policy") EXCEPT !.valid = FALSE])}

Three(A, B, C) == {(r1 :> x) @@ (r2 :> y) @@ (r3 :> z) : x \in A, y \in B, z \in C}

SmallWorkloads ==
  Three(Demotions, Accounting, Creations \cap {By(u3, NewTask(<<a1>>, {p1}, FALSE, Fast, <<>>))})
  \cup Three(Creations, Changes, Pages)
  \cup Three(Creations, Changes, {By(u2, Row("policy_delete", Ping)), By(u2, Removal(a1))})
  \cup Three(Transfers, Changes, Transfers)
=============================================================================
