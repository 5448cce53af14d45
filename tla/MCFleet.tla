------------------------------- MODULE MCFleet -------------------------------
(* Fleet on small instances: one plan for each part of the system, so that what has *)
(* nothing to do with each other is not combined.                                    *)
EXTENDS Fleet, TLC

CONSTANTS h1, h2, i1, i2, i3, t1, t2, b1, b2, c1, c2

Own == (h1 :> i1) @@ (h2 :> i2)
Rights == (b1 :> {t1, t2}) @@ (b2 :> {t2})
Goroutines == {c1, c2} \X {"stream", "result"}

Spending(some) == [k \in Optional |-> IF k \in DOMAIN some THEN some[k] ELSE 0]

A(type, host, task) ==
  [type |-> type, host |-> host, task |-> task, valid |-> TRUE, recurring |-> FALSE,
   lines |-> [s \in Readers |-> 0], long |-> {}, leaves |-> FALSE, starts |-> TRUE,
   exit |-> "SUCCESS", timeout |-> 0, files |-> {}, destination |-> "d", chunks |-> 1,
   checksum |-> TRUE]
Talking(what, out, err) == [what EXCEPT !.lines = [s \in Readers |-> IF s = "out" THEN out ELSE err]]

Plan(up, jobs, files, some) ==
  [up |-> up, clock |-> FALSE, opened |-> {}, jobs |-> jobs, files |-> files, budget |-> Spending(some)]

Nothing == [c \in {} |-> A("EXEC_COMMAND", h1, t1)]

Comings == [Plan({}, Nothing, {}, [start |-> 2, die |-> 1, fault |-> 1]) EXCEPT !.clock = TRUE]
Buttons == [Plan({h1}, Nothing, {}, [start |-> 1, die |-> 1, toggle |-> 2, delete |-> 1, fault |-> 1])
              EXCEPT !.clock = TRUE]

Talk(what, d) == Plan({h1}, c1 :> what, {}, [view |-> 1, fault |-> 1, delete |-> d])
Exec == A("EXEC_COMMAND", h1, t1)
Commanding ==
  {Talk(Talking(Exec, 2, 1), 0), Talk(Talking(Exec, 2, 0), 1),
   Talk([Talking(Exec, 0, 2) EXCEPT !.leaves = TRUE, !.timeout = 1], 0),
   Talk([Talking(Exec, 3, 0) EXCEPT !.long = {<<"out", 2>>}, !.exit = "FAILED"], 0),
   Talk([Exec EXCEPT !.starts = FALSE], 1), Talk([Exec EXCEPT !.valid = FALSE], 1),
   Talk([Talking(A("EXEC_PYTHON_SCRIPT", h1, t1), 1, 0) EXCEPT !.files = {"x", "y"}], 0)}

Fetch(h, t, chunks) == [A("FETCH_FILE", h, t) EXCEPT !.chunks = chunks, !.files = {"f"}]
Push(t, files, chunks) == [A("PUSH_FILE", h1, t) EXCEPT !.files = files, !.chunks = chunks, !.recurring = TRUE]
Served == {<<"server", "d">>}
Pushed == {<<h1, "d", n>> : n \in {"x", "y"}}
Transferring ==
  {Plan({h1, h2}, (c1 :> Fetch(h1, t1, 2)) @@ (c2 :> Fetch(h2, t2, n)), Served, [fault |-> 1]) :
     n \in {0, 1}}
  \cup {Plan({h1}, (c1 :> Push(t1, {"x", "y"}, 1)) @@ (c2 :> Push(t1, {"y"}, 1)), Pushed, [fault |-> 1]),
        Plan({h1}, (c1 :> Push(t1, {"x"}, 2)) @@ (c2 :> Push(t2, {"x"}, 1)), Pushed, [fault |-> 0]),
        Plan({h1}, c1 :> Fetch(h1, t1, 1), Served, [delete |-> 1, die |-> 1])}

Binary == {<<h1, "agent", "agent">>}
Update1(files, ok) == [A("AGENT_UPDATE", h1, t1) EXCEPT !.files = files, !.checksum = ok]
Updating ==
  {Plan({h1}, (c1 :> Update1({"x"}, TRUE)) @@ (c2 :> Talking(A("EXEC_COMMAND", h1, t2), 1, 0)), Binary,
        [start |-> 1]),
   Plan({h1}, c1 :> Update1({"x"}, FALSE), Binary, [start |-> 1, die |-> 1]),
   Plan({h1}, c1 :> Update1({"x"}, TRUE), Binary, [start |-> 1, die |-> 1, fault |-> 1]),
   Plan({h1}, c1 :> Update1({}, TRUE), Binary, [fault |-> 1])}

Watch(browsers, jobs, some) == [Plan({h1, h2}, jobs, {}, some) EXCEPT !.opened = browsers]
Brief(h, t) == [A("EXEC_COMMAND", h, t) EXCEPT !.valid = FALSE]
Watching ==
  {Watch({b1}, c1 :> Brief(h1, t1), [load |-> 1, disconnect |-> 1, fault |-> 1]),
   Watch({b1, b2}, c1 :> Brief(h1, t1), [load |-> 2])}

SmallPlans == {Comings, Buttons} \cup Commanding \cup Transferring \cup Updating \cup Watching
=============================================================================
