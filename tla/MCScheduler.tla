----------------------------- MODULE MCScheduler -----------------------------
(* Scheduler on small instances: all tasks are of one agent. *)
EXTENDS Scheduler, TLC

CONSTANTS a1, t1, t2, hourly, daily, malformed

OneAgent == [t \in Tasks |-> a1]
\* A scheduled task, and an immediate one that an edit may give a schedule.
OneScheduled == (t1 :> {"ONCE", "RECURRING"}) @@ (t2 :> {"NONE"})
AllRecurring == [t \in Tasks |-> {"RECURRING"}]
AllOnce == [t \in Tasks |-> {"ONCE"}]
=============================================================================
