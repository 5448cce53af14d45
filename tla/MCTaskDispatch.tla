--------------------------- MODULE MCTaskDispatch ---------------------------
(* TaskDispatch on small instances. *)
EXTENDS TaskDispatch, TLC

CONSTANTS a1, a2, t1, t2, t3, s1, s2, s3

\* A task for each of two agents, one stream each.
OneTaskEach == (t1 :> a1) @@ (t2 :> a2)
\* A second task for the first agent.
TwoTasksAndOne == (t1 :> a1) @@ (t2 :> a1) @@ (t3 :> a2)
OneStreamEach == (s1 :> a1) @@ (s2 :> a2)

\* The first agent may reconnect while the handler of its old stream still runs.
OldAndNewStream == (s1 :> a1) @@ (s2 :> a1) @@ (s3 :> a2)

OneAgentTask == (t1 :> a1)
OneAgentTasks == (t1 :> a1) @@ (t2 :> a1)
OneAgentStream == (s1 :> a1)

\* Attempts that are free are all alike, so it does not matter which one the CHOOSE of
\* FreeAttempts picks, and a permutation of the names keeps the successors of a state.
AttemptSymmetry == Permutations(Attempts)

\* The two streams of the first agent are alike as well: a command that is not sent
\* names s3 (the first value of the cfg, which the CHOOSE of Unsent picks).
ASSUME UnsentAssumption == s3 \in Streams => Unsent.stream = s3
NameSymmetry == {p @@ q : p \in AttemptSymmetry, q \in Permutations({s1, s2})}

\* t1 is immediate, the second task may be chained to it.
ThenMaybeChained == (t1 :> {"NONE"}) @@ (t2 :> {"NONE", "CHAINED"})

\* The second of the first agent's tasks is chained, the other agent's is immediate.
OneChained == (t1 :> {"NONE"}) @@ (t2 :> {"CHAINED"}) @@ (t3 :> {"NONE"})

\* t1 is immediate or one-time, the second task may be chained to it.
MaybeOnceThenChained == (t1 :> {"NONE", "ONCE"}) @@ (t2 :> {"NONE", "CHAINED"})

\* What Dispatch.cfg explores is the union of two plans.  In the one, each agent uses
\* one stream and two tasks are made, none with a schedule.  In the other there is one
\* task of the first agent, one-time at first, that is queued again and again and
\* rescheduled, over the agent's old and new stream; commands fail, which keeps the
\* task from starting anything else.
StreamPerAgent ==
  /\ \E s \in {s1, s2} :
       handler[s] = Off /\ \A i \in Attempts : Sent(i) => attempt[i].stream # s
  /\ held[t1] \subseteq {"NONE"}
  /\ edits = 0

QueuedAgain ==
  /\ handler[s3] = Off
  /\ ~ Exists(t2)
  /\ Exists(t1) => "ONCE" \in held[t1]
  /\ \A i \in Attempts : attempt[i].outcome = "FAILED"

Plans == StreamPerAgent \/ QueuedAgain

AllRecurring == [t \in Tasks |-> {"RECURRING"}]
=============================================================================
