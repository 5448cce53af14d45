---------------------------- MODULE PolicyProofs ----------------------------
(***************************************************************************)
(* Theorems about command policies in Console.  The report of an import    *)
(* accounts for every policy and binding of the file, whatever else        *)
(* happens to the tables while importExecPolicies goes through it.  A task *)
(* made through a policy runs a command of that policy.                    *)
(***************************************************************************)
EXTENDS ConsoleProofs, WellFoundedInduction

-----------------------------------------------------------------------------
(* The invariant. *)

\* The unique keys of migration 012.
Keys ==
  /\ \A x, y \in policies : x.id = y.id \/ x.name = y.name => x = y
  /\ \A b, c \in bindings : b.policy = c.policy /\ b.agent = c.agent => b = c

ValuesOK == \A b \in bindings : IsValues(b.values)

\* What an export has read of the two tables, each in one query.
Exporting(r) ==
  LET shown == request[r].shown IN
  /\ {"policies", "bindings"} \subseteq DOMAIN shown
  /\ Kind(r, {"export"}) =>
     /\ \A x, y \in shown.policies : x.name = y.name => x = y
     /\ \A b \in shown.bindings : IsValues(b.values)
     /\ \A b, c \in shown.bindings : b.policy = c.policy /\ b.agent = c.agent => b = c

\* The rows an import has inserted, the items it has begun with, and those not stored.
Stored(r, table) == {s[3] : s \in {q \in stored : q[1] = r /\ q[2] = table}}
Past(r) == request[r].file \ request[r].left
Failed(r, item) == <<"error", <<item.policy.name>>>> \in request[r].report

\* The bindings of an item that are still to come.
Pending(r, item) == IF request[r].policy = {Renamed(r, item)} THEN request[r].cur ELSE {}

\* A binding is reported, and stored if it is reported as such.
Bound(r, item, b) ==
  LET name == <<item.policy.name, b.agent>> IN
  \/ \E l \in {"warning", "error"} : <<l, name>> \in request[r].report
  \/ /\ <<"success", name>> \in request[r].report
     /\ \E a \in Matches(r, b) : BindingRow(r, Renamed(r, item), b, a) \in Stored(r, "binding")
Settled(r, item) ==
  IF Failed(r, item) THEN Renamed(r, item) \notin Stored(r, "policy")
  ELSE /\ Renamed(r, item) \in Stored(r, "policy")
       /\ <<"success", <<item.policy.name>>>> \in request[r].report
       /\ \A b \in item.bindings \ Pending(r, item) : Bound(r, item, b)

\* Nothing was stored that is not of an item of the file.
PolicyRows(r) == \A x \in Stored(r, "policy") : \E item \in Past(r) : x = Renamed(r, item)
BindingRows(r) ==
  \A c \in Stored(r, "binding") : \E item \in Past(r) : \E b \in item.bindings :
    \E a \in Matches(r, b) : c = BindingRow(r, Renamed(r, item), b, a)

\* The bindings at hand are those of an item whose policy is stored.
Current(r) ==
  request[r].cur # {} =>
    \E item \in Past(r) : /\ request[r].policy = {Renamed(r, item)} /\ ~ Failed(r, item)
                          /\ request[r].cur \subseteq item.bindings

Opening(r) == request[r].pc \in {"new", "agents"} => request[r].file = {} /\ request[r].report = {}
Ended(r) == ~ AtPC(r, "import") => request[r].left = {} /\ request[r].cur = {}

Importing(r) ==
  Kind(r, {"import"}) =>
    /\ Opening(r) /\ Ended(r)
    /\ IsBundle(request[r].file) /\ request[r].left \subseteq request[r].file
    /\ request[r].file # {} => Form(r).valid
    /\ PolicyRows(r) /\ BindingRows(r) /\ Current(r)
    /\ \A item \in request[r].left : ~ Failed(r, item)
    /\ \A item \in Past(r) : Settled(r, item)

ImportInv ==
  /\ CInv /\ Keys /\ ValuesOK /\ IsBundle(file)
  /\ \A r \in Requests : Exporting(r) /\ Importing(r)

-----------------------------------------------------------------------------
(* The unique keys. *)

\* A binding of a pair that is there overwrites the row; no second one appears.
LEMMA PairsCreated ==
  ASSUME Keys, NEW row, IsBindingRow(row), CreateExecCommandPolicyBinding(row)
  PROVE  Keys'
  <1> DEFINE same == {c \in bindings : c.policy = row.policy /\ c.agent = row.agent}
             new == IF same = {} THEN {row} ELSE {[row EXCEPT !.id = c.id] : c \in same}
  <1>1. bindings' = (bindings \ same) \cup new /\ UNCHANGED policies
    BY DEF CreateExecCommandPolicyBinding
  <1>2. \A c \in new : c.policy = row.policy /\ c.agent = row.agent
    BY DEF IsBindingRow
  <1>3. \A b, c \in new : b = c
    <2>1. \A b, c \in same : b = c
      BY DEF Keys
    <2>. QED BY <2>1
  <1>4. \A b \in bindings \ same : ~ (b.policy = row.policy /\ b.agent = row.agent)
    OBVIOUS
  <1> HIDE DEF same, new
  <1>5. ASSUME NEW b \in bindings', NEW c \in bindings', b.policy = c.policy, b.agent = c.agent
        PROVE  b = c
    BY <1>1, <1>2, <1>3, <1>4, <1>5 DEF Keys
  <1>. QED BY <1>1, <1>5 DEF Keys

\* A policy gets a name that no other has.
LEMMA NamesKept ==
  ASSUME Handlers, TablesOK, Keys, NEW r \in Requests, HandlerOK(r), Place(r), Act(r)
  PROVE  \A x, y \in policies' : x.id = y.id \/ x.name = y.name => x = y
  <1>1. ASSUME NEW row, CanCreateExecCommandPolicy(row), policies' = policies \cup {row}
        PROVE  \A x, y \in policies' : x.id = y.id \/ x.name = y.name => x = y
    BY <1>1 DEF Keys, CanCreateExecCommandPolicy
  <1>2. CASE policies' \subseteq policies
    BY <1>2 DEF Keys
  <1>3. CASE WritePolicy(r)
    <2> DEFINE row == Form(r).row
    <2>1. CASE /\ CanUpdateExecCommandPolicy(row)
               /\ policies' = {IF y.id = row.id THEN row ELSE y : y \in policies}
      <3> HIDE DEF row
      <3>1. CASE \E y \in policies : y.id = row.id
        BY <2>1, <3>1 DEF Keys, CanUpdateExecCommandPolicy
      <3>2. CASE ~ \E y \in policies : y.id = row.id
        <4>1. policies' = policies
          BY <2>1, <3>2
        <4>. QED BY <1>2, <4>1
      <3>. QED BY <3>1, <3>2
    <2>2. \/ policies' \subseteq policies
          \/ CanCreateExecCommandPolicy(row) /\ policies' = policies \cup {row}
          \/ /\ CanUpdateExecCommandPolicy(row)
             /\ policies' = {IF y.id = row.id THEN row ELSE y : y \in policies}
      BY <1>3 DEF WritePolicy, CreateExecCommandPolicy, UpdateExecCommandPolicy,
                  DeleteExecCommandPolicy, policyVars
    <2>. QED BY <1>1, <1>2, <2>1, <2>2
  <1>4. CASE WriteBinding(r) \/ RemoveAgent(r)
    BY <1>2, <1>4 DEF WriteBinding, RemoveAgent, DeleteAgent, CreateExecCommandPolicyBinding,
                      UpdateExecCommandPolicyBinding, DeleteExecCommandPolicyBinding, policyVars
  <1>5. CASE ImportPolicy(r)
    <2>1. \/ UNCHANGED policyVars
          \/ \E item \in request[r].left : /\ CanCreateExecCommandPolicy(Renamed(r, item))
                                           /\ CreateExecCommandPolicy(Renamed(r, item))
      BY <1>5 DEF ImportPolicy, Renamed
    <2>. QED BY <1>1, <1>2, <2>1 DEF CreateExecCommandPolicy, policyVars
  <1>6. CASE ImportBinding(r)
    BY <1>2, <1>6, ImportBindingEffect DEF CreateExecCommandPolicyBinding, policyVars
  <1>. QED BY <1>2, <1>3, <1>4, <1>5, <1>6, PolicyWriters DEF WritesPolicies, policyVars

LEMMA KeysKept ==
  ASSUME Handlers, TablesOK, Keys, NEW r \in Requests, HandlerOK(r), Place(r), Act(r)
  PROVE  Keys'
  <1>1. \A x, y \in policies' : x.id = y.id \/ x.name = y.name => x = y
    BY NamesKept
  <1> DEFINE Pairs == \A b, c \in bindings' : b.policy = c.policy /\ b.agent = c.agent => b = c
  <1>2. CASE bindings' \subseteq bindings
    <2>1. Pairs
      BY <1>2 DEF Keys
    <2>. QED BY <1>1, <2>1 DEF Keys
  <1>3. CASE WriteBinding(r)
    <2> DEFINE row == Form(r).row
    <2>1. Form(r).valid /\ (Kind(r, {"binding", "binding_update"}) => IsBindingRow(row))
      BY <1>3, FormOK DEF WriteBinding, Place, AtPC, Kind, IsForm
    <2>2. CASE Kind(r, {"binding"}) /\ CreateExecCommandPolicyBinding(row)
      <3>1. IsBindingRow(row)
        BY <2>1, <2>2 DEF Kind
      <3>. QED BY <2>2, <3>1, PairsCreated
    <2>3. CASE Kind(r, {"binding_update"}) /\ UpdateExecCommandPolicyBinding(row.id, row)
      <3> DEFINE new(b) == IF b.id = row.id THEN [row EXCEPT !.id = row.id, !.policy = b.policy,
                                                              !.agent = b.agent] ELSE b
      <3>1. bindings' = {new(b) : b \in bindings}
        BY <2>3 DEF UpdateExecCommandPolicyBinding
      <3>2. IsBindingRow(row)
        BY <2>1, <2>3 DEF Kind
      <3>3. \A b \in bindings : new(b).policy = b.policy /\ new(b).agent = b.agent
        BY <3>2 DEF IsBindingRow
      <3> HIDE DEF new
      <3>4. Pairs
        BY <3>1, <3>3 DEF Keys
      <3>. QED BY <1>1, <3>4 DEF Keys
    <2>4. \/ bindings' \subseteq bindings
          \/ Kind(r, {"binding"}) /\ CreateExecCommandPolicyBinding(row)
          \/ Kind(r, {"binding_update"}) /\ UpdateExecCommandPolicyBinding(row.id, row)
      BY <1>3 DEF WriteBinding, DeleteExecCommandPolicyBinding, policyVars
    <2>. QED BY <1>2, <2>2, <2>3, <2>4
  <1>4. CASE WritePolicy(r) \/ RemoveAgent(r)
    BY <1>2, <1>4 DEF WritePolicy, RemoveAgent, CreateExecCommandPolicy, UpdateExecCommandPolicy,
                      DeleteExecCommandPolicy, DeleteAgent, policyVars
  <1>5. CASE ImportPolicy(r)
    BY <1>2, <1>5, ImportPolicyEffect DEF CreateExecCommandPolicy, policyVars
  <1>6. CASE ImportBinding(r)
    <2>1. ASSUME NEW b \in request[r].cur, NEW policy \in request[r].policy, NEW a \in Matches(r, b),
                 CreateExecCommandPolicyBinding(BindingRow(r, policy, b, a))
          PROVE  Keys'
      BY <2>1, ImportedBindingOK, PairsCreated
    <2>. QED BY <1>2, <1>6, <2>1, ImportBindingEffect DEF policyVars
  <1>. QED BY <1>2, <1>3, <1>4, <1>5, <1>6, PolicyWriters DEF WritesPolicies, policyVars

-----------------------------------------------------------------------------
(* An export is a file as an import expects it. *)

LEMMA ShownKept ==
  ASSUME Handlers, NEW r \in Requests, Act(r)
  PROVE  request'[r].shown \in {request[r].shown, Shown} \/ Read(r)
  <1>1. Keeps(r) => request'[r].shown = request[r].shown
    BY DEF Keeps
  <1>2. CASE Open(r)
    BY <1>1, <1>2, OpenEffect, OpenedFields
  <1>3. CASE Fail(r) \/ CheckLastAdmin(r) \/ PrepareRoles(r) \/ Write(r) \/ StartRow(r)
    BY <1>1, <1>3, FailEffect, CheckEffect, PrepareEffect, WriteEffect, StartRowEffect
  <1>4. CASE ReadPolicy(r)
    BY <1>1, <1>4, ReadPolicyEffect
  <1>5. CASE ReadBinding(r)
    BY <1>1, <1>5, ReadBindingEffect
  <1>6. CASE InsertTask(r)
    BY <1>1, <1>6, InsertTaskEffect
  <1>7. CASE Detail(r) \/ ImportBinding(r) \/ ImportEnds(r)
    BY <1>1, <1>7, DetailEffect, ImportBindingEffect, ImportEndsEffect
  <1>8. CASE ListAgents(r) \/ ImportPolicy(r)
    BY <1>8, ListAgentsEffect, ImportPolicyEffect
  <1>. QED BY <1>2, <1>3, <1>4, <1>5, <1>6, <1>7, <1>8 DEF Act, Write

LEMMA ExportingKept ==
  ASSUME Handlers, Keys, ValuesOK, NEW r \in Requests, Exporting(r), Act(r)
  PROVE  Exporting(r)'
  <1>0. Kind(r, {"export"})' = Kind(r, {"export"})
    BY Frame DEF Kind, Form
  <1> DEFINE h == request[r]  g == request'[r]  table == Head(h.todo)
  <1>1. CASE g.shown = h.shown
    BY <1>0, <1>1 DEF Exporting
  <1>2. CASE g.shown = Shown
    BY <1>0, <1>2 DEF Exporting, Shown
  <1>3. CASE Read(r)
    <2>1. g.shown = [h.shown EXCEPT ![table] = Visible(r, table)]
      BY <1>3, ReadEffect
    <2> HIDE DEF table, g, h
    <2>2. {"policies", "bindings"} \subseteq DOMAIN g.shown
      BY <2>1 DEF Exporting, h
    <2>3. ASSUME Kind(r, {"export"})
          PROVE  /\ \A x, y \in g.shown.policies : x.name = y.name => x = y
                 /\ \A b \in g.shown.bindings : IsValues(b.values)
                 /\ \A b, c \in g.shown.bindings : b.policy = c.policy /\ b.agent = c.agent => b = c
      <3>1. g.shown.policies = IF table = "policies" THEN Visible(r, "policies") ELSE h.shown.policies
        BY <2>1 DEF Exporting, h
      <3>2. g.shown.bindings = IF table = "bindings" THEN Visible(r, "bindings") ELSE h.shown.bindings
        BY <2>1 DEF Exporting, h
      <3>3. Visible(r, "policies") = policies /\ Visible(r, "bindings") = bindings
        BY <2>3 DEF Visible, Kind
      <3>4. \A x, y \in g.shown.policies : x.name = y.name => x = y
        BY <2>3, <3>1, <3>3 DEF Exporting, Keys, h
      <3>5. \A b, c \in g.shown.bindings : b.policy = c.policy /\ b.agent = c.agent => b = c
        BY <2>3, <3>2, <3>3 DEF Exporting, Keys, h
      <3>6. \A b \in g.shown.bindings : IsValues(b.values)
        BY <2>3, <3>2, <3>3 DEF Exporting, ValuesOK, h
      <3>. QED BY <3>4, <3>5, <3>6
    <2>. QED BY <1>0, <2>2, <2>3 DEF Exporting, g
  <1>. QED BY <1>1, <1>2, <1>3, ShownKept

\* What the queries have read as a whole becomes a file.
LEMMA BundleOK ==
  ASSUME NEW shown,
         \A x \in shown.policies : IsPolicyRow(x),
         \A x, y \in shown.policies : x.name = y.name => x = y,
         \A b \in shown.bindings : IsValues(b.values),
         \A b, c \in shown.bindings : b.policy = c.policy /\ b.agent = c.agent => b = c
  PROVE  IsBundle(Bundle(shown))
  <1> DEFINE of(x) == {Exported(b, shown.agents) : b \in {c \in shown.bindings : c.policy = x.id}}
  <1>1. \A b : /\ Exported(b, shown.agents).agent = b.agent
               /\ Exported(b, shown.agents).values = b.values
    BY DEF Exported
  <1>a. \A x : \A e \in of(x) : IsValues(e.values)
    BY <1>1
  <1>2. ASSUME NEW x, NEW d \in of(x), NEW e \in of(x), d.agent = e.agent
        PROVE  d = e
    <2>1. PICK b \in shown.bindings : b.policy = x.id /\ d = Exported(b, shown.agents)
      OBVIOUS
    <2>2. PICK c \in shown.bindings : c.policy = x.id /\ e = Exported(c, shown.agents)
      OBVIOUS
    <2>. QED BY <1>1, <1>2, <2>1, <2>2
  <1> HIDE DEF of
  <1>3. ASSUME NEW i \in Bundle(shown)
        PROVE  \E x \in shown.policies : i.policy = x /\ i.bindings = of(x) /\ i = [policy |-> x, bindings |-> of(x)]
    BY <1>3 DEF Bundle, of
  <1>4. ASSUME NEW i \in Bundle(shown), NEW j \in Bundle(shown)
        PROVE  /\ IsPolicyRow(i.policy)
               /\ i.policy.name = j.policy.name => i = j
               /\ \A b \in i.bindings : IsValues(b.values)
               /\ \A b, c \in i.bindings : b.agent = c.agent => b = c
    <2>1. PICK x \in shown.policies : i.policy = x /\ i.bindings = of(x) /\ i = [policy |-> x, bindings |-> of(x)]
      BY <1>3, <1>4
    <2>2. PICK y \in shown.policies : j.policy = y /\ j = [policy |-> y, bindings |-> of(y)]
      BY <1>3, <1>4
    <2>3. i.policy.name = j.policy.name => i = j
      BY <2>1, <2>2
    <2>. QED BY <1>a, <1>2, <2>1, <2>3
  <1>. QED BY <1>4 DEF IsBundle

LEMMA FileKept ==
  ASSUME CInv, IsBundle(file), NEW r \in Requests, Act(r), HandlerOK(r)', Exporting(r)'
  PROVE  IsBundle(file')
  <1>1. CASE UNCHANGED file
    BY <1>1
  <1>2. CASE Read(r)
    <2>1. file' = file \/ (Kind(r, {"export"}) /\ file' = Bundle(request'[r].shown))
      <3> DEFINE h == request[r]
                 shown == [h.shown EXCEPT ![Head(h.todo)] = Visible(r, Head(h.todo))]
      <3>1. request'[r].shown = shown
        BY <1>2, ReadEffect DEF CInv
      <3>2. file' = file \/ (Kind(r, {"export"}) /\ file' = Bundle(shown))
        BY <1>2 DEF Read
      <3> HIDE DEF shown
      <3>. QED BY <3>1, <3>2
    <2>2. Kind(r, {"export"})' = Kind(r, {"export"})
      BY Frame DEF CInv, Kind, Form
    <2>3. Kind(r, {"export"}) => IsBundle(Bundle(request'[r].shown))
      BY <2>2, BundleOK DEF HandlerOK, Exporting
    <2>. QED BY <2>1, <2>3
  <1>. QED BY <1>1, <1>2 DEF Act, Open, Fail, CheckLastAdmin, WriteStatus, PrepareRoles, WriteRoles,
           WriteUser, WritePolicy, WriteBinding, RemoveAgent, StartRow, ReadPolicy, ReadBinding,
           InsertTask, Detail, ListAgents, ImportPolicy, ImportBinding, ImportEnds

-----------------------------------------------------------------------------
(* What a step does to an import. *)

\* A step that is not about the file.
Beside(r) ==
  LET h == request[r]  g == request'[r] IN
  /\ g.file = h.file /\ g.left = h.left /\ g.cur = h.cur /\ g.report = h.report
  /\ g.policy = h.policy /\ g.known = h.known

LEMMA AnswerBeside ==
  ASSUME Handlers, NEW r \in Requests,
         (\E pc : Goto(r, pc)) \/ (\E answer : Answer(r, answer))
  PROVE  Beside(r)
  <1>1. r \in DOMAIN request /\ DOMAIN request[r] = Fields
    BY DEF Handlers
  <1>2. ASSUME NEW pc, Goto(r, pc)
        PROVE  Beside(r)
    <2>1. request'[r] = [request[r] EXCEPT !.pc = pc]
      BY <1>1, <1>2 DEF Goto
    <2>. QED BY <1>1, <2>1 DEF Beside, Fields
  <1>3. ASSUME NEW answer, Answer(r, answer)
        PROVE  Beside(r)
    <2>1. request'[r] = [request[r] EXCEPT !.pc = "over", !.answer = answer]
      BY <1>1, <1>3 DEF Answer
    <2>. QED BY <1>1, <2>1 DEF Beside, Fields
  <1>. QED BY <1>2, <1>3

\* An import begins with nothing, unless it is turned away.
LEMMA ImportOpened ==
  ASSUME Handlers, NEW r \in Requests, Kind(r, {"import"}), Open(r)
  PROVE  LET g == request'[r] IN
         \/ Beside(r) /\ g.pc = "over"
         \/ g.pc # "import" /\ g.file = {} /\ g.left = {} /\ g.cur = {} /\ g.report = {}
  <1>1. r \in DOMAIN request /\ DOMAIN request[r] = Fields
    BY DEF Handlers
  <1>2. ASSUME NEW answer, Answer(r, answer)
        PROVE  Beside(r) /\ request'[r].pc = "over"
    <2>1. request'[r].pc = "over"
      BY <1>1, <1>2 DEF Answer, Fields
    <2>. QED BY <1>2, <2>1, AnswerBeside
  <1>3. ASSUME NEW roles, request' = [request EXCEPT ![r] = Opened(Form(r), roles)]
        PROVE  LET g == request'[r] IN
               g.pc # "import" /\ g.file = {} /\ g.left = {} /\ g.cur = {} /\ g.report = {}
    <2>1. request'[r] = Opened(Form(r), roles)
      BY <1>1, <1>3
    <2>2. request'[r].pc # "import"
      BY <2>1, OpenedFields, EntryIsPC
    <2>3. LET g == Opened(Form(r), roles) IN g.file = {} /\ g.left = {} /\ g.cur = {} /\ g.report = {}
      BY DEF Opened, Handler
    <2>. QED BY <2>1, <2>2, <2>3
  <1>4. \/ \E answer : Answer(r, answer)
        \/ \E roles : request' = [request EXCEPT ![r] = Opened(Form(r), roles)]
    BY DEF Open
  <1>. QED BY <1>2, <1>3, <1>4

LEMMA ImportMoves ==
  ASSUME Handlers, NEW r \in Requests, Kind(r, {"import"}), Place(r), Act(r)
  PROVE  \/ Open(r) \/ ListAgents(r) \/ ImportPolicy(r) \/ ImportBinding(r)
         \/ /\ Beside(r) /\ UNCHANGED stored /\ request'[r].pc \in {"ensure", "reads", "over"}
            /\ AtPC(r, "import") => request[r].left = {} /\ request[r].cur = {}
  <1>1. r \in DOMAIN request /\ DOMAIN request[r] = Fields /\ ~ InLoop(r) /\ ~ AtPC(r, "check")
    BY DEF Handlers, Place, Kind
  <1>2. CASE Fail(r)
    <2>1. Answer(r, "error") \/ Answer(r, "done")
      BY <1>1, <1>2 DEF Fail, InLoop, AtPC
    <2>2. request'[r].pc = "over" /\ ~ AtPC(r, "import") /\ UNCHANGED stored
      BY <1>1, <1>2, <2>1 DEF Fail, Answer, Fields, AtPC
    <2>. QED BY <2>1, <2>2, AnswerBeside
  <1>3. CASE PrepareRoles(r)
    <2>1. request'[r] = [request[r] EXCEPT !.pc = "reads", !.todo = Queries("access")]
      BY <1>1, <1>3 DEF PrepareRoles, Kind
    <2>2. request'[r].pc = "reads" /\ Beside(r)
      BY <1>1, <2>1 DEF Beside, Fields
    <2>. QED BY <1>3, <2>2 DEF PrepareRoles, AtPC
  <1>4. CASE Read(r)
    <2> DEFINE h == request[r]  last == Tail(h.todo) = <<>>
               shown == [h.shown EXCEPT ![Head(h.todo)] = Visible(r, Head(h.todo))]
               next == IF last THEN "over" ELSE "reads"
               answer == IF last /\ h.answer = "none" THEN "done" ELSE h.answer
               rest == Tail(h.todo)
    <2>1. request'[r] = [h EXCEPT !.todo = rest, !.shown = shown, !.pc = next, !.answer = answer]
      BY <1>1, <1>4 DEF Read
    <2>2. next \in {"over", "reads"}
      OBVIOUS
    <2> HIDE DEF last, shown, next, answer, rest
    <2>3. request'[r].pc = next /\ Beside(r)
      BY <1>1, <2>1 DEF Beside, Fields
    <2>. QED BY <1>4, <2>2, <2>3 DEF Read, AtPC
  <1>5. CASE Detail(r)
    <2>1. \E answer : Answer(r, answer)
      BY <1>5 DEF Detail
    <2>2. request'[r].pc = "over" /\ ~ AtPC(r, "import") /\ UNCHANGED stored
      BY <1>1, <1>5, <2>1 DEF Detail, Answer, Fields, AtPC
    <2>. QED BY <2>1, <2>2, AnswerBeside
  <1>6. CASE ImportEnds(r)
    <2>1. request'[r].pc = "ensure"
      BY <1>1, <1>6 DEF ImportEnds, Goto, Fields
    <2>. QED BY <1>6, <2>1, AnswerBeside DEF ImportEnds
  <1>7. ~ CheckLastAdmin(r) /\ ~ Write(r)
    BY <1>1 DEF CheckLastAdmin, Write, WriteStatus, WriteRoles, WriteUser, WritePolicy, WriteBinding,
                RemoveAgent, Kind
  <1>8. ~ StartRow(r) /\ ~ ReadPolicy(r) /\ ~ ReadBinding(r) /\ ~ InsertTask(r)
    BY <1>1 DEF StartRow, ReadPolicy, ReadBinding, InsertTask, InLoop, AtPC
  <1>. QED BY <1>2, <1>3, <1>4, <1>5, <1>6, <1>7, <1>8 DEF Act, Write

\* What was stored by whom, and the report, only grow.
LEMMA StoredGrows ==
  ASSUME NEW r, NEW table, NEW row, stored' = stored \cup {<<r, table, row>>}
  PROVE  /\ Stored(r, table)' = Stored(r, table) \cup {row}
         /\ \A q, other : q # r \/ other # table => Stored(q, other)' = Stored(q, other)
  <1> DEFINE new == <<r, table, row>>
  <1>1. new[1] = r /\ new[2] = table /\ new[3] = row
    OBVIOUS
  <1>2. stored' = stored \cup {new}
    OBVIOUS
  <1> HIDE DEF new
  <1>3. Stored(r, table)' = Stored(r, table) \cup {row}
    BY <1>1, <1>2 DEF Stored
  <1>4. ASSUME NEW q, NEW other, q # r \/ other # table
        PROVE  Stored(q, other)' = Stored(q, other)
    BY <1>1, <1>2, <1>4 DEF Stored
  <1>. QED BY <1>3, <1>4

LEMMA OthersImport ==
  ASSUME Handlers, NEW r \in Requests, NEW q \in Requests \ {r}, Act(r), Importing(q), Exporting(q)
  PROVE  Importing(q)' /\ Exporting(q)'
  <1>1. request'[q] = request[q] /\ UNCHANGED submission
    BY Frame DEF Others
  <1>2. Stored(q, "policy")' = Stored(q, "policy") /\ Stored(q, "binding")' = Stored(q, "binding")
    <2>1. \/ UNCHANGED stored
          \/ \E table, row : stored' = stored \cup {<<r, table, row>>}
      BY DEF Act, Open, Fail, CheckLastAdmin, WriteStatus, PrepareRoles, WriteRoles, WriteUser,
             WritePolicy, WriteBinding, RemoveAgent, StartRow, ReadPolicy, ReadBinding, InsertTask,
             Read, Detail, ListAgents, ImportPolicy, ImportBinding, ImportEnds
    <2>2. CASE UNCHANGED stored
      BY <2>2 DEF Stored
    <2>. QED BY <2>1, <2>2, StoredGrows
  <1>3. Exporting(q)'
    BY <1>1 DEF Exporting, Kind, Form
  <1>4. \A item : /\ Renamed(q, item)' = Renamed(q, item) /\ (Failed(q, item)' <=> Failed(q, item))
                  /\ Pending(q, item)' = Pending(q, item)
    BY <1>1 DEF Renamed, Failed, Pending, Form
  <1>5. Past(q)' = Past(q) /\ (\A b : Matches(q, b)' = Matches(q, b))
    BY <1>1 DEF Past, Matches
  <1>6. \A policy, b, a : BindingRow(q, policy, b, a)' = BindingRow(q, policy, b, a)
    BY DEF BindingRow
  <1>7. \A item, b : Bound(q, item, b)' <=> Bound(q, item, b)
    BY <1>1, <1>2, <1>4, <1>5, <1>6 DEF Bound
  <1>8. \A item : Settled(q, item)' <=> Settled(q, item)
    BY <1>1, <1>2, <1>4, <1>7 DEF Settled
  <1>9. PolicyRows(q)' <=> PolicyRows(q)
    BY <1>2, <1>4, <1>5 DEF PolicyRows
  <1>10. BindingRows(q)' <=> BindingRows(q)
    BY <1>2, <1>4, <1>5, <1>6 DEF BindingRows
  <1>11. (Opening(q) /\ Ended(q) /\ Current(q))' <=> (Opening(q) /\ Ended(q) /\ Current(q))
    BY <1>1, <1>4, <1>5 DEF Opening, Ended, Current, AtPC
  <1>12. Form(q)' = Form(q) /\ (Kind(q, {"import"})' <=> Kind(q, {"import"}))
    BY <1>1 DEF Form, Kind
  <1>13. Importing(q)'
    BY <1>1, <1>4, <1>5, <1>8, <1>9, <1>10, <1>11, <1>12 DEF Importing
  <1>. QED BY <1>3, <1>13

\* The policy taken from the file, and what is noted of it.
LEMMA PolicyTaken ==
  ASSUME Handlers, NEW r \in Requests, ImportPolicy(r)
  PROVE  LET h == request[r]  g == request'[r] IN
         /\ h.cur = {} /\ g.pc = h.pc /\ g.file = h.file /\ g.known = h.known
         /\ \E item \in h.left :
              LET row == Renamed(r, item) IN
              /\ g.left = h.left \ {item}
              /\ \/ /\ stored' = stored \cup {<<r, "policy", row>>}
                    /\ g.cur = item.bindings /\ g.policy = {row}
                    /\ g.report = h.report \cup {<<"success", <<row.name>>>>}
                 \/ /\ UNCHANGED stored
                    /\ g.cur = {} /\ g.policy = h.policy
                    /\ g.report = h.report \cup {<<"error", <<row.name>>>>}
  <1>1. r \in DOMAIN request /\ DOMAIN request[r] = Fields /\ request[r].cur = {}
    BY DEF Handlers, ImportPolicy
  <1> DEFINE h == request[r]
             rest(item) == [h EXCEPT !.left = @ \ {item}]
             begun(item) == [rest(item) EXCEPT !.cur = item.bindings, !.policy = {Renamed(r, item)}]
  <1>2. PICK item \in h.left :
          \/ /\ stored' = stored \cup {<<r, "policy", Renamed(r, item)>>}
             /\ request' = [request EXCEPT ![r] = Report(begun(item), "success", <<Renamed(r, item).name>>)]
          \/ /\ UNCHANGED stored
             /\ request' = [request EXCEPT ![r] = Report(rest(item), "error", <<Renamed(r, item).name>>)]
    BY DEF ImportPolicy, Renamed
  <1> DEFINE row == Renamed(r, item)
  <1>3. /\ DOMAIN rest(item) = Fields
        /\ LET g == rest(item) IN
           /\ g.pc = h.pc /\ g.file = h.file /\ g.known = h.known /\ g.left = h.left \ {item}
           /\ g.cur = h.cur /\ g.policy = h.policy /\ g.report = h.report
    BY <1>1 DEF Fields
  <1> HIDE DEF rest, row
  <1>4. LET g == begun(item) IN
        /\ DOMAIN g = Fields
        /\ g.pc = h.pc /\ g.file = h.file /\ g.known = h.known /\ g.left = h.left \ {item}
        /\ g.cur = item.bindings /\ g.policy = {row} /\ g.report = h.report
    BY <1>3 DEF Fields, row
  <1> HIDE DEF begun
  <1>5. ASSUME NEW f, DOMAIN f = Fields, NEW level, NEW name, request'[r] = Report(f, level, name)
        PROVE  LET g == request'[r] IN
               /\ g.pc = f.pc /\ g.file = f.file /\ g.known = f.known /\ g.left = f.left
               /\ g.cur = f.cur /\ g.policy = f.policy /\ g.report = f.report \cup {<<level, name>>}
    BY <1>5 DEF Report, Fields
  <1>6. CASE /\ stored' = stored \cup {<<r, "policy", row>>}
             /\ request' = [request EXCEPT ![r] = Report(begun(item), "success", <<row.name>>)]
    <2>1. request'[r] = Report(begun(item), "success", <<row.name>>)
      BY <1>1, <1>6
    <2>2. LET g == request'[r] IN
          /\ g.pc = h.pc /\ g.file = h.file /\ g.known = h.known /\ g.left = h.left \ {item}
          /\ g.cur = item.bindings /\ g.policy = {row}
          /\ g.report = h.report \cup {<<"success", <<row.name>>>>}
      BY <1>4, <1>5, <2>1
    <2>. QED BY <1>1, <1>6, <2>2 DEF row
  <1>7. CASE /\ UNCHANGED stored
             /\ request' = [request EXCEPT ![r] = Report(rest(item), "error", <<row.name>>)]
    <2>1. request'[r] = Report(rest(item), "error", <<row.name>>)
      BY <1>1, <1>7
    <2>2. LET g == request'[r] IN
          /\ g.pc = h.pc /\ g.file = h.file /\ g.known = h.known /\ g.left = h.left \ {item}
          /\ g.cur = {} /\ g.policy = h.policy
          /\ g.report = h.report \cup {<<"error", <<row.name>>>>}
      BY <1>1, <1>3, <1>5, <2>1
    <2>. QED BY <1>1, <1>7, <2>2 DEF row
  <1>. QED BY <1>2, <1>6, <1>7 DEF row

\* The binding taken from the item at hand, and what is noted of it.
LEMMA BindingTaken ==
  ASSUME Handlers, NEW r \in Requests, ImportBinding(r)
  PROVE  LET h == request[r]  g == request'[r] IN
         /\ g.pc = h.pc /\ g.file = h.file /\ g.known = h.known /\ g.left = h.left
         /\ g.policy = h.policy
         /\ \E b \in h.cur, policy \in h.policy :
              LET name == <<policy.name, b.agent>> IN
              /\ g.cur = h.cur \ {b}
              /\ \/ /\ UNCHANGED stored
                    /\ \E l \in {"warning", "error"} : g.report = h.report \cup {<<l, name>>}
                 \/ \E a \in Matches(r, b) :
                      /\ stored' = stored \cup {<<r, "binding", BindingRow(r, policy, b, a)>>}
                      /\ g.report = h.report \cup {<<"success", name>>}
  <1>1. r \in DOMAIN request /\ DOMAIN request[r] = Fields
    BY DEF Handlers
  <1> DEFINE h == request[r]
             rest(b) == [h EXCEPT !.cur = @ \ {b}]
  <1>2. PICK b \in h.cur, policy \in h.policy :
          LET next(l) == [request EXCEPT ![r] = Report(rest(b), l, <<policy.name, b.agent>>)] IN
          \/ UNCHANGED stored /\ \E l \in {"warning", "error"} : request' = next(l)
          \/ \E a \in Matches(r, b) :
               /\ stored' = stored \cup {<<r, "binding", BindingRow(r, policy, b, a)>>}
               /\ request' = next("success")
    BY DEF ImportBinding
  <1> DEFINE name == <<policy.name, b.agent>>
  <1>3. LET g == rest(b) IN
        /\ DOMAIN g = Fields
        /\ g.pc = h.pc /\ g.file = h.file /\ g.known = h.known /\ g.left = h.left
        /\ g.cur = h.cur \ {b} /\ g.policy = h.policy /\ g.report = h.report
    BY <1>1 DEF Fields
  <1> HIDE DEF rest, name
  <1>4. ASSUME NEW l, request' = [request EXCEPT ![r] = Report(rest(b), l, name)]
        PROVE  LET g == request'[r] IN
               /\ g.pc = h.pc /\ g.file = h.file /\ g.known = h.known /\ g.left = h.left
               /\ g.cur = h.cur \ {b} /\ g.policy = h.policy /\ g.report = h.report \cup {<<l, name>>}
    <2>1. request'[r] = Report(rest(b), l, name)
      BY <1>1, <1>4
    <2>. QED BY <1>3, <2>1 DEF Report, Fields
  <1>5. CASE UNCHANGED stored /\ \E l \in {"warning", "error"} :
               request' = [request EXCEPT ![r] = Report(rest(b), l, name)]
    BY <1>4, <1>5 DEF name
  <1>6. ASSUME NEW a \in Matches(r, b),
               stored' = stored \cup {<<r, "binding", BindingRow(r, policy, b, a)>>},
               request' = [request EXCEPT ![r] = Report(rest(b), "success", name)]
        PROVE  LET g == request'[r] IN
               /\ g.pc = h.pc /\ g.file = h.file /\ g.known = h.known /\ g.left = h.left
               /\ g.policy = h.policy /\ g.cur = h.cur \ {b}
               /\ g.report = h.report \cup {<<"success", name>>}
    BY <1>4, <1>6
  <1>. QED BY <1>2, <1>5, <1>6 DEF name

-----------------------------------------------------------------------------
(* The items of a file. *)

\* The new ids and the names tell the items apart.
LEMMA ItemsApart ==
  ASSUME Handlers, NEW r \in Requests, Kind(r, {"import"}), Form(r).valid,
         NEW items, IsBundle(items)
  PROVE  \A i, j \in items :
           /\ IsPolicyRow(i.policy)
           /\ Renamed(r, i).name = i.policy.name /\ Renamed(r, i).id = Form(r).ids[i.policy.name]
           /\ i.policy.name = j.policy.name => i = j
           /\ Renamed(r, i) = Renamed(r, j) => i = j
           /\ Renamed(r, i).id = Renamed(r, j).id => i = j
           /\ \A b, c \in i.bindings : b.agent = c.agent => b = c
  <1>1. \A m, n \in PolicyNames : Form(r).ids[m] = Form(r).ids[n] => m = n
    BY FormOK DEF IsForm, Kind
  <1>2. ASSUME NEW i \in items
        PROVE  /\ IsPolicyRow(i.policy) /\ i.policy.name \in PolicyNames
               /\ Renamed(r, i).name = i.policy.name /\ Renamed(r, i).id = Form(r).ids[i.policy.name]
    BY DEF IsBundle, IsPolicyRow, Renamed
  <1>3. \A i, j \in items : i.policy.name = j.policy.name => i = j
    BY DEF IsBundle
  <1>4. \A i, j \in items : Renamed(r, i).id = Renamed(r, j).id => i = j
    BY <1>1, <1>2, <1>3
  <1>5. \A i \in items : \A b, c \in i.bindings : b.agent = c.agent => b = c
    BY DEF IsBundle
  <1>. QED BY <1>2, <1>3, <1>4, <1>5

\* What is reported and stored stays so while the hosts that were listed stay.
LEMMA BoundStays ==
  ASSUME NEW r, UNCHANGED submission, request'[r].known = request[r].known,
         request[r].report \subseteq request'[r].report,
         Stored(r, "binding") \subseteq Stored(r, "binding")',
         NEW item, NEW b, Bound(r, item, b)
  PROVE  Bound(r, item, b)'
  <1>1. Matches(r, b)' = Matches(r, b) /\ Renamed(r, item)' = Renamed(r, item)
    BY DEF Matches, Renamed, Form
  <1>2. \A x, a : BindingRow(r, x, b, a)' = BindingRow(r, x, b, a)
    BY DEF BindingRow
  <1>. QED BY <1>1, <1>2 DEF Bound

LEMMA BesideKeeps ==
  ASSUME Handlers, NEW r \in Requests, UNCHANGED <<submission, stored>>, Kind(r, {"import"}),
         Importing(r), Beside(r), request'[r].pc \notin {"new", "agents", "import"},
         AtPC(r, "import") => request[r].left = {} /\ request[r].cur = {}
  PROVE  Importing(r)'
  <1>1. /\ Form(r)' = Form(r) /\ (\A table : Stored(r, table)' = Stored(r, table))
        /\ Past(r)' = Past(r) /\ (\A b : Matches(r, b)' = Matches(r, b))
    BY DEF Form, Stored, Past, Matches, Beside
  <1>2. \A item : /\ Renamed(r, item)' = Renamed(r, item) /\ (Failed(r, item)' <=> Failed(r, item))
                  /\ Pending(r, item)' = Pending(r, item)
    BY <1>1 DEF Renamed, Failed, Pending, Beside
  <1>3. \A policy, b, a : BindingRow(r, policy, b, a)' = BindingRow(r, policy, b, a)
    BY DEF BindingRow
  <1>4. \A item, b : Bound(r, item, b)' <=> Bound(r, item, b)
    BY <1>1, <1>2, <1>3 DEF Bound, Beside
  <1>5. \A item : Settled(r, item)' <=> Settled(r, item)
    BY <1>1, <1>2, <1>4 DEF Settled, Beside
  <1>6. (PolicyRows(r)' <=> PolicyRows(r)) /\ (BindingRows(r)' <=> BindingRows(r))
    BY <1>1, <1>2, <1>3 DEF PolicyRows, BindingRows
  <1>7. Current(r)' <=> Current(r)
    BY <1>1, <1>2 DEF Current, Beside
  <1>8. Opening(r)'
    BY DEF Opening
  <1>9. request[r].left = {} /\ request[r].cur = {}
    BY DEF Importing, Ended
  <1>10. Ended(r)'
    BY <1>9 DEF Ended, Beside
  <1>. QED BY <1>1, <1>2, <1>5, <1>6, <1>7, <1>8, <1>10 DEF Importing, Beside

\* At the beginning nothing is stored or reported; the file is taken as the last export left it.
LEMMA NothingStored ==
  ASSUME NEW r, Kind(r, {"import"}), Importing(r), request[r].pc \in {"new", "agents"}
  PROVE  /\ Stored(r, "policy") = {} /\ Stored(r, "binding") = {}
         /\ request[r].report = {} /\ request[r].left = {} /\ request[r].cur = {}
  <1>1. request[r].file = {} /\ request[r].report = {} /\ Past(r) = {}
    BY DEF Importing, Opening, Past
  <1>2. Stored(r, "policy") = {} /\ Stored(r, "binding") = {}
    BY <1>1 DEF Importing, PolicyRows, BindingRows
  <1>. QED BY <1>1, <1>2 DEF Importing, Ended, AtPC

LEMMA Begins ==
  ASSUME NEW r, UNCHANGED <<submission, stored>>, Kind(r, {"import"}),
         Importing(r), request[r].pc \in {"new", "agents"},
         request'[r].left = request'[r].file, request'[r].report = {}, request'[r].cur = {},
         IsBundle(request'[r].file),
         request'[r].file # {} => AtPC(r, "import")' /\ Form(r).valid
  PROVE  Importing(r)'
  <1>1. Stored(r, "policy")' = {} /\ Stored(r, "binding")' = {} /\ Past(r)' = {} /\ Form(r)' = Form(r)
    BY NothingStored DEF Stored, Past, Form
  <1>2. (PolicyRows(r) /\ BindingRows(r) /\ Current(r))'
    BY <1>1 DEF PolicyRows, BindingRows, Current
  <1>3. (Opening(r) /\ Ended(r))'
    BY DEF Opening, Ended, AtPC
  <1>4. \A item : ~ Failed(r, item)'
    BY DEF Failed
  <1>. QED BY <1>1, <1>2, <1>3, <1>4 DEF Importing

LEMMA BeginningKept ==
  ASSUME CInv, IsBundle(file), NEW r \in Requests, Kind(r, {"import"}), Importing(r),
         Open(r) \/ ListAgents(r)
  PROVE  Importing(r)'
  <1>0. Handlers /\ Place(r) /\ UNCHANGED <<submission, stored>>
    BY DEF CInv, Open, ListAgents
  <1>1. CASE Open(r)
    <2>1. AtPC(r, "new") /\ request[r].pc \in {"new", "agents"}
      BY <1>1 DEF Open, AtPC
    <2>2. CASE Beside(r) /\ request'[r].pc = "over"
      BY <1>0, <2>1, <2>2, BesideKeeps DEF AtPC
    <2>3. CASE LET g == request'[r] IN
               g.pc # "import" /\ g.file = {} /\ g.left = {} /\ g.cur = {} /\ g.report = {}
      <3>1. IsBundle(request'[r].file)
        BY <2>3 DEF IsBundle
      <3>. QED BY <1>0, <2>1, <2>3, <3>1, Begins
    <2>. QED BY <1>0, <1>1, <2>2, <2>3, ImportOpened
  <1>2. CASE ListAgents(r)
    <2>1. r \in DOMAIN request /\ DOMAIN request[r] = Fields /\ AtPC(r, "agents") /\ Form(r).valid
      BY <1>0, <1>2 DEF Handlers, ListAgents, Place, AtPC
    <2>2. request'[r] = [request[r] EXCEPT !.pc = "import", !.known = agents, !.file = file, !.left = file]
      BY <1>2, <2>1 DEF ListAgents
    <2>3. LET g == request'[r]  h == request[r] IN
          g.pc = "import" /\ g.file = file /\ g.left = file /\ g.report = h.report /\ g.cur = h.cur
      BY <2>1, <2>2 DEF Fields
    <2>4. request[r].pc \in {"new", "agents"} /\ AtPC(r, "import")'
      BY <2>1, <2>3 DEF AtPC
    <2>5. request'[r].report = {} /\ request'[r].cur = {}
      BY <2>3, <2>4, NothingStored
    <2>. QED BY <1>0, <2>1, <2>3, <2>4, <2>5, Begins
  <1>. QED BY <1>1, <1>2

-----------------------------------------------------------------------------
(* The loop over policies and bindings. *)

LEMMA TakesPolicy ==
  ASSUME Handlers, NEW r \in Requests, Kind(r, {"import"}), Place(r), UNCHANGED submission,
         Importing(r), AtPC(r, "import"), ImportPolicy(r)
  PROVE  Importing(r)'
  <1> DEFINE h == request[r]  g == request'[r]
  <1>1. /\ h.cur = {} /\ g.pc = "import" /\ g.file = h.file /\ g.known = h.known
        /\ h.left \subseteq h.file /\ IsBundle(h.file) /\ Form(r).valid
    BY PolicyTaken DEF Importing, AtPC, Place
  <1>2. PICK item \in h.left :
          LET row == Renamed(r, item) IN
          /\ g.left = h.left \ {item}
          /\ \/ /\ stored' = stored \cup {<<r, "policy", row>>}
                /\ g.cur = item.bindings /\ g.policy = {row}
                /\ g.report = h.report \cup {<<"success", <<row.name>>>>}
             \/ /\ UNCHANGED stored
                /\ g.cur = {} /\ g.policy = h.policy
                /\ g.report = h.report \cup {<<"error", <<row.name>>>>}
    BY PolicyTaken
  <1> DEFINE row == Renamed(r, item)  name == item.policy.name
  <1>3. \A i, j \in h.file : /\ Renamed(r, i).name = i.policy.name
                             /\ i.policy.name = j.policy.name => i = j
                             /\ Renamed(r, i) = Renamed(r, j) => i = j
    BY <1>1, ItemsApart
  <1>4. item \in h.file /\ row.name = name /\ Past(r)' = Past(r) \cup {item} /\ item \notin Past(r)
    BY <1>1, <1>2, <1>3 DEF Past
  <1>5. Form(r)' = Form(r) /\ (\A i : Renamed(r, i)' = Renamed(r, i))
        /\ (\A b : Matches(r, b)' = Matches(r, b))
        /\ (\A x, b, a : BindingRow(r, x, b, a)' = BindingRow(r, x, b, a))
    BY <1>1 DEF Form, Renamed, Matches, BindingRow
  <1>6. h.report \subseteq g.report /\ Stored(r, "binding")' = Stored(r, "binding")
    BY <1>2, StoredGrows DEF Stored
  <1>7. row \notin Stored(r, "policy")
    BY <1>1, <1>3, <1>4 DEF Importing, PolicyRows, Past
  <1>8. ~ Failed(r, item) /\ \A i \in h.file : Failed(r, i)' => Failed(r, i) \/ i = item
    BY <1>2, <1>3, <1>4 DEF Importing, Failed
  <1>9. /\ Stored(r, "policy") \subseteq Stored(r, "policy")'
        /\ Stored(r, "policy")' \subseteq Stored(r, "policy") \cup {row}
    BY <1>2, StoredGrows DEF Stored
  <1>10. \A i \in Past(r) : Settled(r, i)'
    <2> SUFFICES ASSUME NEW i \in Past(r)
                 PROVE  Settled(r, i)'
      OBVIOUS
    <2>1. i \in h.file /\ i # item /\ Settled(r, i)
      BY <1>4 DEF Past, Importing
    <2>2. Renamed(r, i) # row
      BY <1>3, <1>4, <2>1
    <2>3. Failed(r, i)' <=> Failed(r, i)
      BY <1>6, <1>8, <2>1 DEF Failed
    <2>4. \A b \in i.bindings : ~ Failed(r, i) => Bound(r, i, b)
      BY <1>1, <2>1 DEF Settled, Pending
    <2>5. \A b \in i.bindings : ~ Failed(r, i) => Bound(r, i, b)'
      BY <1>1, <1>6, <2>4, BoundStays
    <2>. QED BY <1>5, <1>6, <1>9, <2>1, <2>2, <2>3, <2>5 DEF Settled
  <1>11. Settled(r, item)' /\ Current(r)'
    <2>1. CASE /\ stored' = stored \cup {<<r, "policy", row>>}
               /\ g.cur = item.bindings /\ g.policy = {row}
               /\ g.report = h.report \cup {<<"success", <<row.name>>>>}
      <3>1. row \in Stored(r, "policy")'
        BY <2>1, StoredGrows
      <3>2. ~ Failed(r, item)' /\ <<"success", <<name>>>> \in g.report
        BY <1>4, <1>8, <2>1 DEF Failed
      <3>3. Pending(r, item)' = item.bindings
        BY <1>5, <2>1 DEF Pending
      <3>. QED BY <1>4, <1>5, <2>1, <3>1, <3>2, <3>3 DEF Settled, Current
    <2>2. CASE /\ UNCHANGED stored
               /\ g.cur = {} /\ g.report = h.report \cup {<<"error", <<row.name>>>>}
      <3>1. Failed(r, item)'
        BY <1>4, <2>2 DEF Failed
      <3>2. row \notin Stored(r, "policy")'
        BY <1>7, <2>2 DEF Stored
      <3>. QED BY <1>5, <2>2, <3>1, <3>2 DEF Settled, Current
    <2>. QED BY <1>2, <2>1, <2>2
  <1>12. PolicyRows(r)' /\ BindingRows(r)'
    <2>1. PolicyRows(r)'
      BY <1>4, <1>5, <1>9 DEF Importing, PolicyRows
    <2>2. BindingRows(r)'
      BY <1>4, <1>5, <1>6 DEF Importing, BindingRows
    <2>. QED BY <2>1, <2>2
  <1>13. \A i \in g.left : ~ Failed(r, i)'
    BY <1>1, <1>2, <1>8 DEF Importing
  <1>14. (Opening(r) /\ Ended(r))'
    BY <1>1 DEF Opening, Ended, AtPC
  <1>15. g.left \subseteq g.file /\ IsBundle(g.file) /\ Form(r)'.valid
    BY <1>1, <1>2, <1>5
  <1>. QED BY <1>4, <1>10, <1>11, <1>12, <1>13, <1>14, <1>15 DEF Importing

LEMMA TakesBinding ==
  ASSUME Handlers, NEW r \in Requests, Kind(r, {"import"}), Place(r), UNCHANGED submission,
         Importing(r), AtPC(r, "import"), ImportBinding(r)
  PROVE  Importing(r)'
  <1> DEFINE h == request[r]  g == request'[r]
  <1>1. /\ g.pc = "import" /\ g.file = h.file /\ g.known = h.known /\ g.left = h.left
        /\ g.policy = h.policy /\ h.left \subseteq h.file /\ IsBundle(h.file) /\ Form(r).valid
    BY BindingTaken DEF Importing, AtPC, Place
  <1>2. PICK b \in h.cur, policy \in h.policy :
          LET name == <<policy.name, b.agent>> IN
          /\ g.cur = h.cur \ {b}
          /\ \/ /\ UNCHANGED stored
                /\ \E l \in {"warning", "error"} : g.report = h.report \cup {<<l, name>>}
             \/ \E a \in Matches(r, b) :
                  /\ stored' = stored \cup {<<r, "binding", BindingRow(r, policy, b, a)>>}
                  /\ g.report = h.report \cup {<<"success", name>>}
    BY BindingTaken
  <1> DEFINE name == <<policy.name, b.agent>>
  <1>3. PICK item \in Past(r) : /\ h.policy = {Renamed(r, item)} /\ ~ Failed(r, item)
                                /\ h.cur \subseteq item.bindings
    BY <1>2 DEF Importing, Current
  <1>4. \A i, j \in h.file : /\ Renamed(r, i).name = i.policy.name
                             /\ Renamed(r, i) = Renamed(r, j) => i = j
    BY <1>1, ItemsApart
  <1>5. /\ item \in h.file /\ policy = Renamed(r, item) /\ policy.name = item.policy.name
        /\ b \in item.bindings
    BY <1>2, <1>3, <1>4 DEF Past
  <1>6. Form(r)' = Form(r) /\ (\A i : Renamed(r, i)' = Renamed(r, i)) /\ Past(r)' = Past(r)
        /\ (\A c : Matches(r, c)' = Matches(r, c))
        /\ (\A x, c, a : BindingRow(r, x, c, a)' = BindingRow(r, x, c, a))
    BY <1>1 DEF Form, Renamed, Matches, BindingRow, Past
  <1>7. /\ h.report \subseteq g.report /\ Stored(r, "policy")' = Stored(r, "policy")
        /\ Stored(r, "binding") \subseteq Stored(r, "binding")'
    BY <1>2, StoredGrows DEF Stored
  <1>8. \A i : Failed(r, i)' <=> Failed(r, i)
    <2>1. \A l, n : <<l, <<n>>>> \in g.report => <<l, <<n>>>> \in h.report
      <3>1. \A n : <<n>> # name
        OBVIOUS
      <3>. QED BY <1>2, <3>1
    <2>. QED BY <1>7, <2>1 DEF Failed
  <1>9. Bound(r, item, b)'
    <2>1. CASE \E l \in {"warning", "error"} : g.report = h.report \cup {<<l, name>>}
      BY <1>5, <2>1 DEF Bound
    <2>2. ASSUME NEW a \in Matches(r, b),
                 stored' = stored \cup {<<r, "binding", BindingRow(r, policy, b, a)>>},
                 g.report = h.report \cup {<<"success", name>>}
          PROVE  Bound(r, item, b)'
      <3>1. BindingRow(r, policy, b, a) \in Stored(r, "binding")'
        BY <2>2, StoredGrows
      <3>. QED BY <1>5, <1>6, <2>2, <3>1 DEF Bound
    <2>. QED BY <1>2, <2>1, <2>2
  <1>10. \A i \in Past(r) : Settled(r, i)'
    <2> SUFFICES ASSUME NEW i \in Past(r), ~ Failed(r, i)
                 PROVE  Settled(r, i)'
      BY <1>6, <1>7, <1>8 DEF Importing, Settled
    <2>1. Settled(r, i) /\ i \in h.file
      BY DEF Importing, Past
    <2>2. \A c \in i.bindings \ Pending(r, i) : Bound(r, i, c)'
      BY <1>1, <1>7, <2>1, BoundStays DEF Settled
    <2>3. \A c \in i.bindings \ Pending(r, i)' : c \notin Pending(r, i) \/ (i = item /\ c = b)
      <3>1. CASE i = item
        BY <1>1, <1>2, <1>3, <1>6, <3>1 DEF Pending
      <3>2. CASE i # item
        BY <1>3, <1>4, <1>5, <2>1, <3>2 DEF Pending
      <3>. QED BY <3>1, <3>2
    <2>4. \A c \in i.bindings \ Pending(r, i)' : Bound(r, i, c)'
      BY <1>9, <2>2, <2>3
    <2>. QED BY <1>6, <1>7, <1>8, <2>1, <2>4 DEF Settled
  <1>11. Current(r)'
    BY <1>1, <1>2, <1>3, <1>6, <1>8 DEF Current
  <1>12. PolicyRows(r)'
    BY <1>6, <1>7 DEF Importing, PolicyRows
  <1>13. BindingRows(r)'
    <2>1. \A c \in Stored(r, "binding")' :
            c \in Stored(r, "binding") \/ \E a \in Matches(r, b) : c = BindingRow(r, policy, b, a)
      BY <1>2, StoredGrows DEF Stored
    <2>. QED BY <1>5, <1>6, <2>1 DEF Importing, BindingRows
  <1>14. (Opening(r) /\ Ended(r))'
    BY <1>1 DEF Opening, Ended, AtPC
  <1>15. \A i \in g.left : ~ Failed(r, i)'
    BY <1>1, <1>8 DEF Importing
  <1>. QED BY <1>1, <1>6, <1>10, <1>11, <1>12, <1>13, <1>14, <1>15 DEF Importing

LEMMA ImportingKept ==
  ASSUME CInv, IsBundle(file), NEW r \in Requests, Importing(r), Act(r)
  PROVE  Importing(r)'
  <1>1. Handlers /\ Place(r) /\ UNCHANGED submission
    BY Frame DEF CInv
  <1>2. CASE ~ Kind(r, {"import"})
    <2>1. ~ Kind(r, {"import"})'
      BY <1>1, <1>2 DEF Kind, Form
    <2>. QED BY <2>1 DEF Importing
  <1>3. CASE Kind(r, {"import"})
    <2>1. CASE Open(r) \/ ListAgents(r)
      BY <1>3, <2>1, BeginningKept
    <2>2. CASE ImportPolicy(r)
      BY <1>1, <1>3, <2>2, TakesPolicy DEF ImportPolicy
    <2>3. CASE ImportBinding(r)
      BY <1>1, <1>3, <2>3, TakesBinding DEF ImportBinding
    <2>4. CASE /\ Beside(r) /\ UNCHANGED stored /\ request'[r].pc \in {"ensure", "reads", "over"}
               /\ AtPC(r, "import") => request[r].left = {} /\ request[r].cur = {}
      BY <1>1, <1>3, <2>4, BesideKeeps
    <2>. QED BY <1>1, <1>3, <2>1, <2>2, <2>3, <2>4, ImportMoves
  <1>. QED BY <1>2, <1>3

-----------------------------------------------------------------------------
(* The invariant holds at the start and is kept. *)

\* The values of a binding come from a form or a file.
LEMMA ValuesCreated ==
  ASSUME ValuesOK, NEW row, IsBindingRow(row), IsValues(row.values),
         CreateExecCommandPolicyBinding(row)
  PROVE  ValuesOK'
  <1> DEFINE same == {c \in bindings : c.policy = row.policy /\ c.agent = row.agent}
             new == IF same = {} THEN {row} ELSE {[row EXCEPT !.id = c.id] : c \in same}
  <1>1. bindings' = (bindings \ same) \cup new
    BY DEF CreateExecCommandPolicyBinding
  <1>2. \A c \in new : c.values = row.values
    BY DEF IsBindingRow
  <1> HIDE DEF same, new
  <1>. QED BY <1>1, <1>2 DEF ValuesOK

LEMMA ValuesKept ==
  ASSUME Handlers, ValuesOK, NEW r \in Requests, HandlerOK(r), Place(r), Importing(r), Act(r)
  PROVE  ValuesOK'
  <1>1. CASE bindings' \subseteq bindings
    BY <1>1 DEF ValuesOK
  <1>2. CASE WriteBinding(r)
    <2> DEFINE row == Form(r).row
    <2>1. /\ Form(r).valid
          /\ Kind(r, {"binding", "binding_update"}) => IsBindingRow(row) /\ IsValues(row.values)
      BY <1>2, FormOK DEF WriteBinding, Place, AtPC, Kind, IsForm
    <2>2. CASE Kind(r, {"binding"}) /\ CreateExecCommandPolicyBinding(row)
      BY <2>1, <2>2, ValuesCreated DEF Kind
    <2>3. CASE Kind(r, {"binding_update"}) /\ UpdateExecCommandPolicyBinding(row.id, row)
      <3> DEFINE new(b) == IF b.id = row.id THEN [row EXCEPT !.id = row.id, !.policy = b.policy,
                                                              !.agent = b.agent] ELSE b
      <3>1. bindings' = {new(b) : b \in bindings}
        BY <2>3 DEF UpdateExecCommandPolicyBinding
      <3>2. IsBindingRow(row) /\ IsValues(row.values)
        BY <2>1, <2>3 DEF Kind
      <3>3. \A b \in bindings : new(b).values \in {row.values, b.values}
        BY <3>2 DEF IsBindingRow
      <3> HIDE DEF new, row
      <3>. QED BY <3>1, <3>2, <3>3 DEF ValuesOK
    <2>4. \/ bindings' \subseteq bindings
          \/ Kind(r, {"binding"}) /\ CreateExecCommandPolicyBinding(row)
          \/ Kind(r, {"binding_update"}) /\ UpdateExecCommandPolicyBinding(row.id, row)
      BY <1>2 DEF WriteBinding, DeleteExecCommandPolicyBinding, policyVars
    <2>. QED BY <1>1, <2>2, <2>3, <2>4
  <1>3. CASE WritePolicy(r) \/ RemoveAgent(r)
    BY <1>1, <1>3 DEF WritePolicy, RemoveAgent, CreateExecCommandPolicy, UpdateExecCommandPolicy,
                      DeleteExecCommandPolicy, DeleteAgent, policyVars
  <1>4. CASE ImportPolicy(r)
    BY <1>1, <1>4, ImportPolicyEffect DEF CreateExecCommandPolicy, policyVars
  <1>5. CASE ImportBinding(r)
    <2>1. Kind(r, {"import"})
      BY <1>5 DEF ImportBinding, Place, AtPC
    <2>2. ASSUME NEW b \in request[r].cur
          PROVE  IsValues(b.values)
      BY <2>1, <2>2 DEF Importing, Current, Past, IsBundle
    <2>3. ASSUME NEW b \in request[r].cur, NEW policy \in request[r].policy, NEW a \in Matches(r, b),
                 CreateExecCommandPolicyBinding(BindingRow(r, policy, b, a))
          PROVE  ValuesOK'
      <3>1. BindingRow(r, policy, b, a).values = b.values
        BY DEF BindingRow
      <3>. QED BY <2>2, <2>3, <3>1, ImportedBindingOK, ValuesCreated
    <2>. QED BY <1>1, <1>5, <2>3, ImportBindingEffect DEF policyVars
  <1>. QED BY <1>1, <1>2, <1>3, <1>4, <1>5, PolicyWriters DEF WritesPolicies, policyVars

LEMMA ImportInvInit ==
  ASSUME ConsoleInit
  PROVE  ImportInv
  <1>1. CInv
    BY CInvInit
  <1>2. /\ policies = FirstPolicies /\ bindings = FirstBindings /\ file = FirstFile /\ stored = {}
        /\ request = [r \in Requests |-> Handler("new", {}, <<>>)]
    BY DEF ConsoleInit
  <1>3. Keys /\ ValuesOK /\ IsBundle(file)
    BY <1>2, RowsAssumption DEF Keys, ValuesOK
  <1>4. ASSUME NEW r \in Requests
        PROVE  Exporting(r) /\ Importing(r)
    <2>1. LET h == request[r] IN
          /\ h.pc = "new" /\ h.shown = Shown
          /\ h.file = {} /\ h.left = {} /\ h.cur = {} /\ h.report = {}
      BY <1>2 DEF Handler
    <2>2. Exporting(r)
      BY <2>1 DEF Exporting, Shown
    <2>3. Past(r) = {} /\ Stored(r, "policy") = {} /\ Stored(r, "binding") = {}
      BY <1>2, <2>1 DEF Past, Stored
    <2>4. PolicyRows(r) /\ BindingRows(r) /\ Current(r) /\ Opening(r) /\ Ended(r)
      BY <2>1, <2>3 DEF PolicyRows, BindingRows, Current, Opening, Ended
    <2>. QED BY <2>1, <2>2, <2>3, <2>4 DEF Importing, IsBundle
  <1>. QED BY <1>1, <1>3, <1>4 DEF ImportInv

LEMMA ImportInvAct ==
  ASSUME ImportInv, NEW r \in Requests, Act(r)
  PROVE  ImportInv'
  <1>1. CInv /\ CInv' /\ Handlers /\ TablesOK /\ HandlerOK(r) /\ Place(r) /\ Keys /\ IsBundle(file)
        /\ ValuesOK
    BY CInvAct DEF ImportInv, CInv
  <1>2. Keys' /\ ValuesOK'
    BY <1>1, KeysKept, ValuesKept DEF ImportInv
  <1>3. Importing(r)' /\ Exporting(r)'
    BY <1>1, ImportingKept, ExportingKept DEF ImportInv
  <1>4. \A q \in Requests \ {r} : Importing(q)' /\ Exporting(q)'
    BY <1>1, OthersImport DEF ImportInv
  <1>5. HandlerOK(r)'
    BY <1>1, HandlerKept
  <1>6. IsBundle(file')
    BY <1>1, <1>3, <1>5, FileKept
  <1>7. IsBundle(file)'
    BY <1>6 DEF IsBundle, IsPolicyRow
  <1>. QED BY <1>1, <1>2, <1>3, <1>4, <1>7 DEF ImportInv

LEMMA ImportInvStutter ==
  ASSUME ImportInv, UNCHANGED vars
  PROVE  ImportInv'
  <1>1. UNCHANGED <<policies, bindings, file, submission, request, stored>>
    BY DEF vars, policyVars, consoleVars
  <1>2. CInv' /\ Keys' /\ ValuesOK' /\ IsBundle(file)'
    BY <1>1, CInvStutter DEF ImportInv, Keys, ValuesOK
  <1>3. ASSUME NEW r \in Requests
        PROVE  Exporting(r)' /\ Importing(r)'
    <2>1. /\ Form(r)' = Form(r) /\ (\A table : Stored(r, table)' = Stored(r, table))
          /\ Past(r)' = Past(r) /\ (\A b : Matches(r, b)' = Matches(r, b))
      BY <1>1 DEF Form, Stored, Past, Matches
    <2>2. \A item : /\ Renamed(r, item)' = Renamed(r, item) /\ (Failed(r, item)' <=> Failed(r, item))
                    /\ Pending(r, item)' = Pending(r, item)
      BY <1>1, <2>1 DEF Renamed, Failed, Pending
    <2>3. \A policy, b, a : BindingRow(r, policy, b, a)' = BindingRow(r, policy, b, a)
      BY DEF BindingRow
    <2>4. \A item, b : Bound(r, item, b)' <=> Bound(r, item, b)
      BY <1>1, <2>1, <2>2, <2>3 DEF Bound
    <2>5. \A item : Settled(r, item)' <=> Settled(r, item)
      BY <1>1, <2>1, <2>2, <2>4 DEF Settled
    <2>6. (PolicyRows(r)' <=> PolicyRows(r)) /\ (BindingRows(r)' <=> BindingRows(r))
      BY <2>1, <2>2, <2>3 DEF PolicyRows, BindingRows
    <2>7. (Opening(r) /\ Ended(r) /\ Current(r))' <=> (Opening(r) /\ Ended(r) /\ Current(r))
      BY <1>1, <2>1, <2>2 DEF Opening, Ended, Current, AtPC
    <2>8. Kind(r, {"import"})' <=> Kind(r, {"import"})
      BY <2>1 DEF Kind
    <2>9. Importing(r)'
      BY <1>1, <2>1, <2>2, <2>5, <2>6, <2>7, <2>8 DEF ImportInv, Importing
    <2>10. Exporting(r)'
      BY <1>1 DEF ImportInv, Exporting, Kind, Form
    <2>. QED BY <2>9, <2>10
  <1>. QED BY <1>2, <1>3 DEF ImportInv

-----------------------------------------------------------------------------
(* The theorems. *)

\* When a loop has ended nothing is pending, and the ids of the rows tell whose they are.
LEMMA AllAccounted ==
  ASSUME ImportInv
  PROVE  ImportAccounted
  <1> SUFFICES ASSUME NEW r \in Requests, Kind(r, {"import"}),
                      request[r].pc \in {"ensure", "reads", "over"},
                      NEW item \in request[r].file
               PROVE  Accounted(r, item)
    BY DEF ImportAccounted
  <1>1. /\ Handlers /\ Importing(r) /\ request[r].left = {} /\ request[r].cur = {}
        /\ Form(r).valid /\ IsBundle(request[r].file) /\ Past(r) = request[r].file
    BY DEF ImportInv, CInv, Importing, Ended, AtPC, Past
  <1>2. Settled(r, item) /\ Pending(r, item) = {} /\ PolicyRows(r) /\ BindingRows(r)
    BY <1>1 DEF Importing, Pending
  <1>3. \A i, j \in request[r].file :
          /\ Renamed(r, i) = Renamed(r, j) => i = j
          /\ Renamed(r, i).id = Renamed(r, j).id => i = j
          /\ \A b, c \in i.bindings : b.agent = c.agent => b = c
    BY <1>1, ItemsApart
  <1> DEFINE copies == Stored(r, "policy") \cap {Renamed(r, item)}
             report == request[r].report
             name(b) == <<item.policy.name, b.agent>>
  <1>4. \A x, b, a : LET c == BindingRow(r, x, b, a) IN
          /\ c.id = <<r, x.id, a>> /\ c.policy = x.id /\ c.agent = a
          /\ <<c.command, c.args, c.values, c.active>> = <<b.command, b.args, b.values, b.active>>
    BY DEF BindingRow
  <1>5. CASE Failed(r, item)
    <2>1. copies = {}
      BY <1>2, <1>5 DEF Settled
    <2>. QED BY <1>5, <2>1 DEF Accounted, Failed, Stored, Renamed
  <1>6. CASE ~ Failed(r, item)
    <2>1. copies = {Renamed(r, item)} /\ <<"success", <<item.policy.name>>>> \in report
      BY <1>2, <1>6 DEF Settled
    <2>2. ASSUME NEW b \in item.bindings
          PROVE  \/ \E l \in {"warning", "error"} : <<l, name(b)>> \in report
                 \/ /\ <<"success", name(b)>> \in report
                    /\ \E x \in copies, c \in Stored(r, "binding") :
                         /\ c.id = <<r, x.id, c.agent>>
                         /\ c.agent = b.agent \/ Hostname[c.agent] \in b.host
                         /\ <<c.command, c.args, c.values, c.active>> =
                              <<b.command, b.args, b.values, b.active>>
      <3>1. Bound(r, item, b)
        BY <1>2, <1>6 DEF Settled
      <3>2. CASE \E l \in {"warning", "error"} : <<l, name(b)>> \in report
        BY <3>2
      <3>3. ASSUME <<"success", name(b)>> \in report,
                   NEW a \in Matches(r, b),
                   BindingRow(r, Renamed(r, item), b, a) \in Stored(r, "binding")
            PROVE  \E x \in copies, c \in Stored(r, "binding") :
                         /\ c.id = <<r, x.id, c.agent>>
                         /\ c.agent = b.agent \/ Hostname[c.agent] \in b.host
                         /\ <<c.command, c.args, c.values, c.active>> =
                              <<b.command, b.args, b.values, b.active>>
        <4>1. a = b.agent \/ Hostname[a] \in b.host
          BY DEF Matches
        <4> DEFINE c == BindingRow(r, Renamed(r, item), b, a)
        <4>2. /\ c \in Stored(r, "binding") /\ c.id = <<r, Renamed(r, item).id, c.agent>> /\ c.agent = a
              /\ <<c.command, c.args, c.values, c.active>> = <<b.command, b.args, b.values, b.active>>
          BY <1>4, <3>3
        <4> HIDE DEF c
        <4>. QED BY <2>1, <4>1, <4>2
      <3>. QED BY <3>1, <3>2, <3>3 DEF Bound
    <2>3. ASSUME NEW x \in copies, NEW c \in Stored(r, "binding"), NEW d \in Stored(r, "binding"),
                 c.policy = x.id, c.id = d.id, c # d
          PROVE  \E b \in item.bindings : b.agent \notin request[r].known /\ Hostname[c.agent] \in b.host
      <3>1a. PICK i \in request[r].file : \E b \in i.bindings : \E a \in Matches(r, b) :
               c = BindingRow(r, Renamed(r, i), b, a)
        BY <1>1, <1>2 DEF BindingRows
      <3>1b. PICK b \in i.bindings : \E a \in Matches(r, b) :
               c = BindingRow(r, Renamed(r, i), b, a)
        BY <3>1a
      <3>1. PICK a \in Matches(r, b) : c = BindingRow(r, Renamed(r, i), b, a)
        BY <3>1b
      <3>2a. PICK j \in request[r].file : \E e \in j.bindings : \E k \in Matches(r, e) :
               d = BindingRow(r, Renamed(r, j), e, k)
        BY <1>1, <1>2 DEF BindingRows
      <3>2b. PICK e \in j.bindings : \E k \in Matches(r, e) :
               d = BindingRow(r, Renamed(r, j), e, k)
        BY <3>2a
      <3>2. PICK k \in Matches(r, e) : d = BindingRow(r, Renamed(r, j), e, k)
        BY <3>2b
      <3>3. i = item
        BY <1>3, <1>4, <2>1, <2>3, <3>1
      <3>4. c.id = <<r, Renamed(r, i).id, a>> /\ d.id = <<r, Renamed(r, j).id, k>> /\ c.agent = a
        BY <1>4, <3>1, <3>2
      <3>5. Renamed(r, i).id = Renamed(r, j).id /\ a = k
        <4>1. \A p, q, m, n : <<r, p, m>> = <<r, q, n>> => p = q /\ m = n
          OBVIOUS
        <4>2. <<r, Renamed(r, i).id, a>> = <<r, Renamed(r, j).id, k>>
          BY <2>3, <3>4
        <4>. QED BY <4>1, <4>2
      <3>6. j = item
        BY <1>3, <3>3, <3>5
      <3>7. b # e
        BY <2>3, <3>1, <3>2, <3>3, <3>5, <3>6
      <3>8. b.agent # e.agent
        BY <1>3, <3>1, <3>2, <3>3, <3>6, <3>7
      <3>9. a \in Matches(r, b) /\ a \in Matches(r, e) /\ b \in item.bindings /\ e \in item.bindings
        BY <3>1, <3>2, <3>3, <3>5, <3>6
      <3>. QED BY <3>4, <3>8, <3>9 DEF Matches
    <2>. QED BY <1>6, <2>1, <2>2, <2>3 DEF Accounted, Failed, Stored, Renamed
  <1>. QED BY <1>5, <1>6

\* importExecPolicies: whatever fails or is deleted meanwhile, the report says of every policy
\* and binding of the file what has become of it, and the rows are what was exported.
THEOREM ImportsAreAccounted == ConsoleSpec => []ImportAccounted
  <1>1. ConsoleInit => ImportInv
    BY ImportInvInit
  <1>2. ImportInv /\ [ConsoleNext]_vars => ImportInv'
    <2>1. ConsoleNext => \E r \in Requests : Act(r)
      BY DEF ConsoleNext, Act
    <2>. QED BY <2>1, ImportInvAct, ImportInvStutter
  <1>3. ImportInv => ImportAccounted
    BY AllAccounted
  <1>. QED BY <1>1, <1>2, <1>3, PTL DEF ConsoleSpec

-----------------------------------------------------------------------------
(* Induction over the parameters of a text: the sets of the prefixes that  *)
(* are as they should be.                                                  *)

\* A set of numbers has a least member.
LEMMA Least ==
  ASSUME NEW S, S \subseteq Nat, S # {}
  PROVE  \E n \in S : \A m \in S : n <= m
  <1> DEFINE R == OpToRel(<, Nat)
  <1>1. IsWellFoundedOn(R, Nat)
    BY NatLessThanWellFounded
  <1>2. \A m, n \in Nat : m < n => <<m, n>> \in R
    BY DEF OpToRel
  <1> HIDE DEF R
  <1>3. PICK n \in S : \A m \in S : <<m, n>> \notin R
    BY <1>1, WFMin
  <1>4. ASSUME NEW m \in S
        PROVE  n <= m
    <2>1. m \in Nat /\ n \in Nat /\ ~ (m < n)
      BY <1>2, <1>3
    <2>. QED BY <2>1
  <1>. QED BY <1>4

\* Induction over an interval, for a set instead of a property.
LEMMA Upwards ==
  ASSUME NEW n \in Nat, NEW Good,
         \A i \in 1..n : i = 1 \/ i - 1 \in Good => i \in Good
  PROVE  1..n \subseteq Good
  <1> DEFINE Bad == (1..n) \ Good
  <1> SUFFICES ASSUME Bad # {} PROVE FALSE
    OBVIOUS
  <1>0. Bad \subseteq Nat
    OBVIOUS
  <1> HIDE DEF Bad
  <1>1. PICK i \in Bad : \A j \in Bad : i <= j
    BY <1>0, Least
  <1>2. i \in 1..n /\ i \notin Good
    BY DEF Bad
  <1>3. i # 1 => i - 1 \in 1..n
    BY <1>2
  <1>4. i - 1 \notin Bad
    BY <1>0, <1>1
  <1>. QED BY <1>2, <1>3, <1>4 DEF Bad

\* A text is the concatenation of its tokens.
LEMMA Singletons ==
  ASSUME NEW t, t \in Seq({t[i] : i \in DOMAIN t})
  PROVE  FlattenSeq([i \in DOMAIN t |-> <<t[i]>>]) = t
  <1> DEFINE n == Len(t)
             T == {t[i] : i \in DOMAIN t}
             s == [i \in DOMAIN t |-> <<t[i]>>]
             Def(f) == [i \in 1..n |-> IF i = 1 THEN s[i] ELSE f[i-1] \o s[i]]
             flat == CHOOSE f : f = Def(f)
             sol == [i \in 1..n |-> SubSeq(t, 1, i)]
  <1>0. n \in Nat /\ DOMAIN t = 1..n /\ Len(s) = n
    OBVIOUS
  <1>1. CASE n = 0
    BY <1>0, <1>1 DEF FlattenSeq
  <1>2. CASE n # 0
    <2>1. ASSUME NEW i \in 1..n
          PROVE  sol[i] = IF i = 1 THEN s[i] ELSE sol[i-1] \o s[i]
      <3>0. s[i] = <<t[i]>> /\ sol[i] = SubSeq(t, 1, i)
        BY <1>0
      <3>1. CASE i = 1
        <4>1. SubSeq(t, 1, 1) = [j \in 1..1 |-> t[j]]
          BY <1>0, <3>1
        <4>. QED BY <3>0, <3>1, <4>1
      <3>2. CASE i # 1
        <4>1. i - 1 \in 1..n /\ sol[i-1] = SubSeq(t, 1, i-1)
          BY <1>0, <3>2
        <4>2. SubSeq(t, 1, i) = SubSeq(t, 1, i-1) \o <<t[i]>>
          BY <1>0, <3>2
        <4>. QED BY <3>0, <3>2, <4>1, <4>2
      <3>. QED BY <3>1, <3>2
    <2>2. sol = Def(sol)
      BY <2>1
    <2>3. flat = Def(flat)
      BY <2>2
    <2>4. FlattenSeq(s) = flat[n]
      BY <1>0, <1>2 DEF FlattenSeq
    <2> HIDE DEF flat, sol, s, n
    <2>5. \A i \in 1..n : flat[i] = IF i = 1 THEN s[i] ELSE flat[i-1] \o s[i]
      BY <2>3
    <2> DEFINE Good == {i \in 1..n : flat[i] = sol[i]}
    <2>6. \A i \in 1..n : i = 1 \/ i - 1 \in Good => i \in Good
      BY <2>1, <2>5
    <2>7. 1..n \subseteq Good
      BY <1>0, <2>6, Upwards
    <2>8. flat[n] = sol[n]
      BY <1>0, <1>2, <2>7
    <2>9. sol[n] = t
      <3>1. sol[n] = SubSeq(t, 1, n)
        BY <1>0, <1>2 DEF sol
      <3>2. SubSeq(t, 1, n) = t
        BY <1>0 DEF n
      <3>. QED BY <3>1, <3>2
    <2>. QED BY <2>4, <2>8, <2>9 DEF s
  <1>. QED BY <1>0, <1>1, <1>2

\* Replacing a placeholder that is not in a text changes nothing; one that is the text becomes the value.
LEMMA NotThere ==
  ASSUME NEW t, IsText(t), NEW n, NEW v, \A i \in DOMAIN t : t[i] # Ref(n)
  PROVE  Substitute(t, n, v) = t
  <1>1. [i \in DOMAIN t |-> IF t[i] = Ref(n) THEN v ELSE <<t[i]>>] = [i \in DOMAIN t |-> <<t[i]>>]
    OBVIOUS
  <1>. QED BY <1>1, Singletons DEF Substitute, IsText

LEMMA Replaced1 ==
  ASSUME NEW n, NEW v
  PROVE  Substitute(<<Ref(n)>>, n, v) = v
  <1> DEFINE s == <<v>>
             Def(f) == [i \in 1..1 |-> IF i = 1 THEN s[i] ELSE f[i-1] \o s[i]]
             flat == CHOOSE f : f = Def(f)
  <1>1. <<v>> = Def(<<v>>)
    OBVIOUS
  <1>2. flat = Def(flat)
    BY <1>1
  <1>3. Len(s) = 1
    OBVIOUS
  <1>4. FlattenSeq(s) = flat[1]
    BY <1>3 DEF FlattenSeq
  <1> HIDE DEF flat
  <1>5. FlattenSeq(s) = v
    BY <1>2, <1>4
  <1>6. [i \in DOMAIN <<Ref(n)>> |-> IF <<Ref(n)>>[i] = Ref(n) THEN v ELSE << <<Ref(n)>>[i] >>] = s
    OBVIOUS
  <1>. QED BY <1>5, <1>6 DEF Substitute

\* The maximum FoldLeft begins with: it is there, and of an interval it is the end.
LEMMA Highest ==
  ASSUME NEW n \in Nat, n # 0
  PROVE  Max(1..n) = n
  <1>1. n \in 1..n /\ \A y \in 1..n : n >= y
    OBVIOUS
  <1>2. \A x \in 1..n : (\A y \in 1..n : x >= y) => x = n
    OBVIOUS
  <1>. QED BY <1>1, <1>2 DEF Max

LEMMA HasMax ==
  ASSUME NEW N \in Nat, NEW s, s \subseteq 1..N, s # {}
  PROVE  Max(s) \in s
  <1> DEFINE S == {N - i : i \in s}
  <1>0. \A i \in s : N - i \in Nat
    OBVIOUS
  <1>1. S \subseteq Nat /\ S # {}
    BY <1>0
  <1>2. PICK k \in S : \A m \in S : k <= m
    BY <1>1, Least
  <1>3. PICK j \in s : k = N - j
    BY <1>2
  <1>4. ASSUME NEW i \in s
        PROVE  j >= i
    <2>1. N - j <= N - i
      BY <1>2, <1>3
    <2>2. i \in Int /\ j \in Int
      OBVIOUS
    <2>. QED BY <2>1, <2>2
  <1>. QED BY <1>4 DEF Max

\* InterpolateExecTemplate, in one order.
Expanded(text, values, order) == FoldLeft(LAMBDA t, n : Substitute(t, n, values[n]), text, order)

\* Replacing the parameters one after the other makes a placeholder its value, in any order.
LEMMA Folded ==
  ASSUME NEW values, NEW N \in Nat, NEW order \in [1..N -> DOMAIN values], NEW n,
         n \in DOMAIN values => IsText(values[n]) /\ Plain(values[n])
  PROVE  Expanded(<<Ref(n)>>, values, order) =
           IF \E i \in 1..N : order[i] = n THEN values[n] ELSE <<Ref(n)>>
  <1> DEFINE D == 1..N
             text == <<Ref(n)>>
             Def(f) == [s \in SUBSET D |-> IF s = {} THEN text
                          ELSE Substitute(f[s \ {Max(s)}], order[Max(s)], values[order[Max(s)]])]
             iter == CHOOSE f : f = Def(f)
             built == [s \in SUBSET D |-> IF \E i \in s : order[i] = n THEN values[n] ELSE text]
  <1>1. Expanded(<<Ref(n)>>, values, order) = iter[D]
    <2>1. DOMAIN order = D
      OBVIOUS
    <2>. QED BY <2>1 DEF Expanded, FoldLeft, MapThenFoldSet
  <1>2. ASSUME NEW s \in SUBSET D, s # {}
        PROVE  built[s] = Substitute(built[s \ {Max(s)}], order[Max(s)], values[order[Max(s)]])
    <2> DEFINE j == Max(s)
               r == s \ {j}
    <2>1. j \in s /\ r \in SUBSET D
      BY <1>2, HasMax
    <2>2. order[j] \in DOMAIN values
      BY <2>1
    <2>3. \A u \in SUBSET D : built[u] = IF \E i \in u : order[i] = n THEN values[n] ELSE text
      OBVIOUS
    <2> HIDE DEF j, r, built
    <2>4. CASE \E i \in r : order[i] = n
      <3>1. built[r] = values[n] /\ built[s] = values[n]
        BY <2>1, <2>3, <2>4 DEF r
      <3>2. n \in DOMAIN values
        BY <2>1, <2>4
      <3>3. \A i \in DOMAIN values[n] : values[n][i] # Ref(order[j])
        BY <3>2 DEF Plain, Ref
      <3>4. Substitute(values[n], order[j], values[order[j]]) = values[n]
        BY <3>2, <3>3, NotThere
      <3>. QED BY <3>1, <3>4 DEF j, r
    <2>5. CASE ~ (\E i \in r : order[i] = n) /\ order[j] = n
      <3>1. built[r] = text /\ built[s] = values[n]
        BY <2>1, <2>3, <2>5
      <3>2. Substitute(text, order[j], values[order[j]]) = values[n]
        BY <2>5, Replaced1
      <3>. QED BY <3>1, <3>2 DEF j, r
    <2>6. CASE ~ (\E i \in r : order[i] = n) /\ order[j] # n
      <3>1. built[r] = text
        BY <2>1, <2>3, <2>6
      <3>2. ~ \E i \in s : order[i] = n
        BY <2>6 DEF r
      <3>3. built[s] = text
        BY <2>3, <3>2
      <3>4. Ref(order[j]) # Ref(n) /\ DOMAIN text = {1} /\ text[1] = Ref(n) /\ IsText(text)
        BY <2>6 DEF Ref, IsText
      <3>5. Substitute(text, order[j], values[order[j]]) = text
        BY <3>4, NotThere
      <3>. QED BY <3>1, <3>3, <3>5 DEF j, r
    <2>. QED BY <2>4, <2>5, <2>6
  <1>3. built = Def(built)
    <2>1. built[{}] = text
      OBVIOUS
    <2> DEFINE right == Def(built)
    <2>2. \A s \in SUBSET D : built[s] = right[s]
      BY <1>2, <2>1
    <2>3. DOMAIN built = SUBSET D /\ DOMAIN right = SUBSET D
      OBVIOUS
    <2>4. built = [s \in SUBSET D |-> built[s]] /\ right = [s \in SUBSET D |-> right[s]]
      OBVIOUS
    <2> HIDE DEF built, right
    <2>5. built = right
      BY <2>2, <2>4
    <2>. QED BY <2>5 DEF right
  <1>4. iter = Def(iter)
    <2> HIDE DEF built
    <2>. QED BY <1>3
  <1>5. /\ iter[{}] = text
        /\ \A s \in SUBSET D : s # {} =>
             iter[s] = Substitute(iter[s \ {Max(s)}], order[Max(s)], values[order[Max(s)]])
    <2> HIDE DEF iter
    <2>. QED BY <1>4
  <1>6. built[{}] = text
    OBVIOUS
  <1>7. built[D] = IF \E i \in D : order[i] = n THEN values[n] ELSE text
    OBVIOUS
  <1> HIDE DEF built, iter
  <1> DEFINE Good == {i \in 1..N : iter[1..i] = built[1..i]}
  <1>8. ASSUME NEW i \in 1..N, i = 1 \/ i - 1 \in Good
        PROVE  i \in Good
    <2>1. 1..i \in SUBSET D /\ 1..i # {} /\ Max(1..i) = i
      BY Highest
    <2>2. (1..i) \ {i} = 1..(i-1)
      OBVIOUS
    <2>3. iter[1..i] = Substitute(iter[1..(i-1)], order[i], values[order[i]])
      BY <1>5, <2>1, <2>2
    <2>4. built[1..i] = Substitute(built[1..(i-1)], order[i], values[order[i]])
      BY <1>2, <2>1, <2>2
    <2>5. CASE i = 1
      <3>1. 1..(i-1) = {}
        BY <2>5
      <3>. QED BY <1>5, <1>6, <2>3, <2>4, <3>1
    <2>6. CASE i - 1 \in Good
      <3>1. iter[1..(i-1)] = built[1..(i-1)]
        BY <2>6
      <3>. QED BY <2>3, <2>4, <3>1
    <2>. QED BY <1>8, <2>5, <2>6
  <1>9. 1..N \subseteq Good
    <2> HIDE DEF Good
    <2>. QED BY <1>8, Upwards
  <1>10. iter[D] = built[D]
    <2>1. CASE N = 0
      <3>1. D = {}
        BY <2>1
      <3>. QED BY <1>5, <1>6, <3>1
    <2>2. CASE N # 0
      <3>1. N \in Good
        BY <1>9, <2>2
      <3>. QED BY <3>1
    <2>. QED BY <2>1, <2>2
  <1>. QED BY <1>1, <1>7, <1>10

\* So a text that is one placeholder becomes its value, or stays when it has none.
LEMMA Interpolated ==
  ASSUME NEW values, IsFiniteSet(DOMAIN values), NEW n, NEW text,
         n \in DOMAIN values => IsText(values[n]) /\ Plain(values[n]),
         text \in InterpolateExecTemplate(<<Ref(n)>>, values)
  PROVE  text = IF n \in DOMAIN values THEN values[n] ELSE <<Ref(n)>>
  <1> DEFINE N == Cardinality(DOMAIN values)
  <1>1. N \in Nat
    BY FS_CardinalityType
  <1>2. PICK order \in SetToSeqs(DOMAIN values) :
          text = Expanded(<<Ref(n)>>, values, order)
    BY DEF InterpolateExecTemplate, Expanded
  <1>3. /\ order \in [1..N -> DOMAIN values]
        /\ \A i, j \in 1..N : i # j => order[i] # order[j]
    BY DEF SetToSeqs
  <1>4. n \in DOMAIN values => \E i \in 1..N : order[i] = n
    <2>1. order \in Injection(1..N, DOMAIN values)
      BY <1>3 DEF Injection, IsInjective
    <2>2. Cardinality(1..N) = N
      BY <1>1, FS_Interval
    <2>3. order \in Surjection(1..N, DOMAIN values)
      BY <2>1, <2>2, FS_Injection
    <2>. QED BY <2>3 DEF Surjection
  <1>5. text = IF \E i \in 1..N : order[i] = n THEN values[n] ELSE <<Ref(n)>>
    BY <1>1, <1>2, <1>3, Folded
  <1>6. (\E i \in 1..N : order[i] = n) => n \in DOMAIN values
    BY <1>3
  <1>. QED BY <1>4, <1>5, <1>6
\* A parameter with a name of its own gets the value that is due.
LEMMA Merged ==
  ASSUME NEW defs, \A d, e \in defs : d.name = e.name => d = e, NEW b, NEW given, NEW d \in defs
  PROVE  LET m == MergeExecPolicyValues(defs, b.values, given) IN
         /\ d.name \in DOMAIN m <=> HasDue(d, b, given)
         /\ d.name \in DOMAIN m => m[d.name] = Due(d, b, given)
  <1> DEFINE m == MergeExecPolicyValues(defs, b.values, given)
             defaults == {e \in defs : e.default # <<>>}
             edited == {e.name : e \in {f \in defs : f.editable}} \cap DOMAIN given
             names == {e.name : e \in defaults} \cup DOMAIN b.values \cup edited
  <1>1. /\ DOMAIN m = names
        /\ \A n \in names : m[n] = IF n \in edited THEN given[n]
                                   ELSE IF n \in DOMAIN b.values THEN b.values[n]
                                   ELSE (CHOOSE e \in defaults : e.name = n).default
    BY DEF MergeExecPolicyValues
  <1>2. d.name \in edited <=> Edited(d, given)
    BY DEF Edited
  <1>3. d.name \in {e.name : e \in defaults} <=> d.default # <<>>
    OBVIOUS
  <1>4. d.default # <<>> => (CHOOSE e \in defaults : e.name = d.name) = d
    OBVIOUS
  <1> HIDE DEF m, edited, defaults
  <1>5. d.name \in DOMAIN m <=> HasDue(d, b, given)
    BY <1>1, <1>2, <1>3 DEF HasDue
  <1>6. d.name \in DOMAIN m => m[d.name] = Due(d, b, given)
    BY <1>1, <1>2, <1>3, <1>4, <1>5 DEF HasDue, Due
  <1>. QED BY <1>5, <1>6 DEF m

LEMMA MergedFinite ==
  ASSUME NEW defs, IsFiniteSet(defs), NEW values, IsFiniteSet(DOMAIN values),
         NEW given, IsFiniteSet(DOMAIN given)
  PROVE  IsFiniteSet(DOMAIN MergeExecPolicyValues(defs, values, given))
  <1> DEFINE defaults == {e \in defs : e.default # <<>>}
             edited == {e.name : e \in {f \in defs : f.editable}} \cap DOMAIN given
             named == {e.name : e \in defaults}
             names == named \cup DOMAIN values \cup edited
  <1>1. DOMAIN MergeExecPolicyValues(defs, values, given) = names
    BY DEF MergeExecPolicyValues
  <1>2. IsFiniteSet(named)
    <2>1. IsFiniteSet(defaults)
      BY FS_Subset
    <2> DEFINE f == [e \in defaults |-> e.name]
    <2>2. f \in Surjection(defaults, named)
      BY DEF Surjection
    <2>. QED BY <2>1, <2>2, FS_Surjection
  <1>3. IsFiniteSet(edited)
    <2>1. edited \in SUBSET DOMAIN given
      OBVIOUS
    <2>. QED BY <2>1, FS_Subset
  <1> HIDE DEF named, edited
  <1>4. IsFiniteSet(named \cup DOMAIN values)
    BY <1>2, FS_Union
  <1>5. IsFiniteSet((named \cup DOMAIN values) \cup edited)
    BY <1>3, <1>4, FS_Union
  <1>. QED BY <1>1, <1>5

\* What Resolve has checked of the values.
LEMMA ResolvedValues ==
  ASSUME NEW x, NEW b, NEW given, Resolve(x, b, given) # {},
         \A d, e \in x.params : d.name = e.name => d = e, NEW d \in x.params
  PROVE  ValueChecked(d, b, given)
  <1> DEFINE m == MergeExecPolicyValues(x.params, b.values, given)
  <1>1. /\ ValidateExecPolicyValues(x.params, b.values, FALSE)
        /\ ValidateExecPolicyValues(x.params, m, TRUE)
    BY DEF Resolve
  <1>2. ValueOf(m, d.name) = Due(d, b, given)
    <2>1. /\ d.name \in DOMAIN m <=> HasDue(d, b, given)
          /\ d.name \in DOMAIN m => m[d.name] = Due(d, b, given)
      BY Merged
    <2>2. ~ HasDue(d, b, given) => Due(d, b, given) = <<>>
      BY DEF HasDue, Due
    <2> HIDE DEF m
    <2>. QED BY <2>1, <2>2 DEF ValueOf
  <1> HIDE DEF m
  <1>3. Acceptable(d, ValueOf(b.values, d.name))
    BY <1>1 DEF ValidateExecPolicyValues
  <1>4. CASE d.editable
    <2>1. Acceptable(d, Due(d, b, given))
      BY <1>1, <1>2, <1>4 DEF ValidateExecPolicyValues
    <2>. QED BY <2>1 DEF ValueChecked, Acceptable
  <1>5. CASE ~ d.editable /\ d.name \in DOMAIN b.values
    <2>1. Acceptable(d, Due(d, b, given))
      BY <1>3, <1>5 DEF Due, Edited, ValueOf
    <2>. QED BY <2>1 DEF ValueChecked, Acceptable
  <1>6. CASE ~ d.editable /\ d.name \notin DOMAIN b.values
    <2>1. TrimSpace(<<>>) = <<>>
      BY DEF TrimSpace
    <2>2. ~ d.required
      BY <1>3, <1>6, <2>1 DEF Acceptable, ValueOf
    <2>. QED BY <1>6, <2>2 DEF ValueChecked
  <1>. QED BY <1>4, <1>5, <1>6

LEMMA PlacedOne ==
  ASSUME NEW x, IsFiniteSet(x.params), \A d \in x.params : IsText(d.default),
         \A d, e \in x.params : d.name = e.name => d = e,
         NEW b, IsValues(b.values), NEW given, IsValues(given), NEW d \in x.params,
         NEW template, NEW text,
         text \in InterpolateExecTemplate(template, MergeExecPolicyValues(x.params, b.values, given))
  PROVE  Placed(template, text, d, b, given)
  <1> DEFINE m == MergeExecPolicyValues(x.params, b.values, given)
  <1> SUFFICES ASSUME template = <<Ref(d.name)>>,
                      HasDue(d, b, given) => Plain(Due(d, b, given))
               PROVE  text = IF HasDue(d, b, given) THEN Due(d, b, given) ELSE template
    BY DEF Placed
  <1>1. IsFiniteSet(DOMAIN m)
    BY MergedFinite DEF IsValues
  <1>2. /\ d.name \in DOMAIN m <=> HasDue(d, b, given)
        /\ d.name \in DOMAIN m => m[d.name] = Due(d, b, given)
    BY Merged
  <1>3. IsText(Due(d, b, given))
    BY DEF Due, Edited, IsValues
  <1> HIDE DEF m
  <1>4. text \in InterpolateExecTemplate(<<Ref(d.name)>>, m)
    BY DEF m
  <1>5. d.name \in DOMAIN m => IsText(m[d.name]) /\ Plain(m[d.name])
    BY <1>2, <1>3
  <1>6. text = IF d.name \in DOMAIN m THEN m[d.name] ELSE <<Ref(d.name)>>
    BY <1>1, <1>4, <1>5, Interpolated
  <1>. QED BY <1>2, <1>6

LEMMA Resolved ==
  ASSUME NEW x, IsPolicyRow(x), NEW b, IsValues(b.values), NEW given, IsValues(given),
         NEW c \in Resolve(x, b, given)
  PROVE  Conforms(x, b, c, given)
  <1> DEFINE m == MergeExecPolicyValues(x.params, b.values, given)
             args == ArgsTemplate(x, b)
             command == CommandTemplate(x, b)
  <1>1. /\ c.command \in InterpolateExecTemplate(command, m)
        /\ DOMAIN c.args = DOMAIN args
        /\ \A i \in DOMAIN args : c.args[i] \in InterpolateExecTemplate(args[i], m)
    <2> HIDE DEF m, args, command
    <2>. QED BY DEF Resolve, m, args, command
  <1>2. /\ args = IF b.args = <<>> THEN x.args ELSE b.args
        /\ command = IF TrimSpace(b.command) = <<>> THEN x.command ELSE b.command
    BY DEF ArgsTemplate, CommandTemplate
  <1>3. IsFiniteSet(x.params) /\ \A d \in x.params : IsText(d.default)
    BY DEF IsPolicyRow
  <1>4. Resolve(x, b, given) # {}
    OBVIOUS
  <1> HIDE DEF args, command
  <1>5. ASSUME \A d, e \in x.params : d.name = e.name => d = e, NEW d \in x.params
        PROVE  /\ ValueChecked(d, b, given)
               /\ Placed(command, c.command, d, b, given)
               /\ \A i \in DOMAIN args : Placed(args[i], c.args[i], d, b, given)
    BY <1>1, <1>3, <1>4, <1>5, ResolvedValues, PlacedOne
  <1>. QED BY <1>1, <1>2, <1>5 DEF Conforms

-----------------------------------------------------------------------------
(* createTask: from the rows that were read to the row of the task.         *)

\* Policy, binding and command of a form, for an agent.
Chosen(policy, binding, result, form, agent) ==
  IF form.policy = {} THEN policy = {} /\ binding = {} /\ result = {}
  ELSE \E x \in policy, b \in binding, c \in result :
         /\ policy = {x} /\ binding = {b} /\ result = {c}
         /\ x.active /\ b.active /\ {x.id} = form.policy /\ b.policy = x.id /\ b.agent = agent
         /\ IsPolicyRow(x) /\ IsValues(b.values) /\ c \in Resolve(x, b, form.values)

\* What a handler has in its hands at each place of the loop.
Choosing(r) ==
  Kind(r, {"task"}) =>
    LET h == request[r] IN
    /\ h.pc \in {"agent", "policy"} => h.policy = {} /\ h.binding = {} /\ h.result = {}
    /\ h.pc = "policy" => Form(r).policy # {}
    /\ h.pc = "binding" =>
         /\ h.binding = {} /\ h.result = {} /\ Form(r).policy # {}
         /\ \E x \in h.policy : h.policy = {x} /\ x.active /\ {x.id} = Form(r).policy
    /\ h.pc = "insert" => Chosen(h.policy, h.binding, h.result, Form(r), Target(r))
MadeChosen ==
  \A m \in made : Chosen(m.policy, m.binding, m.result, Form(m.id[1]), m.agent)

LEMMA ChoosingKept ==
  ASSUME CInv, Keys, ValuesOK, NEW r \in Requests, Choosing(r), Act(r)
  PROVE  Choosing(r)'
  <1>0. /\ UNCHANGED submission /\ Form(r)' = Form(r) /\ (Kind(r, {"task"})' <=> Kind(r, {"task"}))
        /\ Handlers /\ TablesOK /\ HandlerOK(r) /\ Place(r)
    BY Frame DEF CInv, Kind, Form
  <1>1. CASE ~ Kind(r, {"task"})
    BY <1>0, <1>1 DEF Choosing
  <1>2. CASE Kind(r, {"task"})
    <2> DEFINE h == request[r]  g == request'[r]
    <2>1. CASE ~ InLoop(r)'
      BY <1>0, <2>1 DEF Choosing, InLoop
    <2>2. CASE Open(r)
      <3>1. ASSUME NEW roles, g = Opened(Form(r), roles)
            PROVE  Choosing(r)'
        <4>1. g.pc = Entry(Form(r)) /\ g.policy = {} /\ g.binding = {} /\ g.result = {}
          BY <3>1, OpenedFields
        <4>2. g.pc \notin {"policy", "binding", "insert"}
          BY <4>1, EntryIsPC
        <4>. QED BY <1>0, <4>1, <4>2 DEF Choosing
      <3>. QED BY <1>0, <2>1, <2>2, <3>1, OpenEffect DEF InLoop
    <2>3. CASE Fail(r) \/ Read(r)
      BY <1>0, <2>1, <2>3, FailEffect, ReadEffect DEF InLoop
    <2>4. CASE StartRow(r)
      <3>1. Keeps(r) /\ (g.pc \in {"over", "reads"} \/ (g.pc = Checked(r) /\ g.todo = h.todo))
        BY <1>0, <2>4, StartRowEffect
      <3>2. h.policy = {} /\ h.binding = {} /\ h.result = {}
        BY <1>2, <2>4 DEF StartRow, AtPC, Choosing
      <3>3. g.policy = {} /\ g.binding = {} /\ g.result = {}
        BY <3>1, <3>2 DEF Keeps
      <3>4. CASE g.pc = "policy" /\ Form(r).policy # {}
        BY <1>0, <3>3, <3>4 DEF Choosing
      <3>5. CASE g.pc = "insert" /\ Form(r).policy = {}
        BY <1>0, <3>3, <3>5 DEF Choosing, Chosen
      <3>6. \/ g.pc \in {"over", "reads"}
            \/ g.pc = "policy" /\ Form(r).policy # {}
            \/ g.pc = "insert" /\ Form(r).policy = {}
        BY <3>1 DEF Checked, NoRow
      <3>. QED BY <2>1, <3>4, <3>5, <3>6 DEF InLoop
    <2>5. CASE ReadPolicy(r)
      <3>1. h.binding = {} /\ h.result = {} /\ Form(r).policy # {}
        BY <1>2, <2>5 DEF ReadPolicy, AtPC, Choosing
      <3>2. Form(r).valid
        BY <1>0, <2>5 DEF ReadPolicy, AtPC, Place
      <3>3. PICK q \in Policies : Form(r).policy = {q}
        BY <1>0, <1>2, <3>1, <3>2, FormOK DEF IsForm, Kind
      <3>4. ASSUME NEW p \in Form(r).policy, g.pc = "binding", g.binding = h.binding,
                   g.result = h.result, g.policy # {},
                   g.policy = {x \in GetExecCommandPolicyByID(p) : x.active}
            PROVE  Choosing(r)'
        <4>1. h.pc = "policy" /\ p = q
          BY <2>5, <3>3 DEF ReadPolicy, AtPC
        <4>2. \A x, y \in g.policy : x = y /\ x.id = p /\ x.active
          BY <3>4 DEF GetExecCommandPolicyByID, Keys
        <4>3. PICK x \in g.policy : g.policy = {x} /\ x.active /\ x.id = p
          BY <3>4, <4>2
        <4>. QED BY <1>0, <3>1, <3>3, <3>4, <4>1, <4>3 DEF Choosing
      <3>. QED BY <1>0, <2>1, <2>5, <3>4, ReadPolicyEffect DEF InLoop
    <2>6. CASE ReadBinding(r)
      <3>1. /\ Form(r).policy # {}
            /\ \E x \in h.policy : h.policy = {x} /\ x.active /\ {x.id} = Form(r).policy
        BY <1>2, <2>6 DEF ReadBinding, AtPC, Choosing
      <3>2. PICK x \in h.policy : h.policy = {x} /\ x.active /\ {x.id} = Form(r).policy
        BY <3>1
      <3>3. ASSUME NEW policy \in h.policy,
                   g.binding = GetExecCommandPolicyBinding(policy.id, Target(r)),
                   NEW b \in g.binding, NEW c \in Resolve(policy, b, Form(r).values), g.result = {c},
                   g.pc = "insert", g.todo = h.todo, g.policy = h.policy
            PROVE  Choosing(r)'
        <4>1. policy = x /\ g.policy = {x} /\ IsPolicyRow(x)
          BY <1>0, <3>2, <3>3 DEF HandlerOK
        <4>2. /\ g.binding = {b} /\ b.active /\ b.policy = x.id /\ b.agent = Target(r)
              /\ IsValues(b.values)
          BY <3>3, <4>1 DEF GetExecCommandPolicyBinding, Keys, ValuesOK
        <4>3. Target(r)' = Target(r)
          BY <3>3 DEF Target
        <4>4. c \in Resolve(x, b, Form(r).values)
          BY <3>3, <4>1
        <4>5. Chosen(g.policy, g.binding, g.result, Form(r), Target(r))
          BY <3>1, <3>2, <3>3, <4>1, <4>2, <4>4 DEF Chosen
        <4>. QED BY <1>0, <3>3, <4>3, <4>5 DEF Choosing
      <3>. QED BY <1>0, <2>1, <2>6, <3>3, ReadBindingEffect DEF InLoop
    <2>7. CASE InsertTask(r)
      <3>1. CASE g.pc = "agent" /\ g.policy = {} /\ g.binding = {} /\ g.result = {}
        BY <1>0, <3>1 DEF Choosing
      <3>. QED BY <1>0, <2>1, <2>7, <3>1, InsertTaskEffect DEF InLoop
    <2>. QED BY <1>0, <1>2, <2>2, <2>3, <2>4, <2>5, <2>6, <2>7, TaskSteps DEF TaskAct
  <1>. QED BY <1>1, <1>2

\* The row of a task remembers what was at hand.
LEMMA MadeChosenKept ==
  ASSUME CInv, MadeChosen, NEW r \in Requests, Choosing(r), Act(r)
  PROVE  MadeChosen'
  <1>0. /\ Handlers /\ Place(r) /\ (\A q : Form(q)' = Form(q))
    BY Frame DEF CInv, Form
  <1>1. CASE UNCHANGED made
    <2>1. \A m \in made : Chosen(m.policy, m.binding, m.result, Form(m.id[1])', m.agent)
      BY <1>0 DEF MadeChosen
    <2>. QED BY <1>0, <1>1, <2>1 DEF MadeChosen, Chosen
  <1>2. CASE InsertTask(r)
    <2>1. Chosen(request[r].policy, request[r].binding, request[r].result, Form(r), Target(r))
      BY <1>0, <1>2 DEF InsertTask, AtPC, Place, InLoop, Choosing
    <2> DEFINE n == [id |-> TaskId(r), agent |-> Target(r), policy |-> request[r].policy,
                     binding |-> request[r].binding, result |-> request[r].result]
    <2>2. UNCHANGED made \/ made' = made \cup {n}
      BY <1>0, <1>2, InsertTaskEffect
    <2>3. /\ n.policy = request[r].policy /\ n.binding = request[r].binding
          /\ n.result = request[r].result /\ n.agent = Target(r) /\ n.id[1] = r
      BY DEF TaskId
    <2> HIDE DEF n
    <2>4. \A m \in made' : Chosen(m.policy, m.binding, m.result, Form(m.id[1]), m.agent)
      BY <2>1, <2>2, <2>3 DEF MadeChosen
    <2>. QED BY <1>0, <2>4 DEF MadeChosen, Chosen
  <1>. QED BY <1>0, <1>1, <1>2, Frame

ChosenInv == ImportInv /\ MadeChosen /\ \A r \in Requests : Choosing(r)

LEMMA ChosenInvInit ==
  ASSUME ConsoleInit
  PROVE  ChosenInv
  <1>1. ImportInv
    BY ImportInvInit
  <1>2. MadeChosen
    BY DEF ConsoleInit, MadeChosen
  <1>3. \A r \in Requests : request[r].pc = "new"
    BY DEF ConsoleInit, Handler
  <1>. QED BY <1>1, <1>2, <1>3 DEF ChosenInv, Choosing

LEMMA ChosenInvAct ==
  ASSUME ChosenInv, NEW r \in Requests, Act(r)
  PROVE  ChosenInv'
  <1>1. CInv /\ Keys /\ ValuesOK /\ Handlers /\ ImportInv' /\ MadeChosen /\ Choosing(r)
    BY ImportInvAct DEF ChosenInv, ImportInv, CInv
  <1>2. Choosing(r)' /\ MadeChosen'
    BY <1>1, ChoosingKept, MadeChosenKept
  <1>3. ASSUME NEW q \in Requests \ {r}
        PROVE  Choosing(q)'
    <2>1. request'[q] = request[q] /\ UNCHANGED submission
      BY <1>1, Frame DEF Others
    <2>2. /\ Form(q)' = Form(q) /\ Target(q)' = Target(q)
          /\ (Kind(q, {"task"})' <=> Kind(q, {"task"}))
      BY <2>1 DEF Form, Target, Kind
    <2>. QED BY <2>1, <2>2 DEF ChosenInv, Choosing, Chosen
  <1>. QED BY <1>1, <1>2, <1>3 DEF ChosenInv

LEMMA ChosenInvStutter ==
  ASSUME ChosenInv, UNCHANGED vars
  PROVE  ChosenInv'
  <1>1. UNCHANGED <<submission, request, made>> /\ ImportInv'
    BY ImportInvStutter DEF ChosenInv, vars, consoleVars
  <1>2. \A r : /\ Form(r)' = Form(r) /\ Target(r)' = Target(r)
               /\ (Kind(r, {"task"})' <=> Kind(r, {"task"}))
    BY <1>1 DEF Form, Target, Kind
  <1>3. MadeChosen'
    BY <1>1, <1>2 DEF ChosenInv, MadeChosen, Chosen
  <1>4. \A r \in Requests : Choosing(r)'
    BY <1>1, <1>2 DEF ChosenInv, Choosing, Chosen
  <1>. QED BY <1>1, <1>3, <1>4 DEF ChosenInv

\* A form with a policy has values.
LEMMA ChosenConforms ==
  ASSUME ChosenInv
  PROVE  PolicyTaskConforms
  <1> SUFFICES ASSUME NEW m \in made
      PROVE  LET form == Form(m.id[1]) IN
             /\ form.policy # {} => m.policy # {} /\ m.binding # {} /\ m.result # {}
             /\ \A x \in m.policy, b \in m.binding, c \in m.result :
                  /\ x.active /\ b.active /\ {x.id} = form.policy
                  /\ b.policy = x.id /\ b.agent = m.agent
                  /\ Conforms(x, b, c, form.values)
    BY DEF PolicyTaskConforms
  <1> DEFINE r == m.id[1]  form == Form(r)
  <1>1. Handlers /\ r \in Requests /\ Kind(r, {"task"}) /\ Rows(r)
    BY DEF ChosenInv, ImportInv, CInv, MadeAllowed
  <1>2. form.valid
    <2>1. m \in RowsOf(r)
      BY DEF RowsOf
    <2>. QED BY <1>1, <2>1 DEF Rows
  <1>3. form.policy # {} => IsValues(form.values)
    <2>1. IsForm(form) /\ form.kind = "task"
      BY <1>1, FormOK DEF Kind
    <2>. QED BY <1>2, <2>1 DEF IsForm
  <1>4. Chosen(m.policy, m.binding, m.result, form, m.agent)
    BY DEF ChosenInv, MadeChosen
  <1> HIDE DEF form
  <1>5. CASE form.policy = {}
    BY <1>4, <1>5 DEF Chosen, form
  <1>6. CASE form.policy # {}
    <2>1. PICK x \in m.policy, b \in m.binding, c \in m.result :
            /\ m.policy = {x} /\ m.binding = {b} /\ m.result = {c}
            /\ x.active /\ b.active /\ {x.id} = form.policy /\ b.policy = x.id /\ b.agent = m.agent
            /\ IsPolicyRow(x) /\ IsValues(b.values) /\ c \in Resolve(x, b, form.values)
      BY <1>4, <1>6 DEF Chosen
    <2>2. Conforms(x, b, c, form.values)
      BY <1>3, <1>6, <2>1, Resolved
    <2>. QED BY <2>1, <2>2 DEF form
  <1>. QED BY <1>5, <1>6

\* resolveExecPolicyTask and createTask: whatever becomes of policies and bindings between the
\* queries and the insert, a row made through a policy has a command of that policy for its
\* agent, with the values that are due and that the policy allows, in their places.
THEOREM PolicyTasksConform == ConsoleSpec => []PolicyTaskConforms
  <1>1. ConsoleInit => ChosenInv
    BY ChosenInvInit
  <1>2. ChosenInv /\ [ConsoleNext]_vars => ChosenInv'
    <2>1. ConsoleNext => \E r \in Requests : Act(r)
      BY DEF ConsoleNext, Act
    <2>. QED BY <2>1, ChosenInvAct, ChosenInvStutter
  <1>3. ChosenInv => PolicyTaskConforms
    BY ChosenConforms
  <1>. QED BY <1>1, <1>2, <1>3, PTL DEF ConsoleSpec
=============================================================================
