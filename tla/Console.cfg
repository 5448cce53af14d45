CONSTANTS
  a1 = a1
  a2 = a2
  a3 = a3
  p1 = p1
  p2 = p2
  p3 = p3
  p4 = p4
  u1 = u1
  u2 = u2
  u3 = u3
  u4 = u4
  r1 = r1
  r2 = r2
  r3 = r3
  Users = {u1, u2, u3, u4}
  Passwords = {"old", "new"}
  Agents = {a1, a2, a3}
  NoAgent = NoAgent
  Policies = {p1, p2, p3, p4}
  TaskTypes = {"EXEC_COMMAND", "PUSH_FILE"}
  Accounts <- People
  Requests = {r1, r2, r3}
  Workloads <- SmallWorkloads
  Hostname <- Names
  FirstAgents = {a1, a2}
  FirstPolicies <- OnePolicy
  FirstBindings <- TwoBindings
  FirstFile <- OldFile
  PolicyNames = {"ping", "probe"}
  MaxFaults = 1
SPECIFICATION ConsoleSpec
INVARIANTS
  ConsoleTypeOK
  AdministratorRemains
  TaskAllowed
  BatchIsPrefix
  UploadsMatchRows
  PolicyTaskConforms
  ReferencesHold
  ImportAccounted
CHECK_DEADLOCK FALSE
