CONSTANTS
  a1 = a1
  a2 = a2
  t1 = t1
  t2 = t2
  t3 = t3
  s1 = s1
  s2 = s2
  s3 = s3
  NoTask = NoTask
  Agents = {a1}
  Tasks = {t1, t2}
  AgentOf <- OneAgentTasks
  Streams = {s1}
  StreamAgent <- OneAgentStream
  Attempts = {m1, m2}
  QueueCap = 2
  Creations <- ThenMaybeChained
  Outcomes = {"SUCCESS", "FAILED"}
  MaxEdits = 0
  FaultKinds = {}
  MaxFaults = 0
SPECIFICATION FairSpec
PROPERTIES
  ImmediateFinishes
  ChainFollows
CHECK_DEADLOCK FALSE
