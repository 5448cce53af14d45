CONSTANTS
  a1 = a1
  a2 = a2
  t1 = t1
  t2 = t2
  t3 = t3
  s1 = s1
  s2 = s2
  s3 = s3
  NoTask = NoTask
  Agents = {a1, a2}
  Tasks = {t1, t2, t3}
  AgentOf <- TwoTasksAndOne
  Streams = {s1, s2}
  StreamAgent <- OneStreamEach
  Attempts = {m1, m2, m3}
  QueueCap = 1
  Creations <- OneChained
  Outcomes = {"SUCCESS"}
  MaxEdits = 0
  FaultKinds = {}
  MaxFaults = 0
SPECIFICATION FairSpec
PROPERTIES
  ImmediateFinishes
CHECK_DEADLOCK FALSE
