CONSTANTS
  s3 = s3
  a1 = a1
  a2 = a2
  t1 = t1
  t2 = t2
  t3 = t3
  s1 = s1
  s2 = s2
  NoTask = NoTask
  Agents = {a1, a2}
  Tasks = {t1, t2}
  AgentOf <- OneTaskEach
  Streams = {s1, s2, s3}
  StreamAgent <- OldAndNewStream
  Attempts = {m1, m2}
  QueueCap = 1
  Creations <- MaybeOnceThenChained
  Outcomes = {"SUCCESS", "FAILED"}
  MaxEdits = 1
  FaultKinds = {"connection", "agent", "server", "database"}
  MaxFaults = 1
SPECIFICATION Spec
INVARIANTS
  TypeOK
  SentToOwner
  ChainedWaits
  TriggerKept
  ReportedStaysFinished
  OncePerStream
PROPERTIES
  ImplementsLifecycle
CONSTRAINT Plans
SYMMETRY NameSymmetry
CHECK_DEADLOCK FALSE
