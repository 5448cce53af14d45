CONSTANTS
  a1 = a1
  t1 = t1
  t2 = t2
  hourly = hourly
  daily = daily
  malformed = malformed
  NoTask = NoTask
  Agents = {a1}
  Tasks = {t1, t2}
  AgentOf <- OneAgent
  QueueCap = 1
  Creations <- AllOnce
  Expressions = {}
  BadCron = {}
  NoExpression = NoExpression
  MaxTime = 1
  MaxFirings = 1
  MaxEdits = 0
  MaxRestarts = 1
  MaxErrors = 0
SPECIFICATION FairSpec
PROPERTIES
  OnceSent
CHECK_DEADLOCK FALSE
