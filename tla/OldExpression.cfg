CONSTANTS
  a1 = a1
  t1 = t1
  t2 = t2
  hourly = hourly
  daily = daily
  malformed = malformed
  NoTask = NoTask
  Agents = {a1}
  Tasks = {t1}
  AgentOf <- OneAgent
  QueueCap = 1
  Creations <- AllRecurring
  Expressions = {hourly, daily}
  BadCron = {}
  NoExpression = NoExpression
  MaxTime = 0
  MaxFirings = 1
  MaxEdits = 1
  MaxRestarts = 0
  MaxErrors = 0
SPECIFICATION FairSpec
PROPERTIES
  RecurringFollowsSchedule
CHECK_DEADLOCK FALSE
