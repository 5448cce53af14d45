CONSTANTS
  a1 = a1
  t1 = t1
  t2 = t2
  hourly = hourly
  daily = daily
  malformed = malformed
  NoTask = NoTask
  Agents = {a1}
  Tasks = {t1, t2}
  AgentOf <- OneAgent
  QueueCap = 2
  Creations <- OneScheduled
  Expressions = {hourly, daily, malformed}
  BadCron = {malformed}
  NoExpression = NoExpression
  MaxTime = 1
  MaxFirings = 1
  MaxEdits = 1
  MaxRestarts = 1
  MaxErrors = 1
SPECIFICATION FairSpec
INVARIANTS
  TypeOK
  OnlyScheduledQueued
  EarlyOnlyAfterEdit
  RegisteredOnce
PROPERTIES
  OnceSent
  RecurringRegistered
CHECK_DEADLOCK FALSE
