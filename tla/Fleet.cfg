CONSTANTS
  h1 = h1
  h2 = h2
  i1 = i1
  i2 = i2
  i3 = i3
  t1 = t1
  t2 = t2
  b1 = b1
  b2 = b2
  c1 = c1
  c2 = c2
  Hosts = {h1, h2}
  Ids = {i1, i2, i3}
  NoId = NoId
  NoFile = NoFile
  Threshold = 2
  Tasks = {t1, t2}
  Browsers = {b1, b2}
  Publishers <- Goroutines
  MayView <- Rights
  Commands = {c1, c2}
  BufferLimit = 2
  Old = Old
  Hole = Hole
  FirstId <- Own
  Plans <- SmallPlans
SPECIFICATION FleetSpec
INVARIANTS
  FleetTypeOK
  BeatingIsNotOffline
  OneIdPerHost
  PageComplete
  FilesWhole
  BadgeIsCurrent
PROPERTIES
  DeadIsNoticed
  LivingIsOnline
  CommandSettles
CHECK_DEADLOCK FALSE
