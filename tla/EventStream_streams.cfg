SPECIFICATION Spec
CONSTANTS
  Clients = {c1}
  Categories <- TwoCategories
  Progress = progress
  ReplaySize = 2
  MaxQueueSize = 1
  Sessions = {s1}
  IdleSeconds = 1
  MaxEvents = 4
  MaxLives = 1
  MaxNow = 2
INVARIANTS
  InOrderOnce
  MissesOnlyOld
  UsedSessionStays
