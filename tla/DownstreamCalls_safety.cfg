SPECIFICATION CallsSpec
CONSTANTS
  Services = {sA}
  Calls = {c1}
  NoService = NoService
  FailureThreshold = 2
  Cooldown = 1
  MaxNow = 1
  MaxStreak = 3
  Admins = {a1, a2}
  Refs = {r1, r2}
  NoRef = NoRef
  Headers = {r1}
SYMMETRY Symmetries
INVARIANTS
  SecretBehindRow
  ChangeEndsSession
  CalmCallCarriesSecret
PROPERTY PromiseKept
CHECK_DEADLOCK FALSE
