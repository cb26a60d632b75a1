SPECIFICATION PoolFairSpec
CONSTANTS
  PoolCalls = {c1, c2}
  Services = {sA, sB}
  None = None
  MaxProcesses = 1
  MaxConfig = 1
INVARIANTS
  PoolWithinLimit
  ServedAsConfigured
  LiveProcessIsFindable
PROPERTIES
  EvictionSparesPending
  CallEnds
CHECK_DEADLOCK FALSE
