SPECIFICATION ClientsSpec
CONSTANTS
  LimitKeys = {addr}
  Limit <- LimitOf
  Window = 2
  OnRedis = TRUE
  MaxClock = 4
  MaxLost = 2
  Resolvers = {r1, r2}
  Registered = {app}
  Documents = {url}
  NoClient = NoClient
  Bad = Bad
  Address = addr
  CacheTTL = 2
  MaxVersion = 2
SYMMETRY ClientSymmetry
INVARIANT SlidingBound
PROPERTY SettledForGood
