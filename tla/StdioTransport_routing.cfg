SPECIFICATION Spec
CONSTANTS
  c1 = c1
  c2 = c2
  c3 = c3
  i1 = i1
  i2 = i2
  Calls = {c1, c2, c3}
  Ids = {i1, i2}
  IdOf <- TwoShareAnId
  Oneway = {}
  NoCall = NoCall
  MaxStarts = 2
INVARIANTS
  PendingIsWanted
  WantedIsPending
  OwnAnswer
  NoUnreadWait
SYMMETRY Sharers
CHECK_DEADLOCK FALSE
