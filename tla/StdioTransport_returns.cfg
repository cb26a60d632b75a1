SPECIFICATION FairSpec
CONSTANTS
  c1 = c1
  c2 = c2
  c3 = c3
  i1 = i1
  i2 = i2
  Calls = {c1, c2}
  Ids = {i1}
  IdOf <- OneId
  Oneway = {c2}
  NoCall = NoCall
  MaxStarts = 2
INVARIANT NoStrayProcess
PROPERTIES
  RequestReturns
  StoppedProcessExits
CHECK_DEADLOCK FALSE
