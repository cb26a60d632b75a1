SPECIFICATION Spec
CONSTANTS
  c1 = c1
  c2 = c2
  t1 = t1
  t2 = t2
  s1 = s1
  k1 = k1
  i1 = i1
  None = None
  Calls = {c1, c2}
  Lists = {}
  Admins = {a1, a2}
  Misdirected = {a2}
  Probes = {a2}
  Tools = {t1, t2}
  Services = {s1}
  Keys = {k1}
  Ids = {i1}
  ServiceOf <- OneService
  ToolOf <- SameTool
  KeyOf <- SameKey
  IdOf <- OneId
INVARIANTS
  ReplyStaleOnlyByRace
  KnownToolIsFound
  CancelFindsItsCall
  InflightIsRunning
CHECK_DEADLOCK FALSE
