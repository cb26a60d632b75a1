SPECIFICATION FairSpec
CONSTANTS
  c1 = c1
  c2 = c2
  t1 = t1
  t2 = t2
  s1 = s1
  k1 = k1
  i1 = i1
  None = None
  Calls = {c1}
  Lists = {l1}
  Admins = {a1, a2}
  Misdirected = {}
  Probes = {}
  Tools = {t1}
  Services = {s1}
  Keys = {}
  Ids = {i1}
  ServiceOf <- OneService
  ToolOf <- SameTool
  KeyOf <- NoKey
  IdOf <- OneId
INVARIANT RegistryIsCurrent
PROPERTIES
  BlockedIsDenied
  ChangesArePublished
CHECK_DEADLOCK FALSE
