SPECIFICATION Spec
CONSTANTS
  Services = {sA, sB}
  Uris = {u1}
  Validations = {v1, v2}
  Reported = {v1}
  Old = {sA}
  NoService = NoService
  MaxEvents = 2
INVARIANTS
  FailureKeepsActive
  NothingStaysValidating
  JobTellsOutcome
  CalmKeepsUri
CHECK_DEADLOCK FALSE
