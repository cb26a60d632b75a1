SPECIFICATION Spec
CONSTANTS
  Requests = {r1, r2}
  Tickets = {t1}
  Connections = {c1, c2}
  Pats = {p1, p2}
  None = None
SYMMETRY AccessSymmetry
INVARIANTS
  TicketOpensOne
  DeliveredIsDurable
