SPECIFICATION Spec
CONSTANTS
  Requests = {r1, r2}
  Codes = {c1}
  Pairs = {p1, p2, p3}
  Keys = {k1, k2}
  NoCode = NoCode
  NoPair = NoPair
  NoKey = NoKey
  CodeTTL = 1
  AccessTTL = 1
  RefreshTTL = 0
  Says = {1, 2}
  MaxNow = 1
SYMMETRY GrantSymmetry
INVARIANTS
  OneHolder
  CodeGrantsOnce
  WithdrawnStaysOut
PROPERTY ChainKept
