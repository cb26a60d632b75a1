SPECIFICATION Spec
CONSTANTS
  MaxNumber = 4
  MaxActivity = 3
INVARIANT ReadersAgree
PROPERTY HintsAreKept
