SPECIFICATION Spec
CONSTANTS
  Callers = {c1, c2}
  Workers = 1
  Timeout = 2
  Limit = 3
  MaxRequests = 2
SYMMETRY Symmetry
CHECK_DEADLOCK FALSE
INVARIANTS
  TypeOK
  SlotAccounting
  LedgerComplete
  InFlightWithinLimit
