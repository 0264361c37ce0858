SPECIFICATION Spec
CONSTANTS
  Request = {r1, r2}
  Nobody = Nobody
  MaxUnsolicited = 1
CHECK_DEADLOCK FALSE
INVARIANTS
  Correlated
