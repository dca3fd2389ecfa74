SPECIFICATION Spec
CONSTANTS
  User = {ann}
  Tab = {t1, t2}
  Slot = {s1, s2}
  None = None
  Address = Address
  Limit = 1
  Window = 2
  Expiry = 1
  Stall = 1
  MaxTime = 3
SYMMETRY Symmetry
INVARIANTS TypeOK UnderTwiceTheLimit
PROPERTIES RefusedForCause EndedForCause
