SPECIFICATION Spec
CONSTANTS
  Instance = {p1, p2, p3}
  Request = {r1, r2}
  N = 2
  Operator = 2
  MaxFaults = 2
INVARIANTS TypeOK ServesSeeded
PROPERTIES ComesUp AcceptedIsAnswered
