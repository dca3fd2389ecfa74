SPECIFICATION Spec
CONSTANTS
  Node = {n1, n2, n3}
INVARIANTS TypeOK VerdictCorrect
PROPERTIES Terminates
CHECK_DEADLOCK FALSE
