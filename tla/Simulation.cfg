SPECIFICATION Spec
CONSTANTS
  Minute = 2
  Horizon = 14
  Snapshots <- SmallSnapshots
INVARIANTS TypeOK SearchDecidesReachable BrokenPathIsReal SummaryIsTrue AllClearHoldsUntilNextEdge
PROPERTY SimulationEnds
CHECK_DEADLOCK FALSE
