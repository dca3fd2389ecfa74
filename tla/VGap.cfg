SPECIFICATION Spec
CONSTANTS
  Minute = 2
  Horizon = 14
  Snapshots <- SmallSnapshots
INVARIANTS AllClearDuringOverlap
CHECK_DEADLOCK FALSE
