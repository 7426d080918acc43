SPECIFICATION Spec
CONSTANTS
  Unit = 4
  MaxBuckets = 8
  MaxEvents = 8
  Cell <- Draws
INVARIANTS
  WidthPositive
CHECK_DEADLOCK FALSE
