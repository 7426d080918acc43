SPECIFICATION FairSpec
CONSTANTS
  t1 = t1
  t2 = t2
  Thread <- TwoThreads
  Main = t1
  num_fibers = 3
  Events = 2
  MaxDepth = 2
INVARIANTS
  ExitsComplete
  AlarmGetsThrough
  OnlyFiberOnePreempted
PROPERTIES
  Ends
CHECK_DEADLOCK FALSE
