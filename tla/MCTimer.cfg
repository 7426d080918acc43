SPECIFICATION Spec
CONSTANTS
  c1 = c1
  t1 = t1
  u1 = u1
  o1 = o1
  Cpu = {c1}
  Converted = {t1}
  Unconverted = {u1}
  Other = {o1}
  FiberId <- Fibers
  Start <- Starts
  NULL = NULL
  MaxTime = 3
INVARIANTS
  TotalTimeIsOwn
CHECK_DEADLOCK FALSE
