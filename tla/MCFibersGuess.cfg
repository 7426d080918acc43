SPECIFICATION Spec
CONSTANTS
  t1 = t1
  t2 = t2
  t3 = t3
  Thread <- TwoThreads
  Main = t1
  NULL = NULL
  MaxFibers = 3
  Phases = 0
  GuessIds = TRUE
  Joined = TRUE
INVARIANTS
  OneThreadPerFiber
