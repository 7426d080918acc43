SPECIFICATION FairSpec
CONSTANTS
  t1 = t1
  t2 = t2
  t3 = t3
  Thread <- TwoThreads
  Main = t1
  NULL = NULL
  MaxFibers = 3
  Phases = 1
  GuessIds = FALSE
  Joined = TRUE
INVARIANTS
  ContextIntegrity
  SuspendedIntact
  NoUseAfterFree
  JoinedInv
  ContextInv
PROPERTIES
  ImplementsFiberSpec
  CallsReturn
CHECK_DEADLOCK FALSE
