SPECIFICATION Spec
CONSTANTS
  t1 = t1
  t2 = t2
  t3 = t3
  Thread <- ThreeThreads
  Main = t1
  NULL = NULL
  MaxFibers = 3
  Phases = 0
  GuessIds = FALSE
  Joined = FALSE
SYMMETRY OtherThreads
INVARIANTS
  TypeOK
  UniqueProcess
  FreshIds
  BaseInv
  ExitInv
  OneThreadPerFiber
  LockInv
  CleanedUp
  LocksHeld
  AttachInv
PROPERTIES
  Handover
