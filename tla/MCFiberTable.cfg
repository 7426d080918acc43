SPECIFICATION Spec
CONSTANTS
  t1 = t1
  t2 = t2
  r1 = r1
  Thread <- Threads
  Reader <- Readers
  MaxFibers = 3
  Buckets = 2
  MinText = 1
  MaxDigits = 1
  Room = {1, 3}
SYMMETRY Symmetry
INVARIANTS
  TypeOK
  OnlyRacesLose
  WalkComplete
  QuietListing
  TextOnceOrTwice
