SPECIFICATION Spec
CONSTANTS
  r1 = r1
  r2 = r2
  Reader <- Readers
  TgidBaseStuff = 2
  Room = {2, 3, 5}
SYMMETRY Symmetry
INVARIANTS
  OnlyCutMisleads
  
  
