SPECIFICATION Spec
CONSTANTS
  p1 = p1
  p2 = p2
  Program <- Programs
  Major = {1, 2}
  Commands = 3
  Buffer = 6
SYMMETRY Symmetry
INVARIANTS
  TypeOK
  RefsCountOpen
  OpenKeepsModule
  CommandsCurrent
  RunsWhatIsCalled
  NothingLeft
