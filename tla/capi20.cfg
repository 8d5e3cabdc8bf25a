SPECIFICATION Spec
CONSTANTS
  f1 = f1
  f2 = f2
  n1 = n1
  n2 = n2
  m1 = m1
  m2 = m2
  m3 = m3
  Null = Null
  Files <- TwoFiles
  Nccis <- TwoNccis
  Structs <- ThreeStructs
  TtyMinors = 2
  MaxOpens = 2
SYMMETRY Names
INVARIANTS
  BackPointers
  NoMinorLeaks
  TtysHaveMinors
