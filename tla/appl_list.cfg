SPECIFICATION Spec
CONSTANTS
  a1 = a1
  a2 = a2
  a3 = a3
  a4 = a4
  r1 = r1
  r2 = r2
  Appls <- FourAppls
  Readers <- TwoReaders
  Token = Token
  Null = Null
  MaxAppls = 3
  IdLimit = 8
INVARIANTS
  ListedIffRegistered
  SortedByNumber
  IteratorListed
PROPERTIES
  NumbersUnique
  RefusedOnlyWhenFull
