SPECIFICATION FairSpec
CONSTANTS
  d1 = d1
  d2 = d2
  a1 = a1
  a2 = a2
  NoDev = NoDev
  Devs <- TwoDevs
  Appls <- OneAppl
  MaxDevs = 2
  MaxAppls = 2
  MaxQueue = 1
  SysfsMayFail = TRUE
INVARIANTS
  ListWalks
PROPERTIES
  ApplCallsEnd
  DriverCallsEnd
