SPECIFICATION Spec
CONSTANTS
  d1 = d1
  d2 = d2
  a1 = a1
  a2 = a2
  NoDev = NoDev
  Devs <- OneDev
  Appls <- OneAppl
  MaxDevs = 1
  MaxAppls = 1
  MaxQueue = 1
  SysfsMayFail = TRUE
INVARIANT ReleaseQuiesces
