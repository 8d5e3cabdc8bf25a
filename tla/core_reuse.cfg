SPECIFICATION Spec
CONSTANTS
  d1 = d1
  d2 = d2
  a1 = a1
  a2 = a2
  NoDev = NoDev
  Devs <- TwoDevs
  Appls <- TwoAppls
  MaxDevs = 1
  MaxAppls = 1
  MaxQueue = 1
  SysfsMayFail = FALSE
INVARIANTS
  RefcountExact
  UniqueNumbers
  BitsLeadToDevices
  NoUseAfterFree
  UnregisterQuiesces
  ReleaseQuiesces
  BindingComplete
PROPERTIES
  OfferedOnce
  ListsStableUnderWalks
