SPECIFICATION Spec
CONSTANTS
  c1 = c1
  c2 = c2
  c3 = c3
  c4 = c4
  Null = Null
  Clients <- TwoClients
  MaxAppls = 3
INVARIANT OwnSlot
