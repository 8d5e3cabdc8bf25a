SPECIFICATION Spec
CONSTANTS
  x = x
  y = y
  Applids <- TwoAppls
  Nccis <- OneNcci
  MsgIds <- ThreeIds
  MaxWindow = 3
  WinSizes <- UpToFour
INVARIANTS
  ListsDisjoint
  WithinWindow
PROPERTY WindowKept
