\* Two channels, two connections: calls of a controller that listens and stays.
\* Where messages are refused, calls hang for good, and the system may stop.
SPECIFICATION CallSpec
CONSTANTS
  NbChan = 2
  Plci <- TwoPlcis
  Msgids <- TwoIds
  Null = Null
  MayFail = TRUE
  MayRefuse = TRUE
  MaxQueue = 2
  MaxData = 1
  p1 = p1
  p2 = p2
  m1 = m1
  m2 = m2
SYMMETRY Symmetry
INVARIANTS
  CallsAreOnLine
  RolesAgree
  ConfFindsCall
PROPERTY CallbackOrder
CHECK_DEADLOCK FALSE
