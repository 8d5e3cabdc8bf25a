\* One channel, one connection: data, listening, removal and return;
\* parameters on both sides of the long length.
SPECIFICATION CardSpec
CONSTANTS
  NbChan = 1
  Plci <- OnePlci
  Msgids <- OneId
  Null = Null
  MayFail = TRUE
  MayRefuse = FALSE
  MaxQueue = 2
  MaxData = 2
  Lengths = {0, 3}
  Nothing = Nothing
  OddLengths = {0, 1, 254, 255, 300}
  p1 = p1
  p2 = p2
  m1 = m1
  m2 = m2
INVARIANTS
  AcksExact
  RemovalComplete
  RoundTrip
PROPERTY HangupEnds
