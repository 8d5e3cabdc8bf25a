SPECIFICATION FairSpec
CONSTANTS
  BlkSize = 2
  HandleLimit = 2
  Window = 1
  MaxMsgs = 1
  MaxWritten = 3
  MaxReceived = 2
INVARIANTS
  OutputInOrder
  InputInOrder
  AcksExact
PROPERTIES
  OutputDrains
  InputDrains
