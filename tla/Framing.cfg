SPECIFICATION FairSpec
CONSTANTS
  Packets <- SomePackets
  BufferSize = 4
  SockCap = 9
  MaxPackets = 3
  Split = TRUE
INVARIANTS TypeOK StreamIntact OverrunExplained
PROPERTIES ImplementsFifo ParsedAfterClose
CHECK_DEADLOCK FALSE
