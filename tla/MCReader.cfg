SPECIFICATION FairSpec
CONSTANTS
  null = null
  NULL = null
  Item <- Items
  InitialCapacity = 1
  Message <- Messages
  SSN_LENGTH = 1
  BufSize = 12
  ADDR_LENGTH = 1
  MaxSent = 4
INVARIANTS TypeOK PdusAsSent BytesAccounted OverrunOnlyByBurst
PROPERTIES QueueImplementsFifo PdusAreHandled
CHECK_DEADLOCK FALSE
