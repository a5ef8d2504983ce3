SPECIFICATION FairSpec
CONSTANTS
  c1 = c1
  Client <- OneClient
  TFTP_DATA_LEN_MAX = 2
  TotBytes = 6
  MaxPcbs = 3
  MaxArgs = 2
  HeapShared = TRUE
  MaxRequests = 3
  UnknownOps = TRUE
  Faulty = {"RRQ", "DATA", "ACK"}
INVARIANTS
  TypeOK
  DoneMeansAllBytes
PROPERTIES
  ImplementsTransfer
  EndsAfterFile
  ReadCompletes
CHECK_DEADLOCK FALSE
