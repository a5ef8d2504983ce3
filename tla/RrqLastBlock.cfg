SPECIFICATION FairSpec
CONSTANTS
  c1 = c1
  Client <- OneClient
  TFTP_DATA_LEN_MAX = 2
  TotBytes = 2
  MaxPcbs = 3
  MaxArgs = 2
  HeapShared = TRUE
  MaxRequests = 2
  UnknownOps = FALSE
  Faulty = {"LAST"}
PROPERTY LostBlockResent
CHECK_DEADLOCK FALSE
