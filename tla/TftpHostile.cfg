SPECIFICATION Spec
CONSTANTS
  c1 = c1
  c2 = c2
  Client <- BothClients
  FileBlocks = 2
  EmptyLast = {c2}
  MaxPcbs = 3
  MaxArgs = 2
  HeapShared = TRUE
  MaxRequests = 2
  Faulty = {"WRQ", "DATA", "ACK"}
  Overlap = TRUE
  UnknownOps = TRUE
  AbortCodes = {0}
INVARIANTS
  StoredInOrder
  AckMeansStored
PROPERTIES
  ImplementsTransfer
CHECK_DEADLOCK FALSE
