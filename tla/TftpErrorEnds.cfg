SPECIFICATION FairSpec
CONSTANTS
  c1 = c1
  c2 = c2
  Client <- BothClients
  FileBlocks = 2
  EmptyLast = {c2}
  MaxPcbs = 4
  MaxArgs = 2
  HeapShared = FALSE
  MaxRequests = 2
  Faulty = {}
  Overlap = FALSE
  UnknownOps = FALSE
  AbortCodes = {0}
PROPERTIES
  EndMeansWholeFile
CHECK_DEADLOCK FALSE
