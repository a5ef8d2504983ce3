SPECIFICATION BoardSpec
CONSTANTS
  c1 = c1
  c2 = c2
  Client <- BothClients
  FileBlocks = 2
  EmptyLast = {c2}
  MaxPcbs = 4
  MaxArgs = 2
  HeapShared = FALSE
  MaxRequests = 2
  Faulty = {"DATA"}
  Overlap = FALSE
  UnknownOps = FALSE
  AbortCodes = {0}
  PER_SECOND_FREQUENVY = 1
  WAIT_FREQUENCY = 2
  U32 = 4
  OldVectors = {"ok"}
  VectorsOf <- Applications
  MaxResets = 0
INVARIANT JumpsToWholeImage
CHECK_DEADLOCK FALSE
