SPECIFICATION FairSpec
CONSTANTS
  c1 = c1
  c2 = c2
  Client <- BothClients
  FileBlocks = 3
  EmptyLast = {c2}
  MaxPcbs = 4
  MaxArgs = 2
  HeapShared = FALSE
  MaxRequests = 2
  Faulty = {"DATA", "ACK"}
  Overlap = FALSE
  UnknownOps = FALSE
  AbortCodes = {}
INVARIANTS
  TypeOK
  InOnePiece
PROPERTIES
  HeldWhileOpen
  EndMeansWholeFile
  Uploaded
CHECK_DEADLOCK FALSE
