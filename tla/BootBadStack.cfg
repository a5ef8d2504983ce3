SPECIFICATION FairSpec
CONSTANTS
  PER_SECOND_FREQUENVY = 3
  WAIT_FREQUENCY = 9
  U32 = 32
  OldVectors <- BadStack
  NewVectors <- Application
  MaxSessions = 1
  MaxRequests = 2
  Refusals = FALSE
PROPERTIES
  JumpReachesApp
CHECK_DEADLOCK FALSE
