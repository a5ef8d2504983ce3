SPECIFICATION FairSpec
CONSTANTS
  PER_SECOND_FREQUENVY = 3
  WAIT_FREQUENCY = 9
  U32 = 32
  OldVectors <- Anything
  NewVectors <- Anything
  MaxSessions = 2
  MaxRequests = 3
  Refusals = TRUE
INVARIANTS
  TypeOK
  FullCountdown
  HeldForUpload
  WaitTimeTells
PROPERTIES
  Boots
CHECK_DEADLOCK FALSE
