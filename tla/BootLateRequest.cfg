SPECIFICATION Spec
CONSTANTS
  PER_SECOND_FREQUENVY = 3
  WAIT_FREQUENCY = 9
  U32 = 32
  OldVectors <- Application
  NewVectors <- Application
  MaxSessions = 1
  MaxRequests = 2
  Refusals = FALSE
INVARIANTS
  JumpsWhenQuiet
CHECK_DEADLOCK FALSE
