SPECIFICATION FairSpec
CONSTANTS
  MEMP_NUM_TCP_PCB = 3
  TCP_SND_QUEUELEN = 1
  Breaks = TRUE
  Shortage = TRUE
  MaxAtOnce = 2
  MaxConns = 3
INVARIANTS
  TypeOK
  EsConserved
  OnlyOneIsServed
PROPERTIES
  OnlyTheFirstIsShared
  CloseCompletes
CHECK_DEADLOCK FALSE
