SPECIFICATION FairSpec
CONSTANTS
  MEMP_NUM_TCP_PCB = 3
  TCP_SND_QUEUELEN = 1
  Breaks = FALSE
  Shortage = FALSE
  MaxAtOnce = 2
  MaxConns = 3
INVARIANT NeverRegisteredTwice
CHECK_DEADLOCK FALSE
