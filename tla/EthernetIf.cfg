SPECIFICATION FairSpec
CONSTANTS
  ETH_RX_DESC_CNT = 3
  ETH_TX_DESC_CNT = 3
  RX_POOL = 2
  BusErrors = TRUE
  MaxFrames = 5
  MaxOutputs = 3
INVARIANTS
  TypeOK
  RxRingAgrees
  ReadsItsFrame
  PoolConserved
PROPERTIES
  ImplementsQueue
  WireInOrder
  EveryFrameTaken
CHECK_DEADLOCK FALSE
