SPECIFICATION FairSpec
CONSTANTS
  ETH_RX_DESC_CNT = 3
  ETH_TX_DESC_CNT = 3
  RX_POOL = 2
  BusErrors = TRUE
  MaxFrames = 5
  MaxOutputs = 1
INVARIANT ReturnedAfterProcessing
CHECK_DEADLOCK FALSE
