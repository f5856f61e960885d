CONSTANTS
  A = A
  B = B
  ChannelCap = 2
  Modulus = 16
  InitialId <- LowIds
  IncomingWindow <- OneTwo
  Ending = {A}
  Pipelined = {B}
  MaxTransfers <- FourOne
  MaxFlows <- NoneTwo
SPECIFICATION FairSpec
INVARIANTS WindowRespected HandedInOrder NoNeedlessHold
PROPERTIES SlidingBothWays AllDelivered
CHECK_DEADLOCK FALSE
