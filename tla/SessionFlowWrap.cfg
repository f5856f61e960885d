CONSTANTS
  A = A
  B = B
  ChannelCap = 2
  Modulus = 4
  InitialId <- HighIds
  IncomingWindow <- OneTwo
  Ending = {}
  Pipelined = {}
  MaxTransfers <- FourNone
  MaxFlows <- NoneTwo
SPECIFICATION Spec
INVARIANTS TypeOK IdsInSync DeliveryIdsConsecutive
CHECK_DEADLOCK FALSE
