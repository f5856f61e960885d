CONSTANTS
  Modulus = 16
  MaxCredit = 3
  Owner = owner
  Disposer = disposer
  ChannelCap = 1
  Plans <- PlansDef
SPECIFICATION FairSpec
INVARIANTS NoSpuriousLimit DeliveryCountTracked
PROPERTIES SlidingCredit SendsComplete DrainCompletes
CHECK_DEADLOCK FALSE
