SPECIFICATION FairSpec
CONSTANTS
  Plans <- AllPlans
  MinFrame = 3
  LenField = 1
  FrameSizes = {1, 4, 5}
  SessionCounts = {0, 2, 3}
  IdleTimes = {0, 2, 3, 5}
INVARIANTS Authenticated FramesUnderstood LimitsAgreed
PROPERTY OpensTogether
CHECK_DEADLOCK FALSE
