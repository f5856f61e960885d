CONSTANTS
  A = A
  B = B
  CloseErrors = {TRUE, FALSE}
  TimingOut = {A}
  Breaking = TRUE
  MaxClose <- OneEach
  MaxFrames <- OneEach
  MaxBeats <- OneNone
SPECIFICATION FairSpec
INVARIANTS HandedBeforeClose CloseConfirmed
PROPERTY EverybodyStops
CHECK_DEADLOCK FALSE
