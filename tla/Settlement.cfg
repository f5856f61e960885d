CONSTANTS
    Shape <- ShapeDef
    Awaited = {4}
    PreSettled = {3}
    Sizes <- SizesDef
    Plans <- PlansDef
SPECIFICATION FairSpec
INVARIANTS OutcomesTrue NoneForgotten DeliveredWhole OwnFramesAccepted
PROPERTY AllResolved
CHECK_DEADLOCK FALSE
