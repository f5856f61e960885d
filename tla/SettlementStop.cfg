CONSTANTS
    Shape <- ShapeDef
    Awaited = {4}
    PreSettled = {3}
    Sizes <- SizesDef
    Plans <- StopPlans
SPECIFICATION FairSpec
PROPERTY SendEndsWithSession
CHECK_DEADLOCK FALSE
