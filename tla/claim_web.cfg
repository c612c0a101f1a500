SPECIFICATION FairSpec
CONSTANTS
    BufSize = 12
    Scripts <- TestScript
PROPERTY EveryRequestAnswered
CHECK_DEADLOCK FALSE
