CONSTANTS
    NItems = 2
    Deletable = {1, 2}
    Random = FALSE
    MaxOps = 4
SPECIFICATION FairSpec
PROPERTIES DeactivateReturns
CHECK_DEADLOCK FALSE
