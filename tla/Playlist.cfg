CONSTANTS
    NItems = 2
    Deletable = {2}
    Random = TRUE
    MaxOps = 4
SPECIFICATION FairSpec
INVARIANTS OneInput NoForgottenWork NeverPastEnd
PROPERTIES RequestsServed
CHECK_DEADLOCK FALSE
