CONSTANTS
    v = v
    a = a
    Es = {v}
    Cats <- Video
    SoutModes = {TRUE}
    Packetized = {}
    FifoMax = 2
    PaceDepth = 1
    MaxOut = 1
    MaxBlocks = 4
    MaxSteps = 1
    MaxOps = 4
SPECIFICATION FairSpec
PROPERTIES SendReturns
CHECK_DEADLOCK FALSE
