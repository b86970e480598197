CONSTANTS
    v = v
    a = a
    Es = {v}
    Cats <- Anything
    SoutModes = {TRUE, FALSE}
    Packetized = {v}
    FifoMax = 2
    PaceDepth = 0
    MaxOut = 1
    MaxBlocks = 2
    MaxSteps = 1
    MaxOps = 4
SPECIFICATION FairSpec
INVARIANT NoMutualWait
PROPERTIES InputReturns DecoderReleased
CHECK_DEADLOCK FALSE
