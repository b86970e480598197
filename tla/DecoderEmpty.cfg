CONSTANTS
    v = v
    a = a
    Es = {a, v}
    Cats <- VideoAndSound
    SoutModes = {FALSE}
    Packetized = {}
    FifoMax = 2
    PaceDepth = 1
    MaxOut = 1
    MaxBlocks = 0
    MaxSteps = 1
    MaxOps = 5
SPECIFICATION Spec
INVARIANTS EmptyAsserted
CHECK_DEADLOCK FALSE
