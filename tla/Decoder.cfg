CONSTANTS
    v = v
    a = a
    Es = {v, a}
    Cats <- VideoAndSound
    SoutModes = {FALSE}
    Packetized = {}
    FifoMax = 2
    PaceDepth = 1
    MaxOut = 1
    MaxBlocks = 2
    MaxSteps = 1
    MaxOps = 4
SPECIFICATION Spec
INVARIANTS SeekIsBarrier ReadyTogether NoneLeftWaiting NoMutualWait
PROPERTIES OutputInTurn
CHECK_DEADLOCK FALSE
