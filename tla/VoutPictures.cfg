CONSTANTS
    Dpb = 1
    MaxPools = 2
    MaxLost = 1
SPECIFICATION FairSpec
INVARIANTS RefsMatch DeadPoolsDrained
PROPERTIES RobbedOnlyIfLost ShownInOrder DecoderServed
CHECK_DEADLOCK FALSE
