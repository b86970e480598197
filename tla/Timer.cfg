CONSTANTS
    Values = {0, 1, 2, 4}
    Intervals = {0, 1, 2}
    MaxTime = 7
    UInt = 4
    CallPhases = {"disarmed", "armed", "signalled", "timedout", "callback", "returned"}
SPECIFICATION FairSpec
INVARIANTS SingleShotOnce PeriodsAccounted NeverEarly
PROPERTIES NoBurst ArmedTimerFires DestroyReturns
CHECK_DEADLOCK FALSE
