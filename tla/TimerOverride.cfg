CONSTANTS
    Values = {0, 1, 2, 4}
    Intervals = {0, 2}
    MaxTime = 6
    UInt = 16
    CallPhases = {"disarmed", "armed", "callback"}
SPECIFICATION Spec
INVARIANTS OverridesPrevious
CHECK_DEADLOCK FALSE
