CONSTANTS
    a = a
    b = b
    c = c
    Callers = {a, b, c}
    MaxCalls = 2
    MaxFrames = 3
SPECIFICATION FairSpec
INVARIANTS Balanced NoForgottenCaller
PROPERTIES GetReturns
CHECK_DEADLOCK FALSE
