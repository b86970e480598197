CONSTANTS
    a = a
    b = b
    d = d
    e = e
    Clients = {a, b}
    Decoders = {d, e}
    MaxCommands = 4
    MaxPictures = 3
SPECIFICATION FairSpec
INVARIANTS TypeOK ExecutedOnReturn NobodyWaitsForTheDead NoForgottenWork CommandsAccounted
PROPERTIES CallsReturn
CHECK_DEADLOCK FALSE
