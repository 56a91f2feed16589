SPECIFICATION Spec
CONSTANTS
    Commands = {"first", "second"}
    OwnId <- NoIds
    Guarded = {}
    SocketRoom = 1
    RelayMax = 1
    WindowMax = 2
    Pushes = 0
    MaxTries = 1
    MaxEpoch = 1
    MaxNetd = 1
    MaxNtfy = 0
INVARIANTS
    MintedTrueAnswer
CHECK_DEADLOCK FALSE
