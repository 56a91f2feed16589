SPECIFICATION Spec
CONSTANTS
    Commands = {"own", "bare"}
    OwnId <- FarId
    Guarded = {}
    SocketRoom = 1
    RelayMax = 1
    WindowMax = 1
    Pushes = 1
    MaxTries = 2
    MaxEpoch = 1
    MaxNetd = 0
    MaxNtfy = 1
INVARIANTS
    AtMostOnce
    TrueAnswer
CHECK_DEADLOCK FALSE
