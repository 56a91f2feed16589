SPECIFICATION Spec
CONSTANTS
    Commands = {"own", "bare"}
    OwnId <- FarId
    Guarded = {"own"}
    SocketRoom = 1
    RelayMax = 1
    WindowMax = 1
    Pushes = 0
    MaxTries = 2
    MaxEpoch = 2
    MaxNetd = 1
    MaxNtfy = 0
INVARIANTS
    TrueAnswer
    Fenced
    RelaysLive
CHECK_DEADLOCK FALSE
