SPECIFICATION ServerSpec
CONSTANTS
    Handlers = {h1, h2}
    Sessions <- Each
    Clocks = {c1, c2}
    Cache = 2
    ProbeTimeout = 1
    Remember = 2
    StreamTimeout = 2
    KeepAlive = 1
    MaxTime = 6
    MaxWrites = 2
SYMMETRY Interchangeable
INVARIANTS
    
    NoStaleToken
    SlotFreed
CHECK_DEADLOCK FALSE
