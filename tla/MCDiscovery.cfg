SPECIFICATION MCSpec
CONSTANTS
    c1 = c1
    c2 = c2
    Clocks <- MCClocks
    Setups <- MCSetups
    Requests <- MCRequests
    MaxSwitches = 1
    Devices <- MCClocks
    Period <- MCPeriod
    AnswerDelay <- MCDelay
    ListenFor = 15
    ListenQuiet = 12
    QueryFor = 20
    QueryQuiet = 3
    RecvTimeout = 2
    MaxChatter = 8
    MaxTurns = 1
SYMMETRY Interchangeable
INVARIANTS
    OneMeansOne
    ProbesHear
CHECK_DEADLOCK FALSE
