SPECIFICATION Spec
CONSTANTS
    ReadyTimeout = 2
    HeartbeatTimeout = 1
    StopTimeout = 1
    Healthy = 3
    Window = 3
    Delay <- MCDelay
    MaxSignals = 2
INVARIANTS
    TypeOK
    OneRenderer
    NoUnansweredCrashLoop
PROPERTIES
    PolicySpec
    ShutdownEnds
    HangEnds
    Restarts
CHECK_DEADLOCK FALSE
