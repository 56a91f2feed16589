SPECIFICATION Spec
CONSTANTS
    Builds = {"1.1.1"}
    OtherBuild = "1.2.0"
    Slots = 3
    Wishes <- MCWishes
    MaxCommands = 4
    MaxCrashes = 2
    MaxReboots = 1
    UmountTries = 5
PROPERTIES
    ClaimsTrue
    StatusTrue
    CommandEnds
CHECK_DEADLOCK FALSE
