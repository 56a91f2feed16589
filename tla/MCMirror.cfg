SPECIFICATION Spec
CONSTANTS
    Names = {"a", "b", "c"}
    Bases = {"clock", "art"}
    Generators = {"plasma"}
    Styles = {"plain", "other"}
    Waiting = 2
    MaxDuration = 1
    ArmingWait = 1
    DefaultStyle = "plain"
    Packets <- Changing
    Adversity = {"late subscription", "lost statements"}
    MaxRevision = 3
INVARIANT InStep
CHECK_DEADLOCK FALSE
