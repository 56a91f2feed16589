SPECIFICATION Spec
CONSTANTS
    Names = {"a", "b"}
    Bases = {"clock", "art"}
    Generators = {"plasma"}
    Styles = {"plain"}
    Waiting = 2
    MaxDuration = 1
    ArmingWait = 1
    DefaultStyle = "plain"
    Packets <- Overlays
    Adversity = {"reconnects", "failed answers"}
    MaxRevision = 3
INVARIANT OverlayInStep
CHECK_DEADLOCK FALSE
