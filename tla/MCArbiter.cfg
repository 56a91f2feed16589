SPECIFICATION Spec
CONSTANTS
    Names = {"a"}
    Bases = {"clock", "art"}
    Generators = {"g1", "g2"}
    Styles = {"s1", "s2"}
    Waiting = 2
    MaxDuration = 2
    ArmingWait = 1
    Posts <- MCPosts
    ScenePackets <- MCScenePackets
    MaxRevision = 4
    MaxFrames = 1
INVARIANTS
    SlotConsistent
    LayerHeld
    Announced
PROPERTIES
    FullTurn
    QueueSpec
    OverlaysEnd
CHECK_DEADLOCK FALSE
