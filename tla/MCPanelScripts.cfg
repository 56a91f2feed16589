SPECIFICATION PanelSpec
CONSTANTS
    a1 = a1
    a2 = a2
    a3 = a3
    Agents <- Two
    MaxLines = 5
    Mine = {"ring", "face"}
    Slots = 2
    MaxFlips = 2
    MaxFaults = 2
SYMMETRY Interchangeable
INVARIANTS
    HolderVisible
    MutualExclusion
    PanelPutBack
PROPERTY
    RestoreUnseen
CHECK_DEADLOCK FALSE
