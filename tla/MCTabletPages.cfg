CONSTANTS
    Gamespaces = {"g1", "g2"}
    Keys <- MCKeys
    Canvases <- MCCanvases
    Buttons <- MCButtons
    Null = null
SPECIFICATION Spec
INVARIANTS
    TypeOK
    NoDanglingCanvas
    MaskMatchesBit
    HeartbeatMeansMusic
    HeldIsDown
    HiddenIsRemembered
PROPERTIES
    FaultFreesButtons
