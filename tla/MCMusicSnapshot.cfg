CONSTANTS
    Readings <- OnePlayer
    MaxPolls = 3
    Half = 128
SPECIFICATION Spec
INVARIANTS
    TypeOK
    TextWhole
    TextIsCurrent
PROPERTIES
    TextCatchesUp
