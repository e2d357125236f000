\* One session can hold two shots; the times keep the order of the code's.
CONSTANTS
    Controllers = {c1, c2}
    Discs = {d1, d2}
    Null = null
    SessionTime = 5
    ResolveTime = 1
    StageTime = 2
    FlightTime = 2
    PauseTime = 1
    MaxNow = 7
SPECIFICATION Spec
INVARIANTS
    TypeOK
    SessionHasController
    DiscIsLive
PROPERTIES
    FlightUntouched
    WritesInsideSession
    SessionEnds
