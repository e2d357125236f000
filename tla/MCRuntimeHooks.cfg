CONSTANTS
    Threads = {t1, t2}
    ControllerScripts = {c1, c2}
    DiscScripts = {d1}
    DoomEnabled = TRUE
    None = none
SPECIFICATION Spec
\* A game whose hooks have lost their code has crashed.
CHECK_DEADLOCK FALSE
INVARIANTS
    TypeOK
    StaleNeverTouched
    HooksStayLoaded
    Discovered
