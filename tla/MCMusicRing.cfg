\* A ring of two slots wraps twice within five accepted presses, fills up and
\* empties; two different commands make a swapped order visible.
CONSTANTS
    Commands = {next, source}
    None = none
    Queue = 2
    MaxTail = 5
SPECIFICATION Spec
INVARIANTS
    TypeOK
    NothingOverwritten
PROPERTIES
    ImplementsCommandQueue
    EveryPressApplied
