\* Three polls: one by the worker that dies, two by its successor, whose second
\* wait for the text mutex is a recursive one.
CONSTANTS
    Readings <- OnePlayer
    MaxPolls = 3
    Half = 128
SPECIFICATION Spec
PROPERTY
    PageConnects
