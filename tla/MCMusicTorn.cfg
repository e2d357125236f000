\* Two polls: one for each track.
CONSTANTS
    Readings <- TwoTracks
    MaxPolls = 2
    Half = 128
SPECIFICATION Spec
INVARIANT
    ProgressInsideTrack
