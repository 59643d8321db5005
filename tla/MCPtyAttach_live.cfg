CONSTANTS
    Devices = {d1}
    Local = local
    NoSize = nosize
    Cols = {2}
    Rows = {1}
    Seed <- McSeed
    Viewers = {v1, v2}
SPECIFICATION TalkativeSpec
PROPERTY GoneViewerEnds
CHECK_DEADLOCK FALSE
