CONSTANTS
    Viewers = {fast, slow}
    Prompt = {fast}
    MaxBytes = 3
    ChunkSizes = {1, 2}
    ScrollCap = 2
    BusCap = 1
    ReadSizes = {1}
SPECIFICATION FairSpec
INVARIANT OutputIsComplete
PROPERTIES OutputArrives ImplementsFeed
CHECK_DEADLOCK FALSE
