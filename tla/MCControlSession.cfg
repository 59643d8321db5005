CONSTANTS
  MaxCalls = 3
  MaxStreams = 2
  Cap = 1
SPECIFICATION ControlSpec
INVARIANT ConnectionIsSound
PROPERTY EveryCallEnds
CHECK_DEADLOCK FALSE
