CONSTANTS
    Devices = {d1, d2}
    Local = local
    NoSize = nosize
    Cols = {1, 2}
    Rows = {1}
    Seed <- McSeed
    Viewers = {v1, v2}
SPECIFICATION Spec
INVARIANTS EffectiveIsMin SoleViewerServed
SYMMETRY McSymmetry
CHECK_DEADLOCK FALSE
