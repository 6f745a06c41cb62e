SPECIFICATION Spec
CONSTANTS
    Mirrors = {m1, m2}
    MaxRev = 3
    MaxId = 5
    MetaParts = 1
    Scenarios <- ResetScenarios
SYMMETRY MirrorSymmetry
INVARIANTS
    ResetReplayable
CHECK_DEADLOCK FALSE
