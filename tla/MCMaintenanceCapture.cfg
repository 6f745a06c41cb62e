SPECIFICATION MaintenanceSpec
CONSTANTS
    Mirrors = {m1, m2}
    MaxRev = 3
    MaxId = 5
    MetaParts = 1
    Scenarios <- CaptureScenarios
SYMMETRY MirrorSymmetry
INVARIANTS
    ProgressBacked
CHECK_DEADLOCK FALSE
