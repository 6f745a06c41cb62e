SPECIFICATION MaintenanceSpec
CONSTANTS
    Mirrors = {m1, m2}
    MaxRev = 4
    MaxId = 7
    MetaParts = 1
    Scenarios <- CommandScenarios
ACTION_CONSTRAINT Audited
SYMMETRY MirrorSymmetry
INVARIANTS
    SavesNeverRefused
    RecordsBacked
    VerifySettles
PROPERTIES
    QuarantineLiftedByEvidence
    ReportedRecoverable
    PublishedEdgeKept
    AnchorHeld
CHECK_DEADLOCK FALSE
