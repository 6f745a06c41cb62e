SPECIFICATION Spec
CONSTANTS
    Mirrors = {m1, m2}
    MaxRev = 4
    MaxId = 6
    MetaParts = 2
    Scenarios <- PublicationScenarios
SYMMETRY MirrorSymmetry
INVARIANTS
    WellFormed
    LedgerPublished
    AcceptedIsHead
    AbandonedNeverPublished
PROPERTIES
    ReportedRecoverable
    PublishedEdgeKept
    ImplementsRevisionLife
CHECK_DEADLOCK FALSE
