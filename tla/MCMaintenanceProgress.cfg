SPECIFICATION FairSpec
CONSTANTS
    Mirrors = {m1, m2}
    MaxRev = 3
    MaxId = 6
    MetaParts = 1
    Scenarios <- PendingScenarios
PROPERTIES
    PushedEventuallyReported
CHECK_DEADLOCK FALSE
