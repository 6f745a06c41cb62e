SPECIFICATION FairSpec
CONSTANTS
    Entries = 3
    Contents = {1, 2, 3, 4}
    Readable <- MCReadable
    Digest <- MCDigest
    Large = {2}
    BaseObjects = {3}
    NoData = NoData
    Omitted = Omitted
    Unseen = Unseen
    PackTarget = 2
    MaximumPaths = 2
    ChangedPaths = {0, 1}
    MaximumDisplayed = 1
    AllowEmpty = FALSE
    Mirrors <- MCMirrors
    MaxStops = 1
    MaxDamage = 1
    MemoryRecords = 1
    MaxOpenFiles = 2
    m1 = m1
    m2 = m2
INVARIANTS
    ResumeValidates
    ReadIsDurable
    CaptureBacked
    CandidateExact
    ChangesReported
PROPERTIES
    CaptureCompletes
CHECK_DEADLOCK FALSE
