SPECIFICATION FairSpec
CONSTANTS
    Files = {1, 2}
    Links = {3}
    ContentOf <- MCContentOf
    PackOf <- MCPackOf
    PartCount <- MCPartCount
    Mirrors = {1, 2}
    InitialDests <- MCInitialDests
    MaxFaults = 2
INVARIANTS
    PublishedExact
    AllOrNothing
    ReportExact
    SuccessDurable
PROPERTY
    RerunCompletes
CHECK_DEADLOCK FALSE
