SPECIFICATION FairSpec
CONSTANTS
    k1 = k1
    k2 = k2
    k3 = k3
    d1 = d1
    d2 = d2
    Keys = {k1, k2, k3}
    Dirs = {d1, d2}
    DirOf <- SharedDir
    Capacity = 3
    Reserve = 1
    MaxFaults = 2
    MaxStops = 3
INVARIANTS
    EvidenceDurable
    ReserveKept
PROPERTIES
    ImplementsImmutableObjects
    PublishedSettles
CHECK_DEADLOCK FALSE
