SPECIFICATION Spec
CONSTANTS
    d1 = d1
    Keys = {1, 2, 3}
    Dirs = {d1}
    DirOf <- OneDir
    Requests = {r1, r2}
    MaximumIndexedKeys = 2
    MaxKeys = 1
    MaximumListed = 2
    MaxFaults = 1
    MaxStops = 1
SYMMETRY RequestSymmetry
INVARIANTS
    IndexExact
    ListingSnapshot
PROPERTIES
    ImplementsImmutableObjects
CHECK_DEADLOCK FALSE
