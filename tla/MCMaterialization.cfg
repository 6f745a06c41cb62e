CONSTANTS
    Commits = {c1, c2}
    Genesis = c1
    NoCommit = none
    Prepared = prepared
    NumBlobs = 2
    MaxCrashes = 3
SPECIFICATION Spec
INVARIANTS
    CheckoutConsistent
    RecoveryNeverStuck
    TornIsRecorded
PROPERTIES
    IntentCompletes
