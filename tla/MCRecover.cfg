SPECIFICATION Spec
CONSTANTS
    Commits = {1, 2, 3, 4}
    Parent <- MCParent
    RepositoryUUID = 7
    Representations <- MCRepresentations
    MaximumLogicalPaths = 2
    MaximumMaterializations = 3
    MaximumCommitRecords = 4
    MaxFaults = 1
INVARIANTS
    ReportsRecoverable
    RecoveredWhole
    SelectedIsRetained
