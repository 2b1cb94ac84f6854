CONSTANTS
    Commits = {1, 2}
    Contents <- MCContents
    GateModes = {"foundry_evaluation", "repository_checks", "none"}
    MaxVersion = 4
    MaxForeign = 2
    MaxFaults = 1
SPECIFICATION Spec
INVARIANTS
    TypeOK
    ReceiptsAreTrue
    CleanedBeforeGoingOn
PROPERTIES
    KeepsReleaseLog
