CONSTANTS
    Commits = {1, 2}
    Contents <- MCContents
    GateModes = {"repository_checks"}
    MaxVersion = 4
    MaxForeign = 2
    MaxFaults = 1
SPECIFICATION FairSpec
PROPERTIES
    TipGetsPublished
