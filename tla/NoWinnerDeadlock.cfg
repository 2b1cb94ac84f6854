CONSTANTS
    Candidates = {1}
    Summaries = {1, 2}
    Viable = {2}
    Unsuccessful = {}
    Passing = {2}
    JobModes = {"repository_checks"}
    MinCandidates = 1
    Guided = TRUE
    MaxVersion = 2
    MaxFaults = 0
    MaxInterrupts = 0
SPECIFICATION FairSpec
CHECK_DEADLOCK FALSE
PROPERTIES
    NoWinnerIsClosed
