CONSTANTS
    Candidates = {1}
    Summaries = {1, 2}
    Viable = {2}
    Unsuccessful = {}
    Passing = {2}
    JobModes = {"foundry_evaluation"}
    MinCandidates = 1
    Guided = TRUE
    MaxVersion = 2
    MaxFaults = 1
    MaxInterrupts = 1
SPECIFICATION FairSpec
CHECK_DEADLOCK FALSE
PROPERTIES
    JobEnds
