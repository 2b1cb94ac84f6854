CONSTANTS
    Candidates = {1}
    Summaries = {1, 2}
    Viable = {2}
    Unsuccessful = {}
    Passing = {2}
    JobModes = {"foundry_evaluation"}
    MinCandidates = 1
    Guided = TRUE
    MaxVersion = 2
    MaxFaults = 1
    MaxInterrupts = 0
SPECIFICATION Spec
CHECK_DEADLOCK FALSE
INVARIANTS
    SettledLeavesNoDraft
