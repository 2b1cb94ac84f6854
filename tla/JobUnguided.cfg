CONSTANTS
    Candidates = {1, 2}
    Summaries = {1, 2}
    Viable = {2}
    Unsuccessful = {}
    Passing = {2}
    JobModes = {"foundry_evaluation", "repository_checks", "none"}
    MinCandidates = 2
    Guided = FALSE
    MaxVersion = 4
    MaxFaults = 5
    MaxInterrupts = 1
SPECIFICATION Spec
CHECK_DEADLOCK FALSE
INVARIANTS
    FilesAgree
    HonestLabels
    NeverProjectedAndClosed
PROPERTIES
    OutcomeIsFinal
