CONSTANTS
    Candidates = {1, 2}
    Summaries = {1, 2, 3}
    Viable = {2, 3}
    Unsuccessful = {1}
    Passing = {2}
    JobModes = {"foundry_evaluation"}
    MinCandidates = 2
    Guided = TRUE
    MaxVersion = 6
    MaxFaults = 4
    MaxInterrupts = 1
SPECIFICATION FairSpec
CHECK_DEADLOCK FALSE
INVARIANTS
    TypeOK
    WinnerIsValidated
    FinalCommentIsTrue
    AppliedIsSelected
    RuntimeNeverRefuses
    OneValidated
    NoRunOnDeletedDraft
    ClosedOnlyWithoutWinner
PROPERTIES
    UninterruptedJobEnds
