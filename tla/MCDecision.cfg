CONSTANTS
    CandidateIds = {1, 2, 3}
    Evaluations <- MCEvaluations
    Paths = {1, 2}
    Guardrails = {"g"}
    BaselineScore = 2
    Rules <- MCRules
SPECIFICATION Spec
CHECK_DEADLOCK FALSE
INVARIANTS
    TypeOK
    BestIsTop
    OneKept
    WinnerIsEarned
    NoUnreportedGuardrail
