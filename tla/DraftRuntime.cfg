CONSTANTS
    Candidates = {1, 2}
    Summaries = {1, 2}
    MaxVersion = 3
SPECIFICATION Spec
INVARIANTS
    TypeOK
    SidecarsRevalidate
    DraftsAccounted
    ReceiptMeansDeleted
    EvaluatesOnlyProvenCode
PROPERTY SummariesAreFinal
