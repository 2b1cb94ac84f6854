CONSTANTS
    Kinds = {"baseline", "final"}
    PullRequests = {p1, p2}
    Bodies <- MCBodies
    PerPage = 1
    MaxPages = 3
    MaxComments = 3
    MaxOthers = 1
    MaxFaults = 1
SPECIFICATION Spec
SYMMETRY Symmetry
INVARIANTS
    TypeOK
    ReceiptsHold
PROPERTIES
    KeepsThread
\* Nothing happens after the broker has ended.
CHECK_DEADLOCK FALSE
