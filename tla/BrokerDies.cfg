CONSTANTS
    Kinds = {"final"}
    PullRequests = {p1}
    Bodies <- MCBodies
    PerPage = 1
    MaxPages = 3
    MaxComments = 3
    MaxOthers = 1
    MaxFaults = 2
SPECIFICATION FairSpec
PROPERTIES
    ResumesSafely
\* Nothing happens after the broker has ended.
CHECK_DEADLOCK FALSE
