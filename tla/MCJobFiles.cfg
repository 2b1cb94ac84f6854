CONSTANTS
    first = first  second = second
    agent = agent  model = model  other = other
    evaluator = evaluator  own = own  data = data  check = check
    s = s  m = m  i = i  p = p  s0 = s0  p0 = p0  p1 = p1  n = n
    Absent = Absent  None = None  Empty = Empty
    Candidates = {first, second}
    Paths = {s, m, i, p}
    SourcePaths = {s, m, i}
    Ignored = {i}
    Contents = {s0, p0, p1, n}
    Base <- MCBase
    Similar <- MCSimilar
    Writable <- MCWritable
    MaxDisturbed = 2
    Agents = {agent}
    Models = {model, other}
    Evaluators = {evaluator, own}
    DataSets = {data}
    Checks = {check}
    Protected = {p}
    Parents <- MCParents
    Procs = {"job", "other"}
    Keys <- MCKeys
    Identities <- MCIdentities
    Values <- MCValues
    Setups <- MCSetups
    IssueEdits <- MCIssueEdits
SPECIFICATION Spec
CHECK_DEADLOCK FALSE
INVARIANTS
    TypeOK
    UpdatesSurvive
    RecordsAreBacked
    EvaluatedIsMerged
    OutsideOnlyDeletes
    RequestExplainsState
    LockedOutOnlyByBreak
