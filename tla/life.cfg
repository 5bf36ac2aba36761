\* The worker of a returns b and c, and c waits for b too.  a and c are
\* duplicates.  Workers fail and ask for delays; there are no API calls.
SPECIFICATION FairSpec
CONSTANTS
    NoWorker = NoWorker
    NoOutput = NoOutput
    NoKey = NoKey
    NoId = NoId
    Keep = Keep
    w = w
    k = k
    a = a
    b = b
    c = c
    p1 = p1
    p2 = p2
    p3 = p3
    Ids = {a, b, c}
    Workers = {w}
    Procs = {p1, p2}
    DefaultAttempts = 2
    DefaultErrorDelay = 1
    MaxInc = 1
    MaxApi = 0
    MaxTime = 6
    Blueprint <- Family
    Preloaded = {a}
    CreationOrder <- InOrder
    Continuation <- FamilyContinuation
    Key <- FamilyKeys
    Group <- OneGroup
    Workgroup <- NoGroups
    Responses <- DelayOrError
    ApiOps = {}
    Grants = {}
    Updates <- NoUpdates
    Prompt = TRUE
INVARIANTS
    TypeOK
    ChildrenWaitForSiblings
PROPERTIES
    NothingLeftBehind
    EventuallyQuiet
