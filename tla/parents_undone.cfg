\* A parent is reset while its child waits for the throttler.
SPECIFICATION Spec
CONSTANTS
    NoWorker = NoWorker
    NoOutput = NoOutput
    NoKey = NoKey
    NoId = NoId
    Keep = Keep
    w = w
    k = k
    a = a
    b = b
    c = c
    p1 = p1
    p2 = p2
    p3 = p3
    Ids = {a, b}
    Workers = {w}
    Procs = {p1, p2}
    DefaultAttempts = 1
    DefaultErrorDelay = 1
    MaxInc = 1
    MaxApi = 1
    MaxTime = 6
    Blueprint <- PairTasks
    Preloaded = {a, b}
    CreationOrder <- InOrder
    Continuation <- NoContinuation
    Key <- NoKeys
    Group <- OneGroup
    Workgroup <- NoGroups
    Responses <- OnlyOk
    ApiOps = {"reset"}
    Grants = {1}
    Updates <- NoUpdates
    Prompt = FALSE
PROPERTIES
    ParentsFirst
