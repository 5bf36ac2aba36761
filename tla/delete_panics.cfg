\* A task is deleted while its goroutine waits for the start time.
SPECIFICATION Spec
CONSTANTS
    NoWorker = NoWorker
    NoOutput = NoOutput
    NoKey = NoKey
    NoId = NoId
    Keep = Keep
    w = w
    k = k
    a = a
    b = b
    c = c
    p1 = p1
    p2 = p2
    p3 = p3
    Ids = {a}
    Workers = {w}
    Procs = {p1, p2}
    DefaultAttempts = 1
    DefaultErrorDelay = 1
    MaxInc = 1
    MaxApi = 4
    MaxTime = 6
    Blueprint <- PairTasks
    Preloaded = {a}
    CreationOrder <- InOrder
    Continuation <- NoContinuation
    Key <- NoKeys
    Group <- OneGroup
    Workgroup <- NoGroups
    Responses <- OkOrError
    ApiOps = {"delete"}
    Grants = {1}
    Updates <- PauseOrResume
    Prompt = TRUE
INVARIANTS
    NeverPanics
