\* Resets, retries, pauses, resumes, deletes and creations of one task against its goroutines.
SPECIFICATION Spec
CONSTANTS
    NoWorker = NoWorker
    NoOutput = NoOutput
    NoKey = NoKey
    NoId = NoId
    Keep = Keep
    w = w
    k = k
    a = a
    b = b
    c = c
    p1 = p1
    p2 = p2
    p3 = p3
    Ids = {a}
    Workers = {w}
    Procs = {p1, p2, p3}
    DefaultAttempts = 1
    DefaultErrorDelay = 1
    MaxInc = 2
    MaxApi = 3
    MaxTime = 8
    Blueprint <- SingleTask
    Preloaded = {a}
    CreationOrder <- InOrder
    Continuation <- NoContinuation
    Key <- NoKeys
    Group <- OneGroup
    Workgroup <- NoGroups
    Responses <- OkOrError
    ApiOps = {"reset", "retry", "update", "create", "delete"}
    Grants = {1}
    Updates <- PauseOrResume
    Prompt = FALSE
SYMMETRY ProcSymmetry
INVARIANTS
    OneWorkerCall
    BusyTellsTheTruth
    NoOverdraft
    CompleteNotCalled
    RetryWaits
    PauseAdmitsAtMostOne
    LockDiscipline
    CallsWithinObjects
