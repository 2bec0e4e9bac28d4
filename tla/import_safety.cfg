SPECIFICATION Spec
CONSTANTS
    NJobs = 1
    NBatches = 2
    MaxRetries = 1
    Workers = {w1, w2}
    NoWorker = NoWorker
    Requests = {r1}
    Ops = {"cancel", "retry", "undo"}
    Secondary = {}
    MaxFaults = 3
    MaxCalls = 3
SYMMETRY Interchangeable
INVARIANTS
    TypeOK
    ClaimedRowsCanGoStale
    RetriesAreFaults
    ExclusiveClaim
    CompletedIsLoaded
    LoadedOnce
PROPERTIES
    CancelStands
    ImplementsContract
    FollowsRows
