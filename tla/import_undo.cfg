SPECIFICATION Spec
CONSTANTS
    NJobs = 1
    NBatches = 2
    MaxRetries = 1
    Workers = {w1, w2}
    NoWorker = NoWorker
    Requests = {r1}
    Ops = {"cancel", "retry", "undo"}
    Secondary = {1}
    MaxFaults = 1
    MaxCalls = 1
INVARIANT UndoneHasNoRows
