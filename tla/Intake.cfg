CONSTANTS
    a1 = a1
    a2 = a2
    s1 = s1
    Workers = {w1, w2}
    NoWorker = NoWorker
    Agents = {a1, a2}
    Sessions = {s1}
    Owner <- MCOwner
    Builds <- MCBuilds
    SessionTTL = 2
    SkewTolerance = 0
    Events <- MCEvents
    NonceTTL = 1
    Capacity = 1
    Window60s = 0
    Window5m = 1
    MaxTime = 2
    MaxRequests = 2
    MaxEvents = 2
    MaxRestarts = 1
SPECIFICATION Spec
SYMMETRY SymmetricWorkers
INVARIANTS
    FreshAndInOrder
    PermitsExact
    WindowsExact
CHECK_DEADLOCK FALSE
