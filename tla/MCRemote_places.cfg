SPECIFICATION Spec
CONSTANTS
    Callers = {c1, c2}
    MaxRetries = 1
    Budgets = {0}
    Window = 2
    FailureThreshold = 2
    SuccessThreshold = 2
    OpenTime = 1
    MaxConcurrent = 1
    QueueDepth = 2
    ShedPct = 90
    MaxTime = 1
CHECK_DEADLOCK FALSE
INVARIANTS
    PlacesReturned
