SPECIFICATION FairSpec
CONSTANTS
    Workers = {w1, w2}
    Clients = {c1, c2}
    Owner = c1
    NoThread = NoThread
    NoTask = NoTask
    Depth = 2
    MaxTasks = 3
INVARIANTS
    TypeOK
    PendingCounts
    RingHoldsBacklog
    TasksRunOnce
    BacklogHasWorker
    FreeDrains
PROPERTIES
    WaitSeesAllDone
    ImplementsTaskQueue
    AcceptedTasksRun
    WaitReturns
