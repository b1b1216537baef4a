SPECIFICATION FairSpec
CONSTANTS
    Workers = {w1, w2}
    Clients = {c1}
    Owner = c1
    NoThread = NoThread
    NoTask = NoTask
    Depth = 2
    MaxTasks = 2
PROPERTIES
    FreeReturns
