SPECIFICATION FairSpec
CONSTANTS
    Workers = {w1, w2}
    Clients = {c1}
    Tasks = {}
    Closures = {f1}
    Priorities = {1, 2}
    NoThread = NoThread
    NoJob = NoJob
PROPERTY ShutdownReturns
CHECK_DEADLOCK FALSE
