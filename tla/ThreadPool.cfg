SPECIFICATION FairSpec
CONSTANTS
    Workers = {w1, w2}
    Clients = {c1}
    Tasks = {t1}
    Closures = {f1, f2}
    Priorities = {1, 2}
    NoThread = NoThread
    NoJob = NoJob
INVARIANTS QueueOrdered NoLostJobWakeup ShutdownDrains
PROPERTIES ImplementsLedger PoolServes
CHECK_DEADLOCK FALSE
