SPECIFICATION FairSpec
CONSTANTS
    Writers = {w1, w2}
    MaxWrites = 3
    queue_max_ = 2
    Levels = {1, 2}
INVARIANTS Accounted ConsoleInOrder ShutdownFlushes
PROPERTIES LoggerServes
