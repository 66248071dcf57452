SPECIFICATION ThreadSpec
CONSTANTS
    Clients = {c1, c2}
    Delays = {1}
    MaxTick = 2
    MaxStarts = 2
INVARIANTS EntryConserved
PROPERTIES FiresRightly TimerLoopServes
CHECK_DEADLOCK FALSE
