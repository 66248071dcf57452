SPECIFICATION FairSpec
CONSTANTS
    MaxSessions = 2
    MaxClock = 1
    TickMod = 65536
    idle_timeout_ms_ = 0
INVARIANTS MapSound StopLeavesAtMostOne
PROPERTIES IdleSwept SessionsEnd
CHECK_DEADLOCK FALSE
