SPECIFICATION Spec
CONSTANTS
    MaxSessions = 2
    MaxClock = 1
    TickMod = 65536
    idle_timeout_ms_ = 0
PROPERTIES OnlyIdleClosed
CHECK_DEADLOCK FALSE
