CONSTANTS
    Threads = {t1, t2, t3}
    CHUNK_SIZE = 2
    MaxChunks = 2
    BlockSize = 3
    PreAlloc = 4
    MaxBlocks = 2
    PoolSize = 3
    Queries = {q1, q2}
    Subscribers = {s1, s2, s3}
    MaxPublishes = 2
    Callers = {c1, c2}
    MaxCounted = 2
    MaxStarts = 2
    Receivers = {r1, r2}
    MaxSends = 3
    MaxRecvs = 3
SPECIFICATION MCSpec
INVARIANTS FreeListsSound SilentAfterUnsubscribe
PROPERTIES NullOnlyIfDrained ImplementsLending NoSleepOnMessages MonitorAgrees
CHECK_DEADLOCK FALSE
