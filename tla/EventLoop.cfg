CONSTANTS
    Timers = {t1, t2}
    Delays = {0, 1, 2}
    MaxTick = 1
    MaxTasks = 2
    MaxRuns = 2
    MaxIds = 3
    Fds = {f1}
    Handlers = {h1, h2}
    Callers = {u1, u2, u3}
    None = None
SPECIFICATION MCSpec
INVARIANTS TasksInOrder HandlersAgree
PROPERTIES TimersRightly LoopServes PollFiresDue
CHECK_DEADLOCK FALSE
