SPECIFICATION AddSpec
CONSTANTS
    Fds = {f1}
    Handlers = {h1, h2}
    Callers = {u1, u2}
    None = None
INVARIANT AddsLocked
CHECK_DEADLOCK FALSE
