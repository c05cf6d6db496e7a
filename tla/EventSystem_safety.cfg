\* two callers; two timers, one of them repeating, and two connections
SPECIFICATION Spec
CONSTANTS
    None = None
    Callers = {c1, c2}
    Timers = {t1, t2}
    Comms = {s1, s2}
    Repeating = {t1}
    PipeSize = 2
    MaxQueued = 1
    Spurious = FALSE
INVARIANT EventsAreSafe
CHECK_DEADLOCK FALSE
