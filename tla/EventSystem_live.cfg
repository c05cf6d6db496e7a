\* two callers, a repeating timer and a connection
SPECIFICATION FairSpec
CONSTANTS
    None = None
    Callers = {c1, c2}
    Timers = {t1}
    Comms = {s1}
    Repeating = {t1}
    PipeSize = 2
    MaxQueued = 1
    Spurious = TRUE
PROPERTIES
    EventsAreHandled
    CallsReturn
CHECK_DEADLOCK FALSE
