\* routes of up to three distillers, four stages, two retries; 2 workers, one
\* of them timed, lossy reports; 1 front end and 2 PTMs, up to 2 crashes
SPECIFICATION FrontEndSpec
CONSTANTS
    a = a
    b = b
    Distillers <- TwoDistillers
    Generic = Generic
    Dispatcher = Dispatcher
    Routes <- SomeRoutes
    Retries = 2
    TTL = 3
    NThreads = 2
    NumAsymptote = 1
    Idle = idle
    Unknown = unknown
    States = {idle, cache}
    Timed = {0}
    Lossy = TRUE
    FrontEnds = {f1}
    PTMs = {1, 2}
    MaxConn = 2
    MaxCrashes = 2
INVARIANTS
    PipelineIsSafe
    WillStartOne
PROPERTIES
    PipelineEnds
    MonitorIsInformed
    ContestSettles
    FindsPTM
