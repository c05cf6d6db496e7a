\* the bounds of each part are in its INSTANCE
SPECIFICATION ToolsSpec
CONSTANTS
    host_a = host_a
    host_b = host_b
    host_c = host_c
    Hosts <- Machines
    Priority <- Priorities
    HostLists <- Reordered
    MaxRunning = 2
    NoHost = NoHost
INVARIANTS
    PoolIsSound
    LoadIsShared
    RedirectIsRight
    MessagesArrive
    FetchesAreWhole
    PrefsAreKept
    ScriptsServe
    OptionsAreRight
    AsyncIsAccounted
PROPERTIES
    PicksGoodHost
    StructuresAreRight
    CachesForgetOldest
    LoadIsPlayed
CHECK_DEADLOCK FALSE
