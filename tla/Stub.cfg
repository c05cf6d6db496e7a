\* 2 workers and 1 distiller; 2 threads and 2 partitions
SPECIFICATION StubSpec
CONSTANTS
    w1 = w1
    w2 = w2
    gif = gif
    jpg = jpg
    None = None
    Workers <- TwoWorkers
    Addrs = {1}
    Types <- TwoTypes
    Wanted <- OneType
    MaxRecords = 2
    MaxRenames = 1
    h1 = h1
    h2 = h2
    Threads = {t1, t2}
    Hosts = {h1, h2}
    Config <- TwoHosts
    Hashes = {0, 1}
    Retries = 1
    MaxChanges = 1
    MaxHups = 1
INVARIANT RecordsAreKept
PROPERTIES
    DistillReturns
    PartitionsAreKept
    FetchReturns
CHECK_DEADLOCK FALSE
