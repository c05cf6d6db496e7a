\* two listeners; five threads asked for, of which the limit leaves four workers;
\* task numbers reduced to one, so that a task is known by its listener
SPECIFICATION FairSpec
CONSTANTS
    Listeners = {http, wing}
    NoTask = NoTask
    nth = 5
    PTHREAD_THREADS_MAX = 4
    TaskIdWidth = 1
INVARIANT PoolIsSafe
PROPERTIES
    ImplementsFIFO
    ImplementsFairFIFO
