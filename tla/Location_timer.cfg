\* 1 front end and 2 PTMs, up to 2 crashes
SPECIFICATION LocSpec
CONSTANTS
    FrontEnds = {f1}
    PTMs = {1, 2}
    MaxConn = 2
    MaxCrashes = 2
INVARIANT ConnectedDisabled
