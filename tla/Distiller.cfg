\* one connection with two pieces of work in two classes; two types
SPECIFICATION FairSpec
CONSTANTS
    Conns = {c1}
    MaxWork = 2
    Classes = {1, 2}
    Types = {gif, jpg}
    InitialType = gif
    MaxBatch = 2
    MaxRenames = 1
    None = None
INVARIANTS
    WorkIsAccounted
    KnownToPTM
PROPERTIES
    FindsPTM
    WorkEnds
CHECK_DEADLOCK FALSE
