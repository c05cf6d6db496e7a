\* 2 front ends, 1 distiller, 1 type
SPECIFICATION Spec
CONSTANTS
    FrontEnds = {f1, f2}
    AskIds = {1}
    Distillers = {d1}
    gif = gif
    any = any
    Types <- OneType
    CanSatisfy <- SameType
    Records = {l1, l2}
    InitialTypes <- OneType
    MaxLaunchTimeouts = 2
    AskersMayBreak = TRUE
    None = None
    Dangling = Dangling
SYMMETRY Symmetry
INVARIANT AsksWait
CHECK_DEADLOCK FALSE
