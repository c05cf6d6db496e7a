\* 1 front end with 1 request; 2 distillers of one type, or 1 and 2 types, one of
\* them a wildcard
SPECIFICATION Spec
CONSTANTS
    FrontEnds = {f1}
    AskIds = {1}
    Distillers = {d1, d2}
    gif = gif
    any = any
    Types <- TwoTypes
    CanSatisfy <- Wildcard
    Records = {l1, l2}
    InitialTypes <- OneType
    MaxLaunchTimeouts = 1
    AskersMayBreak = FALSE
    None = None
    Dangling = Dangling
CONSTRAINT OneOrTheOther
SYMMETRY Symmetry
INVARIANT PTMIsSafe
CHECK_DEADLOCK FALSE
