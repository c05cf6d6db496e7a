\* 1 front end with 2 requests, 1 distiller, 1 type
SPECIFICATION FairSpec
CONSTANTS
    FrontEnds = {f1}
    AskIds = {1, 2}
    Distillers = {d1}
    gif = gif
    any = any
    Types <- OneType
    CanSatisfy <- SameType
    Records = {l1, l2}
    InitialTypes <- OneType
    MaxLaunchTimeouts = 2
    AskersMayBreak = FALSE
    None = None
    Dangling = Dangling
PROPERTY AsksAnswered
CHECK_DEADLOCK FALSE
