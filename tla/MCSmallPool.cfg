SPECIFICATION LiveSpec
CONSTANTS
    s = s
    a = a
    b = b
    c = c
    e = e
    Node <- DiamondNodes
    Edges <- DiamondEdges
    StartNode = s
    EndNode = e
    Caller = Caller
    WorkerPoolSize = 2
    MinChannelBuffer = 3
    MayFail = {}
    OwnRunner = {}
    Cancellable = FALSE
    SharedCtx = TRUE
    bTimeout = FALSE
PROPERTIES
    StartCascades
CHECK_DEADLOCK FALSE
