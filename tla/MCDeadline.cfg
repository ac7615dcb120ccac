SPECIFICATION Spec
CONSTANTS
    s = s
    a = a
    b = b
    c = c
    e = e
    Node <- ChainNodes
    Edges <- ChainEdges
    StartNode = s
    EndNode = e
    Caller = Caller
    WorkerPoolSize = 50
    MinChannelBuffer = 3
    MayFail = {}
    OwnRunner = {}
    Cancellable = FALSE
    SharedCtx = FALSE
    bTimeout = TRUE
PROPERTIES
    DeadlineCapsRun
