SPECIFICATION LiveSpec
CONSTANTS
    s = s
    a = a
    b = b
    c = c
    e = e
    Node <- ChainNodes
    Edges <- ChainEdges
    StartNode = s
    EndNode = e
    Caller = Caller
    WorkerPoolSize = 50
    MinChannelBuffer = 3
    MayFail = {a}
    OwnRunner = {}
    Cancellable = TRUE
    SharedCtx = TRUE
    bTimeout = FALSE
PROPERTIES
    WaitReturns
