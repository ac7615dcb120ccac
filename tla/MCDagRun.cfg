SPECIFICATION Spec
CONSTANTS
    s = s
    a = a
    b = b
    c = c
    e = e
    Node <- DiamondNodes
    Edges <- DiamondEdges
    StartNode = s
    EndNode = e
    Caller = Caller
    WorkerPoolSize = 50
    MinChannelBuffer = 3
    MayFail = {a, b, c}
    OwnRunner = {}
    Cancellable = FALSE
    SharedCtx = TRUE
    bTimeout = FALSE
INVARIANTS
    TypeOK
    DependencyOrder
    WaitTrueMeansAllSucceeded
    FailurePropagates
    ProgressIsExact
    NobodyStuck
