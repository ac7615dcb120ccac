SPECIFICATION Spec
CONSTANTS
    s = s
    a = a
    b = b
    c = c
    e = e
    Node <- OrphanNodes
    Edges <- OrphanEdges
    StartNode = s
    EndNode = e
    Caller = Caller
    WorkerPoolSize = 2
    MinChannelBuffer = 3
    MayFail = {b}
    OwnRunner = {b}
    Cancellable = TRUE
    SharedCtx = FALSE
    bTimeout = TRUE
INVARIANTS
    VerdictIsExact
    BadHasCause
    TransitionsAccepted
    SignalsAgree
    GetReadyGoesOn
PROPERTIES
    RefinesExec
    OnlyForward
