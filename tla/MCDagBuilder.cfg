SPECIFICATION Spec
CONSTANTS
    s = s
    a = a
    b = b
    e = e
    p = p
    q = q
    Id <- Ids
    StartNode = s
    EndNode = e
    NoId = NoId
    Nil = Nil
    Builder <- Builders
    MaxChannelBuffer = 1
    MaxErrors <- Errors
SYMMETRY Symmetry
INVARIANTS
    BuilderTypeOK
    NodeCountExact
    LoggedIsReported
    RunnableUnlessGrown
PROPERTIES
    FinishedIsRunnable
