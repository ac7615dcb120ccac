CONSTANTS
    s = s
    a = a
    x = x
    r1 = r1
    t1 = t1
    t2 = t2
    Nil = Nil
    Nobody = Nobody
    Id <- MCId
    Node <- MCNode
    Special <- MCSpecial
    Runner <- MCRunner
    Resolver <- MCResolver
    BulkRequest <- MCBulkRequest
    BulkSetter <- MCBulkSetter
    Setter <- MCSetter

SPECIFICATION FairSpec
INVARIANTS
    BindingTypeOK
    NoCircularWait
PROPERTIES
    FrozenOnceBegun
    RefinesRegister
    CallsReturn
