SPECIFICATION FairSpec
CONSTANTS
    t1 = t1
    w1 = w1
    w2 = w2
    c1 = c1
    c2 = c2
    TrySender = {t1}
    WaitSender = {w1, w2}
    Closer = {c1, c2}
    Nobody = Nobody
    Cap = 1
PROPERTIES
    CloseEndsSend
