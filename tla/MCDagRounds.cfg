CONSTANTS
    a = a
    e = e
    Node <- MCNode
    EndNode = e
    MaxRounds = 2
    MinChannelBuffer = 2
    MaxChannelBuffer = 1
    Interruptible <- MCInterruptible

SPECIFICATION FairSpec
INVARIANTS
    RoundsTypeOK
    RerunVerdict
    NoReaderLeft
    RoundGoesOn
PROPERTIES EveryRoundEnds
CHECK_DEADLOCK FALSE
