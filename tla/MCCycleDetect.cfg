SPECIFICATION LiveSpec
CONSTANTS
    n1 = n1
    n2 = n2
    n3 = n3
    n4 = n4
    Node <- FourNodes
INVARIANTS
    CycleTypeOK
    FindsExactlyCycles
    StackIsPath
PROPERTIES
    SearchEnds
    EachEdgeOnce
