SPECIFICATION ReadersSpec
CONSTANTS
    t1 = t1
    t2 = t2
    t3 = t3
    n1 = n1
    n2 = n2
    n3 = n3
    r1 = r1
    Head = Head
    Null = Null
    SeqSplice = SeqSplice
    NoSplice = NoSplice
    Threads <- MCThreeThreads
    Nodes <- MCNodes
    Keys <- MCTwoKeys
    Key <- MCShared
    Hints <- MCNoHints
    kMaxHeight = 2
    Readers <- MCNoReaders
    kBranching_ = 2
    CountSpan = 4
SYMMETRY MCThreeSymmetry
INVARIANTS
    TypeOK
    Ordered
    Nested
    Complete
    SearchOnLevel
    SelfTest
