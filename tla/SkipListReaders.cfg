SPECIFICATION FairReadersSpec
CONSTANTS
    t1 = t1
    t2 = t2
    t3 = t3
    n1 = n1
    n2 = n2
    n3 = n3
    r1 = r1
    Head = Head
    Null = Null
    SeqSplice = SeqSplice
    NoSplice = NoSplice
    Threads <- MCThreads
    Nodes <- MCNodes
    Keys <- MCKeys
    Key <- MCDistinct
    Hints <- MCNoHints
    kMaxHeight = 2
    Readers <- MCReaders
    kBranching_ = 2
    CountSpan = 4
INVARIANTS
    ReadersTypeOK
    CursorsLinked
PROPERTIES
    LinearizableReads
    EstimatesNone
    ReadsReturn
