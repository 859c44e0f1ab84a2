SPECIFICATION FairSpec
CONSTANTS
    t1 = t1
    t2 = t2
    n1 = n1
    n2 = n2
    n3 = n3
    h1 = h1
    Head = Head
    Null = Null
    SeqSplice = SeqSplice
    NoSplice = NoSplice
    Threads <- MCThreads
    Nodes <- MCNodes
    Keys <- MCKeys
    Key <- MCKey
    Hints <- MCNoHints
    kMaxHeight = 2
PROPERTIES
    CallsReturn
    Linearizable
