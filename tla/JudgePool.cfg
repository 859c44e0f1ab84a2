SPECIFICATION Spec
CONSTANTS
    t1 = t1
    t2 = t2
    t3 = t3
    Threads <- MCThreads
    PER_SET = 4
    PER_GET = 2
    Sampled <- MCSampled
    RNDSTOREDNUMBERS = 8
    Window = 4
INVARIANTS
    PoolFits
    GetsDefined
PROPERTIES
    WindowsFresh
