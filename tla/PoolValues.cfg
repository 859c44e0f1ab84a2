SPECIFICATION Spec
CONSTANTS
    t1 = t1
    t2 = t2
    v1 = v1
    v2 = v2
    NoRef = NoRef
    Garbage = Garbage
    Aborted = Aborted
    Threads <- MCThreads
    Values <- MCValues
    Offsets <- MCOffsets
    Room <- MCRoom
    Requests <- MCRequests
    Length <- MCLength
    pool_count_ = 2
    AvailMin = 1
    Batch = 1
    UIntSpan = 3
    Snappy = TRUE
SYMMETRY MCSymmetry
INVARIANTS
    TypeOK
    Resolves
    Durable
    Accounted
    AllRefused
    DumpedWhole
    HandlesClosed
    TurningOn
