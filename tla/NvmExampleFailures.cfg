SPECIFICATION FairSpec
CONSTANTS
    t1 = t1
    t2 = t2
    NoOwner = NoOwner
    NoSlice = NoSlice
    NotFound = NotFound
    Threads <- MCOneThread
    Keys <- MCKeys
    Values <- MCValues
    Words <- MCWords
    Capacity = 10
    Builds <- MCLibpmem
    Failures <- MCBoth
INVARIANTS
    TypeOK
    Tiled
    Counted
    Durable
    Indexed
PROPERTIES
    AppendOnly
    NeverStuck
