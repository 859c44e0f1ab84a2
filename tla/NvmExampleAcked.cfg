SPECIFICATION Spec
CONSTANTS
    t1 = t1
    t2 = t2
    NoOwner = NoOwner
    NoSlice = NoSlice
    NotFound = NotFound
    Threads <- MCThreads
    Keys <- MCKeys
    Values <- MCShortValues
    Words <- MCWords
    Capacity = 9
    Builds <- MCLibpmem
    Failures <- MCBoth
INVARIANTS
    AckedSurvive
