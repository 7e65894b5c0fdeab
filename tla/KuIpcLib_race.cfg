SPECIFICATION LibSpec
CONSTANTS
    c = c
    p1 = p1
    p2 = p2
    p3 = p3
    n1 = n1
    n2 = n2
    n3 = n3
    Root = Root
    NULL = NULL
    Proc = {p1, p2}
    Node = {n1, n2}
    Key = {1}
    Type = {1}
    Size = {1}
    KUIPC_MAXMSG = 1
    KUIPC_MAXVOL = 1
    StrayReads = {}
    MayCall <- AllCalls
    Programs <- RacePrograms
    After <- AllAtOnce
CHECK_DEADLOCK FALSE
INVARIANTS
    OneQueuePerKey
