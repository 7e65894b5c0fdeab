SPECIFICATION FairSpec
CONSTANTS
    c = c
    p1 = p1
    p2 = p2
    p3 = p3
    n1 = n1
    n2 = n2
    n3 = n3
    Root = Root
    NULL = NULL
    Proc = {c, p1, p2, p3}
    Node = {n1}
    Key = {1}
    Type = {7, 8}
    Size = {1, 2}
    KUIPC_MAXMSG = 2
    KUIPC_MAXVOL = 3
    StrayReads = {}
    MayCall <- AllCalls
    Programs <- ClosePrograms
    After <- CreatorFirst
CHECK_DEADLOCK FALSE
PROPERTIES
    TerminatesOrFaults
