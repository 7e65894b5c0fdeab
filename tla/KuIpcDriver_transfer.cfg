SPECIFICATION Spec
CONSTANTS
    p1 = p1
    p2 = p2
    n1 = n1
    n2 = n2
    n3 = n3
    Root = Root
    NULL = NULL
    Proc = {p1, p2}
    Node = {n1}
    Key = {1}
    Type = {1, 2}
    Size = {0, 1, 2}
    KUIPC_MAXMSG = 2
    KUIPC_MAXVOL = 3
    StrayReads = {}
    MayCall <- TransferCalls
INVARIANTS
    LockOwned
    SizeCounts
    VolumeCounts
