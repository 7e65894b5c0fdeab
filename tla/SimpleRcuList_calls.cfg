SPECIFICATION FairSpec
CONSTANTS
    r1 = r1
    r2 = r2
    u1 = u1
    n1 = n1
    n2 = n2
    n3 = n3
    n4 = n4
    Head = Head
    NULL = NULL
    Rmmod = Rmmod
    Readers = {r1}
    Updaters = {u1}
    N = 2
    LEN = 2
    Node = {n1, n2, n3}
    CanUnload = TRUE
CHECK_DEADLOCK FALSE
INVARIANTS
    NoUseAfterFree
    ReadsAreFresh
    ListWhole
PROPERTIES
    CallsReturn
