SPECIFICATION FairSpec
CONSTANTS
    r1 = r1
    r2 = r2
    w1 = w1
    w2 = w2
    c1 = c1
    c2 = c2
    c3 = c3
    Rmmod = Rmmod
    NULL = NULL
    Readers = {r1}
    Writers = {w1, w2}
    N = 1
    Cell = {c1, c2, c3}
    CanUnload = FALSE
CHECK_DEADLOCK FALSE
PROPERTY IterationsDone
