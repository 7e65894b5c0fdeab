SPECIFICATION FairSpec
CONSTANTS
    r1 = r1
    r2 = r2
    w1 = w1
    w2 = w2
    c1 = c1
    c2 = c2
    c3 = c3
    Rmmod = Rmmod
    NULL = NULL
    Readers = {r1, r2}
    Writers = {w1}
    N = 2
    Cell = {c1, c2}
    CanUnload = TRUE
CHECK_DEADLOCK FALSE
INVARIANTS
    NoUseAfterFree
    NoLeak
PROPERTIES
    ImplementsRegister
    IterationsDone
