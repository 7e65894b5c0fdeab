SPECIFICATION FairSpec
CONSTANTS
    MaxWork = 3
    u1 = u1
    u2 = u2
    User = {u1, u2}
    Nobody = Nobody
    Home = u1
    MaxDepth = 2
    MaxDetect = 2
    ONEROUND = 3
    PERIODS = 2
    Start = {0, 5}
    Byte = {0, 255}
    Sample = {0, 2730, 4095}
CHECK_DEADLOCK FALSE
INVARIANTS
    NothingLeft
    PinsRequested
    EnabledWhileOpen
    HandlerOnlyWhileOpen
    ShowExact
    ExitAlone
    ShaftWhereMovesSay
    PrintsExact
PROPERTIES
    FaultsOnlySo
    NothingHangs
    EchoShown
