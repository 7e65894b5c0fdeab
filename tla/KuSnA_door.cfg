SPECIFICATION FairSpec
CONSTANTS
    a0 = a0
    a1 = a1
    ISR = ISR
    NULL = NULL
    App = {a0, a1}
    OnCpu0 = {a0}
    ONEROUND = 3
    CanUnload = TRUE
CHECK_DEADLOCK FALSE
INVARIANTS
    DoorWhereStateSays
    PhaseOfRotor
    NotesFollowShaft
    NoGpioAfterFree
PROPERTIES
    OneWay
    CallsReturn
    PressServed
