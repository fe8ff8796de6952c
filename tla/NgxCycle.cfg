SPECIFICATION CycleSpec
CONSTANTS
    Cases <- Requests
    Places <- Table
    FirstDelay = 800
    MaxMishaps = 1
INVARIANTS
    NeverShort
    NoneLeftBehind
    PidFilesTell
PROPERTIES
    EndingsEnd
    OldOnesGo
CHECK_DEADLOCK FALSE
