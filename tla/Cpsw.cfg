SPECIFICATION CpswSpec
CONSTANTS
    NumRx = 2
INVARIANTS
    Accounted
    InOrder
    BuffersOnce
PROPERTIES
    RxRestarts
