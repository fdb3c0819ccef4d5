SPECIFICATION FairSpec
CONSTANT MaxPending = 2
CHECK_DEADLOCK FALSE
INVARIANTS
    LateTickBound
    NoThreadAfterUnload
PROPERTIES
    TickArrives
    CallsReturn
