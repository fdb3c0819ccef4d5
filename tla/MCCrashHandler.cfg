SPECIFICATION FairSpec
CONSTANTS
    Signals <- MCSignals
    MaxNested = 2
CHECK_DEADLOCK FALSE
INVARIANTS
    TypeOK
    EndsAsWithoutUs
    RecordedIfArmed
PROPERTY HandlerEnds
