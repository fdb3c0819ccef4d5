SPECIFICATION Spec
CONSTANTS
    HandleModulus = 6
    MaxUnits = 2
    MaxForks = 1
CHECK_DEADLOCK FALSE
INVARIANT NoStrayTimerCall
