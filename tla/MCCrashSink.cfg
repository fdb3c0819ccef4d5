SPECIFICATION FairSpec
CONSTANTS
    Pids = {p1, p2}
    None = None
    MaxSpawns = 3
    MaxCrashes = 3
    MaxFaults = 1
    Budgets = {1, 2}
    ReadMax = 2
    ForksInherit = FALSE
    Outcomes = {"own", "torn", "foreign"}
CHECK_DEADLOCK FALSE
INVARIANTS
    HandedOnce
    NoRecordLost
PROPERTIES
    ImplementsCrashLog
    EventuallyHanded
