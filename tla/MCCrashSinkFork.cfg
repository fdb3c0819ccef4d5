SPECIFICATION Spec
CONSTANTS
    Pids = {p1, p2}
    None = None
    MaxSpawns = 2
    MaxCrashes = 2
    MaxFaults = 0
    Budgets = {1, 2}
    ReadMax = 2
    ForksInherit = TRUE
    Outcomes = {"own", "torn"}
CHECK_DEADLOCK FALSE
INVARIANT NoRecordLost
