SPECIFICATION Spec
CONSTANTS
    Pids = {p1}
    None = None
    MaxSpawns = 2
    MaxCrashes = 2
    MaxFaults = 0
    Budgets = {1, 2}
    ReadMax = 2
    ForksInherit = FALSE
    Outcomes = {"own", "cut"}
CHECK_DEADLOCK FALSE
INVARIANT HandedWhole
