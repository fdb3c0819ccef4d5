SPECIFICATION FairSpec
CONSTANTS
    Capacity = 4
    CrashCrumbs = 3
    SeqModulus = 100
    MaxPushes = 9
CHECK_DEADLOCK FALSE
INVARIANTS
    TypeOK
    SnapshotComplete
    SnapshotOrdered
    SnapshotRecent
PROPERTY SnapshotTerminates
