SPECIFICATION Spec
CONSTANTS
    Callers = {f1, f2, f3}
    OpTypes = {curl, pdo}
    None = None
    StackMax = 3
    GenModulus = 3
    MaxAge = 2
    MaxBegins = 4
    MaxTime = 2
SYMMETRY OpsSymmetry
INVARIANTS
    TypeOK
    SlotOwnership
    SlotAccounting
    CurrentIsInnermost
    AggregatesAreThisUnitsCalls
