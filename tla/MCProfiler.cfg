SPECIFICATION ProfilerFairSpec
CONSTANTS
    CheckEvery = 2
    MaxOverrun = 1
    MaxSignalled = 5
INVARIANTS
    TickConservation
    NothingLeftBehind
    ValveBound
    TicksAreNoticed
PROPERTY ValveTrips
