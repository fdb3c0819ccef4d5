SPECIFICATION Spec
CONSTANTS
    HandleModulus = 6
    MaxUnits = 4
    MaxForks = 2
CHECK_DEADLOCK FALSE
INVARIANTS
    ArmedOnlyForUnit
    SamplesAreOwn
    HandleFinishesItsUnit
    ValveIffUnattended
PROPERTY SamplesSurviveAdoption
