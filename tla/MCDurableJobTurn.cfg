\* An interactive turn calls the guard of side effects while a segment runs.
SPECIFICATION Spec
CONSTANTS
    w1 = w1
    w2 = w2
    k1 = k1
    Workers = {w1}
    StepKeys = {k1}
    Budget = 2
    MaxAttempts = 2
    MaxCost = 2
    MaxFaults = 1
INVARIANTS
    InTurnNotJournaled
CHECK_DEADLOCK FALSE
